-------------------------- MODULE WorkerLinkProofs --------------------------
(***************************************************************************)
(* Proofs about connections to the shared-worker authority, for any number  *)
(* of ports and documents and any durations: nobody writes into a session   *)
(* it did not open; the types; what is edited during a join is not lost; a  *)
(* window that runs keeps its lease, and who adopts is alone; the document  *)
(* a window holds is the authority's, and what it is sent continues it.     *)
(***************************************************************************)
EXTENDS WorkerLinkProperties, FiniteSetTheorems, TLAPS

-----------------------------------------------------------------------------
(* The invariant *)

\* The session is the record the worker keeps; its ops are a sequence.
IsSession(s) ==
  /\ s = [life |-> s.life, initial |-> s.initial, ops |-> s.ops, ports |-> s.ports]
  /\ s.life \in Nat /\ s.ports \in SUBSET Ports
  /\ \E S : s.ops \in Seq(S)

\* The ports the authority holds for open are those of its session, were
\* opened in its life, and so was the port of every op it has.
LivesAgree(s, o) ==
  /\ \A p \in s.ports : o[p] = s.life
  /\ \A i \in DOMAIN s.ops : s.ops[i].from \in Ports /\ o[s.ops[i].from] = s.life
  /\ s.ports = {} => s.ops = <<>>

LifeInv ==
  /\ IsSession(session) /\ LivesAgree(session, opened)
  /\ portSessions = session.ports
  /\ opened \in [Ports -> Nat]

-----------------------------------------------------------------------------
(* What the operators of the authority do to a session *)

LEMMA DisconnectedLives ==
  ASSUME NEW s, NEW o, NEW gone, IsSession(s), LivesAgree(s, o)
  PROVE  /\ IsSession(Disconnected(s, gone)) /\ LivesAgree(Disconnected(s, gone), o)
         /\ Disconnected(s, gone).ports = s.ports \ gone
         /\ Disconnected(s, gone).life = s.life
         /\ Disconnected(s, gone).ports # {} => Disconnected(s, gone).ops = s.ops
<1>1. CASE s.ports \subseteq gone
  <2>1. Disconnected(s, gone) = [life |-> s.life, initial |-> None, ops |-> <<>>, ports |-> {}]
    BY <1>1 DEF Disconnected, Forgotten
  <2>2. <<>> \in Seq({})
    OBVIOUS
  <2> QED
    BY <1>1, <2>1, <2>2 DEF IsSession, LivesAgree
<1>2. CASE ~(s.ports \subseteq gone)
  <2>1. Disconnected(s, gone) = [s EXCEPT !.ports = s.ports \ gone]
    BY <1>2 DEF Disconnected
  <2>2. Disconnected(s, gone) = [life |-> s.life, initial |-> s.initial, ops |-> s.ops,
                                 ports |-> s.ports \ gone]
    BY <2>1 DEF IsSession
  <2> QED
    BY <1>2, <2>2 DEF IsSession, LivesAgree
<1> QED
  BY <1>1, <1>2

LEMMA KeptLives ==
  ASSUME LifeInv, NEW p
  PROVE  /\ IsSession(Kept(p)) /\ LivesAgree(Kept(p), opened)
         /\ Known(p) = Kept(p).ports /\ Kept(p).life = session.life
         /\ Kept(p).ports # {} => Kept(p).ops = session.ops
<1>1. IsSession(session) /\ LivesAgree(session, opened) /\ portSessions = session.ports
  BY DEF LifeInv
<1>2. Kept(p) = Disconnected(session, Expired(p)) /\ Known(p) = portSessions \ Expired(p)
  BY DEF Kept, Known
<1> QED
  BY <1>1, <1>2, DisconnectedLives

\* A request that is answered without an effect only prunes.
LEMMA PruneLives ==
  ASSUME LifeInv, NEW p, Prune(p)
  PROVE  LifeInv'
BY KeptLives DEF Prune, LifeInv

LEMMA OpenLives ==
  ASSUME LifeInv, NEW p \in Ports, ServeOpen(p)
  PROVE  LifeInv'
<1> DEFINE s == IF Kept(p).ports = {} THEN Fresh(session, Head(toWorker[p]).doc) ELSE Kept(p)
           o == [opened EXCEPT ![p] = s.life]
<1>1. /\ session' = [s EXCEPT !.ports = s.ports \cup {p}]
      /\ opened' = o
      /\ portSessions' = Known(p) \cup {p}
  BY DEF ServeOpen
<1>2. IsSession(s) /\ Known(p) = s.ports
  <2>1. CASE Kept(p).ports = {}
    <3>1. s = [life |-> session.life + 1, initial |-> Head(toWorker[p]).doc,
               ops |-> <<>>, ports |-> {}]
      BY <2>1 DEF Fresh
    <3>2. <<>> \in Seq({})
      OBVIOUS
    <3>3. session.life \in Nat /\ Known(p) = {}
      BY <2>1, KeptLives DEF IsSession, LifeInv
    <3> HIDE DEF s
    <3> QED
      BY <3>1, <3>2, <3>3 DEF IsSession
  <2>2. CASE Kept(p).ports # {}
    <3>1. IsSession(Kept(p)) /\ Known(p) = Kept(p).ports
      BY KeptLives
    <3>2. s = Kept(p)
      BY <2>2
    <3> QED
      BY <3>1, <3>2
  <2> QED
    BY <2>1, <2>2
\* Whoever was in this life already still is; p now is.
<1>3. LivesAgree(s, o)
  <2>1. CASE Kept(p).ports = {}
    BY <2>1 DEF Fresh, LivesAgree
  <2>2. CASE Kept(p).ports # {}
    <3>1. s = Kept(p) /\ LivesAgree(s, opened) /\ opened \in [Ports -> Nat]
      BY <2>2, KeptLives DEF LifeInv
    <3>2. s.ports \subseteq Ports
      BY <1>2 DEF IsSession
    <3>3. \A x \in Ports : opened[x] = s.life => o[x] = s.life
      BY <3>1
    <3> QED
      BY <3>1, <3>2, <3>3 DEF LivesAgree
  <2> QED
    BY <2>1, <2>2
<1>4. session' = [life |-> s.life, initial |-> s.initial, ops |-> s.ops, ports |-> s.ports \cup {p}]
  BY <1>1, <1>2 DEF IsSession
<1>5. o \in [Ports -> Nat] /\ o[p] = s.life
  BY <1>2 DEF IsSession, LifeInv
<1> HIDE DEF s, o
<1>6. IsSession(session')
  BY <1>2, <1>4 DEF IsSession
<1>7. LivesAgree(session', o)
  BY <1>3, <1>4, <1>5 DEF LivesAgree
<1> QED
  BY <1>1, <1>2, <1>4, <1>5, <1>6, <1>7 DEF LifeInv

LEMMA AcceptLives ==
  ASSUME LifeInv, NEW p \in Ports, AcceptOp(p)
  PROVE  LifeInv'
<1> DEFINE k == Kept(p)
           op == [from |-> p, kind |-> Head(toWorker[p]).kind, doc |-> Head(toWorker[p]).doc]
<1>1. session' = [k EXCEPT !.ops = Append(k.ops, op)] /\ op.from = p
  BY DEF AcceptOp
<1>2. portSessions' = Known(p) /\ opened' = opened /\ p \in Known(p)
  BY DEF AcceptOp, IsOpen
<1>3. IsSession(k) /\ LivesAgree(k, opened) /\ Known(p) = k.ports
  BY KeptLives
<1> HIDE DEF k, op
<1>4. session' = [life |-> k.life, initial |-> k.initial, ops |-> Append(k.ops, op), ports |-> k.ports]
  BY <1>1, <1>3 DEF IsSession
<1>5. PICK S : k.ops \in Seq(S)
  BY <1>3 DEF IsSession
<1>6. k.ops \in Seq(S \cup {op})
  BY <1>5
<1>7. /\ Append(k.ops, op) \in Seq(S \cup {op})
      /\ \A i \in DOMAIN Append(k.ops, op) :
           \/ i \in DOMAIN k.ops /\ Append(k.ops, op)[i] = k.ops[i]
           \/ Append(k.ops, op)[i] = op
  BY <1>6
<1>8. IsSession(session')
  BY <1>3, <1>4, <1>7 DEF IsSession
<1>9. LivesAgree(session', opened)
  BY <1>1, <1>2, <1>3, <1>4, <1>7 DEF LivesAgree
<1> QED
  BY <1>2, <1>3, <1>4, <1>8, <1>9 DEF LifeInv

LEMMA CloseLives ==
  ASSUME LifeInv, NEW p \in Ports, ServeClose(p)
  PROVE  LifeInv'
<1>1. /\ session' = Disconnected(Kept(p), {p})
      /\ portSessions' = Known(p) \ {p} /\ opened' = opened
  BY DEF ServeClose
<1>2. /\ IsSession(Kept(p)) /\ LivesAgree(Kept(p), opened)
      /\ Known(p) = Kept(p).ports
  BY KeptLives
<1>3. /\ IsSession(session') /\ LivesAgree(session', opened)
      /\ session'.ports = Kept(p).ports \ {p}
  BY <1>1, <1>2, DisconnectedLives
<1> QED
  BY <1>1, <1>2, <1>3 DEF LifeInv

-----------------------------------------------------------------------------
(* The theorem *)

LEMMA LifeStarts ==
  ASSUME Init
  PROVE  LifeInv
<1>1. <<>> \in Seq({})
  OBVIOUS
<1> QED
  BY <1>1 DEF Init, LifeInv, IsSession, LivesAgree

\* Only the worker and the clock touch what the worker has.
LEMMA WindowsTouchNoWorker ==
  ASSUME NEW p \in Ports, Window(p) \/ User(p)
  PROVE  UNCHANGED workerVars
BY DEF Window, Handle, EventArrives, HeartbeatAnswered, OpenAnswered, PostAnswered,
     Accepted, AdoptConflicts, AdoptThrows, ReplaceIsStale, ReplaceAgain,
     NothingToReplace, ReplaceThrows, CloseAnswered, BringLocal, NothingToBring, Join,
     TimeOut, Beat, Answered, Receiving, User, Close, Freeze, Resume, Open, LocalEdit, Post

LEMMA LifeStep ==
  ASSUME LifeInv, [Next]_vars
  PROVE  LifeInv'
<1>1. ASSUME NEW p \in Ports, Serve(p)
      PROVE  LifeInv'
  <2>1. CASE RefuseUnknown(p) \/ ServeRead(p) \/ ConflictOp(p) \/ StaleOp(p)
    BY <2>1, PruneLives DEF RefuseUnknown, ServeRead, ConflictOp, StaleOp
  <2> QED
    BY <1>1, <2>1, OpenLives, AcceptLives, CloseLives DEF Serve
<1>2. CASE Tick
  BY <1>2 DEF Tick, LifeInv
<1>3. CASE UNCHANGED workerVars
  BY <1>3 DEF workerVars, LifeInv
<1> QED
  BY <1>1, <1>2, <1>3, WindowsTouchNoWorker DEF Next, vars, workerVars

\* A window only ever writes into a session of the authority that it opened
\* itself, whatever freezes, expires, closes or is served late.
THEOREM OwnLifeOnly == Spec => []OpsOfThisLife
<1>1. LifeInv => OpsOfThisLife
  BY DEF LifeInv, LivesAgree, OpsOfThisLife
<1> QED
  BY <1>1, LifeStarts, LifeStep, PTL DEF Spec

-----------------------------------------------------------------------------
(* Types, and the dialogue of a window with the worker: one request of the  *)
(* join is outstanding at a time, the one its stage waits for.              *)

JoinKinds == {"open", "adopt", "replace", "fetch-snapshot"}
Awaited(stage) ==
  CASE stage = "opening" -> "open" [] stage = "adopting" -> "adopt"
    [] stage = "replacing" -> "replace" [] stage = "refetching" -> "fetch-snapshot"
    [] OTHER -> "none"

\* m is what the join waits for, with the document it sent.
Expected(m, j) ==
  m.kind \in JoinKinds =>
    /\ m.kind = Awaited(j.stage)
    /\ m.kind \in {"adopt", "replace"} => m.doc = j.target

\* The requests w and the messages t of a connection l, and the join j above it.
InTurn(j, w, t) ==
  /\ \A i \in 1 .. Len(w) : Expected(w[i], j)
  /\ \A i \in 1 .. Len(t) : t[i].kind \in JoinKinds =>
       /\ t[i].kind = Awaited(j.stage)
       /\ t[i].result = "accepted" => t[i].doc = j.target
  /\ \A i, k \in 1 .. Len(w) : w[i].kind \in JoinKinds /\ w[k].kind \in JoinKinds => i = k
  /\ \A i, k \in 1 .. Len(t) : t[i].kind \in JoinKinds /\ t[k].kind \in JoinKinds => i = k
  /\ \A i \in 1 .. Len(w), k \in 1 .. Len(t) : ~(w[i].kind \in JoinKinds /\ t[k].kind \in JoinKinds)

\* The answers in t are n; c counts them.
Owed(n, t) ==
  \E c \in [0 .. Len(t) -> Int] :
    /\ c[Len(t)] - c[0] = n
    /\ \A i \in 1 .. Len(t) : c[i] = c[i - 1] + (IF t[i].kind = "op" THEN 0 ELSE 1)
    /\ \A i, k \in 0 .. Len(t) : i <= k => c[i] <= c[k]

NotClosing(w, t) ==
  /\ \A i \in 1 .. Len(w) : w[i].kind # "close"
  /\ \A i \in 1 .. Len(t) : t[i].kind # "close"

\* Whatever is outstanding is a request the worker has or an answer on its way.
Owing(l, w, t) == Owed(Len(l.pending) - Len(w), t)

Dialogue(l, j, w, t) ==
  /\ (j.stage = "none") <=> (l.state = "none")
  /\ j.stage = "none" => w = <<>> /\ t = <<>>
  /\ l.state = "closed" => t = <<>>
  /\ j.stage \in {"opening", "deciding", "adopting", "replacing", "refetching"} =>
       l.state = "open" /\ j.local \in Docs
  /\ j.stage \in {"adopting", "replacing", "refetching"} => j.target \in Docs
  /\ \A i \in 1 .. Len(w) : w[i].kind \in Ops \cup {"open"} => w[i].doc \in Docs
  /\ l.state # "closed" => InTurn(j, w, t) /\ Owing(l, w, t)
  /\ l.state = "open" => NotClosing(w, t)

LinkInv ==
  /\ TypeOK /\ LifeInv
  /\ \A p \in Ports : Dialogue(link[p], join[p], toWorker[p], toPort[p])
  /\ \A p \in session.ports : join[p].stage # "none"

-----------------------------------------------------------------------------
(* The worker serves a request                                              *)

SessionOK(s) ==
  /\ s \in [life : Nat, initial : Docs \cup {None}, ops : Seq(Op), ports : SUBSET Ports]
  /\ s.initial \in Docs <=> s.ports # {}

LEMMA DisconnectedOK ==
  ASSUME NEW s, SessionOK(s), NEW gone
  PROVE  SessionOK(Disconnected(s, gone)) /\ Disconnected(s, gone).ports \subseteq s.ports
<1>1. CASE s.ports \subseteq gone
  <2>1. Disconnected(s, gone) = [life |-> s.life, initial |-> None, ops |-> <<>>, ports |-> {}]
    BY <1>1 DEF Disconnected, Forgotten
  <2>2. <<>> \in Seq(Op)
    OBVIOUS
  <2> QED
    BY <2>1, <2>2, LinkAssumption DEF SessionOK
<1>2. CASE ~(s.ports \subseteq gone)
  <2>1. Disconnected(s, gone) = [s EXCEPT !.ports = s.ports \ gone]
    BY <1>2 DEF Disconnected
  <2>2. s.ports \ gone # {} /\ s.ports \ gone \in SUBSET Ports
    BY <1>2 DEF SessionOK
  <2> QED
    BY <1>2, <2>1, <2>2 DEF SessionOK
<1> QED
  BY <1>1, <1>2

LEMMA KeptOK ==
  ASSUME LinkInv, NEW p
  PROVE  SessionOK(Kept(p)) /\ Known(p) \in SUBSET Ports
<1>1. SessionOK(session) /\ portSessions \in SUBSET Ports
  BY DEF LinkInv, TypeOK, SessionOK
<1> QED
  BY <1>1, DisconnectedOK DEF Kept, Known

\* The request at the head.
LEMMA HeadOK ==
  ASSUME LinkInv, NEW p \in Ports, toWorker[p] # <<>>
  PROVE  /\ Head(toWorker[p]) \in Request
         /\ Head(toWorker[p]).kind \in Ops \cup {"open"} => Head(toWorker[p]).doc \in Docs
<1>1. toWorker[p] \in Seq(Request)
  BY DEF LinkInv, TypeOK
<1>2. 1 \in 1 .. Len(toWorker[p]) /\ Head(toWorker[p]) = toWorker[p][1]
  BY <1>1
<1>3. \A i \in 1 .. Len(toWorker[p]) :
        toWorker[p][i].kind \in Ops \cup {"open"} => toWorker[p][i].doc \in Docs
  BY DEF LinkInv, Dialogue
<1> QED
  BY <1>1, <1>2, <1>3

LEMMA DocAtOK ==
  ASSUME NEW s, SessionOK(s), NEW r \in 0 .. Len(s.ops)
  PROVE  DocAt(s, r) \in Docs \cup {None}
<1>1. s.ops \in Seq(Op) /\ s.initial \in Docs \cup {None}
  BY DEF SessionOK
<1>2. CASE r = 0
  BY <1>1, <1>2 DEF DocAt
<1>3. CASE r # 0
  <2>1. Len(s.ops) \in Nat /\ r \in 1 .. Len(s.ops)
    BY <1>1, <1>3
  <2>2. s.ops[r] \in Op
    BY <1>1, <2>1
  <2> QED
    BY <1>3, <2>2 DEF DocAt, Op
<1> QED
  BY <1>2, <1>3

LEMMA SessionStays ==
  ASSUME LinkInv, NEW p \in Ports, Serve(p)
  PROVE  SessionOK(session')
<1>1. SessionOK(Kept(p))
  BY KeptOK
<1>2. CASE RefuseUnknown(p) \/ ServeRead(p) \/ ConflictOp(p) \/ StaleOp(p)
  BY <1>1, <1>2 DEF RefuseUnknown, ServeRead, ConflictOp, StaleOp, Prune
<1>3. CASE ServeClose(p)
  BY <1>1, <1>3, DisconnectedOK DEF ServeClose
<1>4. CASE ServeOpen(p)
  <2> DEFINE s == IF Kept(p).ports = {} THEN Fresh(session, Head(toWorker[p]).doc) ELSE Kept(p)
             ports == s.ports \cup {p}
  <2>1. session' = [s EXCEPT !.ports = ports]
    BY <1>4 DEF ServeOpen
  <2>2. Head(toWorker[p]).doc \in Docs /\ session.life + 1 \in Nat
    <3>1. toWorker[p] # <<>> /\ Head(toWorker[p]).kind = "open"
      BY <1>4 DEF ServeOpen, Serving
    <3> QED
      BY <3>1, HeadOK DEF LinkInv, TypeOK
  <2>3. s \in [life : Nat, initial : Docs \cup {None}, ops : Seq(Op), ports : SUBSET Ports]
        /\ s.initial \in Docs
    <3>1. CASE Kept(p).ports = {}
      <4>1. s = [life |-> session.life + 1, initial |-> Head(toWorker[p]).doc, ops |-> <<>>, ports |-> {}]
        BY <3>1 DEF Fresh
      <4>2. <<>> \in Seq(Op)
        OBVIOUS
      <4> HIDE DEF s
      <4> QED
        BY <2>2, <4>1, <4>2
    <3>2. CASE Kept(p).ports # {}
      BY <1>1, <3>2 DEF SessionOK
    <3> QED
      BY <3>1, <3>2
  <2>4. ports \in SUBSET Ports /\ ports # {}
    BY <2>3
  <2> HIDE DEF s, ports
  <2> QED
    BY <2>1, <2>3, <2>4 DEF SessionOK
<1>5. CASE AcceptOp(p)
  <2> DEFINE k == Kept(p)
             op == [from |-> p, kind |-> Head(toWorker[p]).kind, doc |-> Head(toWorker[p]).doc]
             ops == Append(k.ops, op)
  <2>1. session' = [k EXCEPT !.ops = ops]
    BY <1>5 DEF AcceptOp
  <2>2. op \in Op
    <3>1. toWorker[p] # <<>> /\ Head(toWorker[p]).kind \in Ops
      BY <1>5 DEF AcceptOp, Serving
    <3> QED
      BY <3>1, HeadOK DEF Op, Ops, Kinds
  <2> HIDE DEF op, k
  <2>3. SessionOK(k)
    BY <1>1 DEF k
  <2>4. ops \in Seq(Op)
    BY <2>2, <2>3 DEF SessionOK
  <2> HIDE DEF ops
  <2> QED
    BY <2>1, <2>3, <2>4 DEF SessionOK
<1> QED
  BY <1>2, <1>3, <1>4, <1>5 DEF Serve

-----------------------------------------------------------------------------
(* Requests and answers take turns                                          *)

\* No request of the join, and no answer to one, is on its way.
Quiet(w, t) ==
  /\ \A i \in 1 .. Len(w) : w[i].kind \notin JoinKinds
  /\ \A i \in 1 .. Len(t) : t[i].kind \notin JoinKinds

LEMMA QuietInTurn ==
  ASSUME NEW j, NEW w, NEW t, Quiet(w, t)
  PROVE  InTurn(j, w, t)
BY DEF Quiet, InTurn, Expected

\* A join that waits for nothing has nothing on its way.
LEMMA IdleIsQuiet ==
  ASSUME NEW j, NEW w, NEW t, InTurn(j, w, t), Awaited(j.stage) = "none"
  PROVE  Quiet(w, t)
BY DEF Quiet, InTurn, Expected, JoinKinds

LEMMA SameTurn ==
  ASSUME NEW j, NEW i, NEW w, NEW t, InTurn(j, w, t), i.stage = j.stage, i.target = j.target
  PROVE  InTurn(i, w, t)
BY DEF InTurn, Expected

\* Its answer at the head is all there is of a request of the join.
LEMMA TurnTaken ==
  ASSUME NEW j, NEW w \in Seq(Request), NEW t \in Seq(Msg), InTurn(j, w, t), t # <<>>,
         Head(t).kind \in JoinKinds
  PROVE  Quiet(w, Tail(t))
<1>1. 1 \in 1 .. Len(t) /\ t[1].kind \in JoinKinds
  OBVIOUS
<1>2. \A i \in 1 .. Len(w) : w[i].kind \notin JoinKinds
  BY <1>1 DEF InTurn
<1>3. \A i \in 1 .. Len(Tail(t)) : i + 1 \in 1 .. Len(t) /\ Tail(t)[i] = t[i + 1] /\ i + 1 # 1
  OBVIOUS
<1>4. \A i \in 1 .. Len(Tail(t)) : Tail(t)[i].kind \notin JoinKinds
  BY <1>1, <1>3 DEF InTurn
<1> QED
  BY <1>2, <1>4 DEF Quiet

LEMMA TailInTurn ==
  ASSUME NEW j, NEW w \in Seq(Request), NEW t \in Seq(Msg), InTurn(j, w, t), t # <<>>
  PROVE  InTurn(j, w, Tail(t))
<1>1. \A i \in 1 .. Len(Tail(t)) : i + 1 \in 1 .. Len(t) /\ Tail(t)[i] = t[i + 1]
  OBVIOUS
<1>2. \A i, k \in 1 .. Len(Tail(t)) :
        Tail(t)[i].kind \in JoinKinds /\ Tail(t)[k].kind \in JoinKinds => i + 1 = k + 1
  BY <1>1 DEF InTurn
<1>3. \A i, k \in 1 .. Len(Tail(t)) : i + 1 = k + 1 => i = k
  OBVIOUS
<1> QED
  BY <1>1, <1>2, <1>3 DEF InTurn

\* Asking for something else, or for what the join waits for when all is quiet.
LEMMA AskInTurn ==
  ASSUME NEW j, NEW w \in Seq(Request), NEW t, NEW m, InTurn(j, w, t), Expected(m, j),
         m.kind \in JoinKinds => Quiet(w, t)
  PROVE  InTurn(j, Append(w, m), t)
<1>1. Len(Append(w, m)) = Len(w) + 1 /\ Len(w) \in Nat
  OBVIOUS
<1>2. \A i \in 1 .. Len(w) + 1 :
        \/ i \in 1 .. Len(w) /\ Append(w, m)[i] = w[i]
        \/ i = Len(w) + 1 /\ Append(w, m)[i] = m
  OBVIOUS
<1> HIDE DEF Expected
<1> QED
  BY <1>1, <1>2 DEF InTurn, Quiet

\* The worker answers the request at the head.
LEMMA AnswerInTurn ==
  ASSUME NEW j, NEW w \in Seq(Request), NEW t \in Seq(Msg), NEW m, InTurn(j, w, t), w # <<>>,
         m.kind = Head(w).kind,
         m.result = "accepted" => m.doc = Head(w).doc /\ m.kind \in Ops
  PROVE  InTurn(j, Tail(w), Append(t, m))
<1>1. \A i \in 1 .. Len(Tail(w)) : i + 1 \in 1 .. Len(w) /\ Tail(w)[i] = w[i + 1] /\ i + 1 # 1
  OBVIOUS
<1>2. 1 \in 1 .. Len(w) /\ Head(w) = w[1]
  OBVIOUS
<1>3. Len(Append(t, m)) = Len(t) + 1 /\ Len(t) \in Nat
  OBVIOUS
<1>4. \A i \in 1 .. Len(t) + 1 :
        \/ i \in 1 .. Len(t) /\ Append(t, m)[i] = t[i]
        \/ i = Len(t) + 1 /\ Append(t, m)[i] = m
  OBVIOUS
<1>5. m.kind \in JoinKinds =>
        m.kind = Awaited(j.stage) /\ (m.result = "accepted" => m.doc = j.target)
  BY <1>2 DEF InTurn, Expected, JoinKinds, Ops
<1>6. \A i, k \in 1 .. Len(Tail(w)) :
        Tail(w)[i].kind \in JoinKinds /\ Tail(w)[k].kind \in JoinKinds => i + 1 = k + 1
  BY <1>1 DEF InTurn
<1>7. \A i, k \in 1 .. Len(Tail(w)) : i + 1 = k + 1 => i = k
  OBVIOUS
<1>8. \A i \in 1 .. Len(t) + 1 : Append(t, m)[i].kind \in JoinKinds =>
        /\ Append(t, m)[i].kind = Awaited(j.stage)
        /\ Append(t, m)[i].result = "accepted" => Append(t, m)[i].doc = j.target
  BY <1>4, <1>5 DEF InTurn
<1>9. \A i, k \in 1 .. Len(t) + 1 :
        Append(t, m)[i].kind \in JoinKinds /\ Append(t, m)[k].kind \in JoinKinds => i = k
  BY <1>2, <1>4 DEF InTurn
<1>10. \A i \in 1 .. Len(Tail(w)), k \in 1 .. Len(t) + 1 :
         ~(Tail(w)[i].kind \in JoinKinds /\ Append(t, m)[k].kind \in JoinKinds)
  BY <1>1, <1>2, <1>4 DEF InTurn
<1>11. \A i \in 1 .. Len(Tail(w)) : Expected(Tail(w)[i], j)
  BY <1>1 DEF InTurn
<1> QED
  BY <1>3, <1>6, <1>7, <1>8, <1>9, <1>10, <1>11 DEF InTurn

\* It announces another window's op.
LEMMA EventInTurn ==
  ASSUME NEW j, NEW w, NEW t \in Seq(Msg), NEW m, InTurn(j, w, t), m.kind \notin JoinKinds
  PROVE  InTurn(j, w, Append(t, m))
<1>1. Len(Append(t, m)) = Len(t) + 1 /\ Len(t) \in Nat
  OBVIOUS
<1>2. \A i \in 1 .. Len(t) + 1 :
        \/ i \in 1 .. Len(t) /\ Append(t, m)[i] = t[i]
        \/ i = Len(t) + 1 /\ Append(t, m)[i] = m
  OBVIOUS
<1> QED
  BY <1>1, <1>2 DEF InTurn

LEMMA NothingOwed == Owed(0, <<>>)
<1> DEFINE c == [i \in 0 .. 0 |-> 0]
<1>1. c \in [0 .. 0 -> Int] /\ c[0] = 0 /\ Len(<<>>) = 0
  OBVIOUS
<1> HIDE DEF c
<1> QED
  BY <1>1 DEF Owed

LEMMA OwedAppend ==
  ASSUME NEW n \in Int, NEW t \in Seq(Msg), Owed(n, t), NEW m \in Msg
  PROVE  Owed(IF m.kind = "op" THEN n ELSE n + 1, Append(t, m))
<1>1. PICK c \in [0 .. Len(t) -> Int] :
        /\ c[Len(t)] - c[0] = n
        /\ \A i \in 1 .. Len(t) : c[i] = c[i - 1] + (IF t[i].kind = "op" THEN 0 ELSE 1)
        /\ \A i, k \in 0 .. Len(t) : i <= k => c[i] <= c[k]
  BY DEF Owed
<1> DEFINE L == Len(t)
           e == IF m.kind = "op" THEN 0 ELSE 1
           u == Append(t, m)
           d == [i \in 0 .. L + 1 |-> IF i = L + 1 THEN c[L] + e ELSE c[i]]
<1>2. L \in Nat /\ e \in {0, 1} /\ Len(u) = L + 1 /\ u[L + 1] = m /\ \A i \in 1 .. L : u[i] = t[i]
  OBVIOUS
<1> HIDE DEF L, u, e
<1>3. d \in [0 .. L + 1 -> Int] /\ d[L + 1] = c[L] + e /\ \A i \in 0 .. L : d[i] = c[i]
  BY <1>2 DEF L
<1> HIDE DEF d
<1>4. d[L + 1] - d[0] = n + e
  BY <1>1, <1>2, <1>3 DEF L
<1>5. \A i \in 1 .. L + 1 : d[i] = d[i - 1] + (IF u[i].kind = "op" THEN 0 ELSE 1)
  <2>1. ASSUME NEW i \in 1 .. L
        PROVE  d[i] = d[i - 1] + (IF u[i].kind = "op" THEN 0 ELSE 1)
    <3>1. i \in 0 .. L /\ i - 1 \in 0 .. L
      BY <1>2
    <3>2. c[i] = c[i - 1] + (IF t[i].kind = "op" THEN 0 ELSE 1)
      BY <1>1, <2>1 DEF L
    <3>3. d[i] = c[i] /\ d[i - 1] = c[i - 1] /\ u[i] = t[i]
      BY <1>2, <1>3, <3>1
    <3> QED
      BY <3>2, <3>3
  <2>2. d[L + 1] = d[L] + (IF u[L + 1].kind = "op" THEN 0 ELSE 1) /\ (L + 1) - 1 = L
    BY <1>2, <1>3 DEF e
  <2>3. \A i \in 1 .. L + 1 : i \in 1 .. L \/ i = L + 1
    BY <1>2
  <2> QED
    BY <2>1, <2>2, <2>3
<1>6. \A i, k \in 0 .. L + 1 : i <= k => d[i] <= d[k]
  <2> SUFFICES ASSUME NEW i \in 0 .. L + 1, NEW k \in 0 .. L + 1, i <= k
               PROVE  d[i] <= d[k]
    OBVIOUS
  <2>1. CASE k \in 0 .. L
    <3>1. i \in 0 .. L
      BY <1>2, <2>1
    <3> QED
      BY <1>1, <1>3, <2>1, <3>1 DEF L
  <2>2. CASE i \in 0 .. L /\ k = L + 1
    <3>1. L \in 0 .. L /\ c[i] <= c[L] /\ c[i] \in Int /\ c[L] \in Int
      BY <1>1, <1>2, <2>2 DEF L
    <3> QED
      BY <1>2, <1>3, <2>2, <3>1
  <2>3. CASE i = L + 1 /\ k = L + 1
    <3>1. d[L + 1] \in Int
      BY <1>2, <1>3
    <3> QED
      BY <2>3, <3>1
  <2> QED
    BY <1>2, <2>1, <2>2, <2>3
<1>7. Owed(n + e, u)
  BY <1>2, <1>3, <1>4, <1>5, <1>6 DEF Owed
<1> QED
  BY <1>7 DEF u, e

LEMMA OwedTail ==
  ASSUME NEW n \in Int, NEW t \in Seq(Msg), Owed(n, t), t # <<>>
  PROVE  IF Head(t).kind = "op" THEN Owed(n, Tail(t)) ELSE n >= 1 /\ Owed(n - 1, Tail(t))
<1>1. PICK c \in [0 .. Len(t) -> Int] :
        /\ c[Len(t)] - c[0] = n
        /\ \A i \in 1 .. Len(t) : c[i] = c[i - 1] + (IF t[i].kind = "op" THEN 0 ELSE 1)
        /\ \A i, k \in 0 .. Len(t) : i <= k => c[i] <= c[k]
  BY DEF Owed
<1> DEFINE L == Len(t)
           e == IF Head(t).kind = "op" THEN 0 ELSE 1
           u == Tail(t)
           d == [i \in 0 .. L - 1 |-> c[i + 1]]
<1>2. L \in Nat /\ L >= 1 /\ Len(u) = L - 1 /\ \A i \in 1 .. L - 1 : u[i] = t[i + 1]
  OBVIOUS
<1>3. c[1] = c[0] + e /\ c[1] <= c[L] /\ c[0] \in Int /\ c[1] \in Int /\ c[L] \in Int
  BY <1>1, <1>2
<1> HIDE DEF L, u
<1>4. d \in [0 .. L - 1 -> Int] /\ \A i \in 0 .. L - 1 : d[i] = c[i + 1]
  BY <1>2 DEF L
<1> HIDE DEF d
<1>5. d[L - 1] - d[0] = n - e /\ n >= e
  BY <1>1, <1>2, <1>3, <1>4 DEF L
<1>6. \A i \in 1 .. L - 1 : d[i] = d[i - 1] + (IF u[i].kind = "op" THEN 0 ELSE 1)
  <2> SUFFICES ASSUME NEW i \in 1 .. L - 1
               PROVE  d[i] = d[i - 1] + (IF u[i].kind = "op" THEN 0 ELSE 1)
    OBVIOUS
  <2>1. i \in 0 .. L - 1 /\ i - 1 \in 0 .. L - 1 /\ i + 1 \in 1 .. L /\ (i - 1) + 1 = i /\ (i + 1) - 1 = i
    BY <1>2
  <2>2. c[i + 1] = c[i] + (IF t[i + 1].kind = "op" THEN 0 ELSE 1)
    BY <1>1, <2>1 DEF L
  <2>3. d[i] = c[i + 1] /\ d[i - 1] = c[i] /\ u[i] = t[i + 1]
    BY <1>2, <1>4, <2>1
  <2> QED
    BY <2>2, <2>3
<1>7. \A i, k \in 0 .. L - 1 : i <= k => d[i] <= d[k]
  BY <1>1, <1>2, <1>4 DEF L
<1>8. Owed(n - e, u)
  BY <1>2, <1>4, <1>5, <1>6, <1>7 DEF Owed
<1> QED
  BY <1>5, <1>8 DEF u

LEMMA NotClosingTail ==
  ASSUME NEW w \in Seq(Request), NEW t \in Seq(Msg), NotClosing(w, t)
  PROVE  /\ w # <<>> => NotClosing(Tail(w), t) /\ Head(w).kind # "close"
         /\ t # <<>> => NotClosing(w, Tail(t)) /\ Head(t).kind # "close"
<1>1. CASE w # <<>>
  <2>1. \A i \in 1 .. Len(Tail(w)) : i + 1 \in 1 .. Len(w) /\ Tail(w)[i] = w[i + 1]
    BY <1>1
  <2>2. 1 \in 1 .. Len(w) /\ Head(w) = w[1]
    BY <1>1
  <2> QED
    BY <2>1, <2>2 DEF NotClosing
<1>2. CASE t # <<>>
  <2>1. \A i \in 1 .. Len(Tail(t)) : i + 1 \in 1 .. Len(t) /\ Tail(t)[i] = t[i + 1]
    BY <1>2
  <2>2. 1 \in 1 .. Len(t) /\ Head(t) = t[1]
    BY <1>2
  <2> QED
    BY <2>1, <2>2 DEF NotClosing
<1> QED
  BY <1>1, <1>2

LEMMA NotClosingAppend ==
  ASSUME NEW w \in Seq(Request), NEW t \in Seq(Msg), NotClosing(w, t), NEW m, m.kind # "close"
  PROVE  NotClosing(Append(w, m), t) /\ NotClosing(w, Append(t, m))
<1>1. /\ Len(Append(w, m)) = Len(w) + 1 /\ Len(w) \in Nat
      /\ Len(Append(t, m)) = Len(t) + 1 /\ Len(t) \in Nat
  OBVIOUS
<1>2. \A i \in 1 .. Len(w) + 1 :
        \/ i \in 1 .. Len(w) /\ Append(w, m)[i] = w[i]
        \/ i = Len(w) + 1 /\ Append(w, m)[i] = m
  OBVIOUS
<1>3. \A i \in 1 .. Len(t) + 1 :
        \/ i \in 1 .. Len(t) /\ Append(t, m)[i] = t[i]
        \/ i = Len(t) + 1 /\ Append(t, m)[i] = m
  OBVIOUS
<1> QED
  BY <1>1, <1>2, <1>3 DEF NotClosing

-----------------------------------------------------------------------------
(* What a port is sent                                                      *)

LEMMA DeliveredOK ==
  ASSUME LinkInv, NEW q \in Ports, NEW m \in Msg
  PROVE  Delivered(q, m) \in Seq(Msg)
<1>1. toPort[q] \in Seq(Msg)
  BY DEF LinkInv, TypeOK
<1> QED
  BY <1>1 DEF Delivered

\* What an answer to p may be.
Fitting(p, m) ==
  /\ m.kind = Head(toWorker[p]).kind
  /\ m.result = "accepted" => m.doc = Head(toWorker[p]).doc /\ m.kind \in Ops

LEMMA ReplyFits ==
  ASSUME LinkInv, NEW p \in Ports, toWorker[p] # <<>>, NEW result \in Results \ {"accepted"},
         NEW rev \in Nat, NEW doc \in Docs \cup {None}, Reply(p, result, rev, doc)
  PROVE  /\ \E m \in Msg : Fitting(p, m) /\ toPort'[p] = Delivered(p, m)
         /\ \A q \in Ports \ {p} : toPort'[q] = toPort[q]
         /\ toPort' \in [Ports -> Seq(Msg)]
<1> DEFINE m == Answer(p, result, rev, doc)
<1>1. m \in Msg /\ Fitting(p, m)
  <2>1. Head(toWorker[p]).kind \in Kinds
    BY HeadOK DEF Request
  <2> QED
    BY <2>1 DEF Answer, Msg, Fitting
<1>2. toPort \in [Ports -> Seq(Msg)]
  BY DEF LinkInv, TypeOK
<1>3. toPort' = [toPort EXCEPT ![p] = Delivered(p, m)]
  BY DEF Reply
<1>4. Delivered(p, m) \in Seq(Msg)
  BY <1>1, DeliveredOK
<1> HIDE DEF m
<1> QED
  BY <1>1, <1>2, <1>3, <1>4

LEMMA AnnouncedFits ==
  ASSUME LinkInv, NEW p \in Ports, toWorker[p] # <<>>, Head(toWorker[p]).kind \in Ops,
         NEW s, s.ops \in Seq(Op), s.ports \subseteq session.ports,
         toPort' = Announced(p, s, Head(toWorker[p]).doc)
  PROVE  /\ \E m \in Msg : Fitting(p, m) /\ toPort'[p] = Delivered(p, m)
         /\ \A q \in Ports \ {p} :
              \/ toPort'[q] = toPort[q]
              \/ q \in session.ports /\ \E m \in Msg : m.kind = "op" /\ toPort'[q] = Delivered(q, m)
         /\ toPort' \in [Ports -> Seq(Msg)]
<1> DEFINE doc == Head(toWorker[p]).doc
           m == Answer(p, "accepted", Len(s.ops), doc)
           event == [kind |-> "op", result |-> "op", rev |-> Len(s.ops), doc |-> doc]
<1>1. doc \in Docs /\ Head(toWorker[p]).kind \in Kinds /\ Len(s.ops) \in Nat
  BY HeadOK DEF Request
<1>2. m \in Msg /\ Fitting(p, m)
  BY <1>1 DEF Answer, Msg, Fitting, Results
<1>3. event \in Msg /\ event.kind = "op"
  BY <1>1 DEF Msg, Results
<1>4. toPort' = [q \in Ports |->
        IF q = p THEN Delivered(p, m)
        ELSE IF q \in s.ports THEN Delivered(q, event) ELSE toPort[q]]
  BY DEF Announced
<1>5. toPort \in [Ports -> Seq(Msg)]
  BY DEF LinkInv, TypeOK
<1>6. \A q \in Ports : Delivered(q, event) \in Seq(Msg)
  BY <1>3, DeliveredOK
<1>7. Delivered(p, m) \in Seq(Msg)
  BY <1>2, DeliveredOK
<1> HIDE DEF m, event
<1> QED
  BY <1>2, <1>3, <1>4, <1>5, <1>6, <1>7

\* An answer to its sender, nothing or an event to the others.
LEMMA ServedOK ==
  ASSUME LinkInv, NEW p \in Ports, Serve(p)
  PROVE  /\ link' = link /\ join' = join
         /\ toWorker[p] # <<>> /\ toWorker' = [toWorker EXCEPT ![p] = Tail(@)]
         /\ portSeen' = [portSeen EXCEPT ![p] = 0]
         /\ \E m \in Msg : Fitting(p, m) /\ toPort'[p] = Delivered(p, m)
         /\ \A q \in Ports \ {p} :
              \/ toPort'[q] = toPort[q]
              \/ q \in session.ports /\ \E m \in Msg : m.kind = "op" /\ toPort'[q] = Delivered(q, m)
         /\ toPort' \in [Ports -> Seq(Msg)]
<1>1. PICK kinds : Serving(p, kinds)
  BY DEF Serve, ServeOpen, RefuseUnknown, ServeRead, ConflictOp, StaleOp, AcceptOp, ServeClose
<1>2. /\ link' = link /\ join' = join
      /\ toWorker[p] # <<>> /\ toWorker' = [toWorker EXCEPT ![p] = Tail(@)]
      /\ portSeen' = [portSeen EXCEPT ![p] = 0]
  BY <1>1 DEF Serving
<1>3. SessionOK(session) /\ SessionOK(Kept(p))
  BY KeptOK DEF LinkInv, TypeOK, SessionOK
<1>4. \A s : SessionOK(s) => Len(s.ops) \in Nat /\ Current(s) \in Docs \cup {None}
  <2> TAKE s
  <2> HAVE SessionOK(s)
  <2>1. Len(s.ops) \in Nat /\ Len(s.ops) \in 0 .. Len(s.ops)
    BY DEF SessionOK
  <2> QED
    BY <2>1, DocAtOK DEF Current
<1>5. CASE ServeOpen(p)
  <2> DEFINE s == IF Kept(p).ports = {} THEN Fresh(session, Head(toWorker[p]).doc) ELSE Kept(p)
  <2>1. Reply(p, "opened", Len(s.ops), Current(s))
    BY <1>5 DEF ServeOpen
  <2>2. Len(s.ops) \in Nat /\ Current(s) \in Docs \cup {None}
    <3>1. CASE Kept(p).ports = {}
      <4>1. s.ops = <<>> /\ s.initial = Head(toWorker[p]).doc
        BY <3>1 DEF Fresh
      <4>2. Head(toWorker[p]).doc \in Docs \cup {None}
        BY <1>2, HeadOK DEF Request
      <4> QED
        BY <4>1, <4>2 DEF Current, DocAt
    <3>2. CASE Kept(p).ports # {}
      BY <1>3, <1>4, <3>2
    <3> QED
      BY <3>1, <3>2
  <2>3. "opened" \in Results \ {"accepted"}
    BY DEF Results
  <2> HIDE DEF s
  <2> QED
    BY <1>2, <2>1, <2>2, <2>3, ReplyFits
<1>6. CASE RefuseUnknown(p) \/ ConflictOp(p) \/ ServeClose(p)
  <2>1. PICK result \in {"error", "conflict", "ok"} : Reply(p, result, 0, None)
    BY <1>6 DEF RefuseUnknown, ConflictOp, ServeClose
  <2>2. result \in Results \ {"accepted"} /\ 0 \in Nat /\ None \in Docs \cup {None}
    BY DEF Results
  <2> QED
    BY <1>2, <2>1, <2>2, ReplyFits
<1>7. CASE ServeRead(p) \/ StaleOp(p)
  <2>1. PICK result \in {"ok", "stale-base"}, doc \in {Current(session), None} :
          Reply(p, result, Len(session.ops), doc)
    BY <1>7 DEF ServeRead, StaleOp
  <2>2. result \in Results \ {"accepted"} /\ doc \in Docs \cup {None} /\ Len(session.ops) \in Nat
    BY <1>3, <1>4 DEF Results
  <2> QED
    BY <1>2, <2>1, <2>2, ReplyFits
<1>8. CASE AcceptOp(p)
  <2> DEFINE doc == Head(toWorker[p]).doc
             op == [from |-> p, kind |-> Head(toWorker[p]).kind, doc |-> doc]
             s == [Kept(p) EXCEPT !.ops = Append(@, op)]
  <2>1. toPort' = Announced(p, s, doc) /\ session' = s /\ Head(toWorker[p]).kind \in Ops
    BY <1>8 DEF AcceptOp, Serving
  <2>2. s.ops \in Seq(Op)
    BY <2>1, SessionStays DEF SessionOK
  <2>3. s.ports \subseteq session.ports
    BY <1>3, DisconnectedOK DEF Kept, SessionOK
  <2> HIDE DEF s
  <2> QED
    BY <1>2, <2>1, <2>2, <2>3, AnnouncedFits
<1> QED
  BY <1>5, <1>6, <1>7, <1>8 DEF Serve

\* A closed port takes nothing, so its dialogue is over.
LEMMA ServedDialogue ==
  ASSUME LinkInv, NEW p \in Ports, Serve(p), NEW q \in Ports
  PROVE  Dialogue(link'[q], join'[q], toWorker'[q], toPort'[q])
<1> DEFINE w == toWorker[q]  t == toPort[q]
<1>1. Dialogue(link[q], join[q], w, t) /\ link'[q] = link[q] /\ join'[q] = join[q]
  BY ServedOK DEF LinkInv
<1>2. w \in Seq(Request) /\ t \in Seq(Msg)
  BY DEF LinkInv, TypeOK
<1>3. join[q].stage = "none" => q # p /\ link[q].state = "none"
  BY <1>1, ServedOK DEF Dialogue
<1>4. CASE q = p
  <2>1. PICK m \in Msg : Fitting(p, m) /\ toPort'[q] = Delivered(p, m)
    BY <1>4, ServedOK
  <2>2. w # <<>> /\ toWorker'[q] = Tail(w)
    BY <1>4, ServedOK DEF LinkInv, TypeOK
  <2>3. \A i \in 1 .. Len(Tail(w)) : i + 1 \in 1 .. Len(w) /\ Tail(w)[i] = w[i + 1]
    BY <1>2, <2>2
  <2>4. link[q].state # "closed" => InTurn(join[q], Tail(w), Append(t, m))
    BY <1>1, <1>2, <1>4, <2>1, <2>2, AnswerInTurn DEF Dialogue, Fitting
  <2>5. Delivered(p, m) = IF link[q].state = "closed" THEN <<>> ELSE Append(t, m)
    BY <1>4 DEF Delivered
  <2>6. link[q].state # "closed" => Owed(Len(link[q].pending) - Len(Tail(w)), Append(t, m))
    <3>1. m.kind # "op"
      BY <1>2, <1>4, <2>1, <2>2, HeadOK DEF Fitting, Request, Kinds
    <3>2. Len(link[q].pending) \in Nat
      BY DEF LinkInv, TypeOK, Link
    <3>3. Len(Tail(w)) = Len(w) - 1 /\ Len(w) \in Nat
      BY <1>2, <2>2
    <3>4. (Len(link[q].pending) - Len(w)) + 1 = Len(link[q].pending) - Len(Tail(w))
      <4>1. \A a \in Nat, b \in Nat : (a - b) + 1 = a - (b - 1)
        OBVIOUS
      <4> HIDE DEF w
      <4> QED
        BY <3>2, <3>3, <4>1
    <3>5. Len(link[q].pending) - Len(w) \in Int
      BY <3>2, <3>3
    <3>6. Owed(Len(link[q].pending) - Len(w), t)
          => Owed((Len(link[q].pending) - Len(w)) + 1, Append(t, m))
      BY <1>2, <2>1, <3>1, <3>5, OwedAppend
    <3> QED
      BY <1>1, <3>4, <3>6 DEF Dialogue, Owing
  <2>7. NotClosing(w, t) => NotClosing(Tail(w), Append(t, m))
    <3>1. NotClosing(w, t) => NotClosing(Tail(w), t) /\ m.kind # "close"
      BY <1>2, <1>4, <2>1, <2>2, NotClosingTail DEF Fitting
    <3>2. Tail(w) \in Seq(Request)
      BY <1>2, <2>2
    <3> QED
      BY <1>2, <3>1, <3>2, NotClosingAppend
  <2> HIDE DEF w, t
  <2> QED
    BY <1>1, <1>3, <1>4, <2>1, <2>2, <2>3, <2>4, <2>5, <2>6, <2>7 DEF Dialogue, Owing
<1>5. CASE q # p
  <2>1. toWorker'[q] = w
    BY <1>5, ServedOK DEF LinkInv, TypeOK
  <2>2. CASE toPort'[q] = t
    BY <1>1, <2>1, <2>2
  <2>3. CASE q \in session.ports /\ \E m \in Msg : m.kind = "op" /\ toPort'[q] = Delivered(q, m)
    <3>1. PICK m \in Msg : m.kind = "op" /\ toPort'[q] = Delivered(q, m)
      BY <2>3
    <3>2. InTurn(join[q], w, t) => InTurn(join[q], w, Append(t, m))
      BY <1>2, <3>1, EventInTurn DEF JoinKinds
    <3>3. Delivered(q, m) = IF link[q].state = "closed" THEN <<>> ELSE Append(t, m)
      BY DEF Delivered
    <3>4. join[q].stage # "none"
      BY <2>3 DEF LinkInv
    <3>5. Owed(Len(link[q].pending) - Len(w), t) => Owed(Len(link[q].pending) - Len(w), Append(t, m))
      <4>1. Len(link[q].pending) - Len(w) \in Int
        BY <1>2 DEF LinkInv, TypeOK, Link
      <4> QED
        BY <1>2, <3>1, <4>1, OwedAppend
    <3>6. NotClosing(w, t) => NotClosing(w, Append(t, m))
      BY <1>2, <3>1, NotClosingAppend
    <3> HIDE DEF w, t
    <3> QED
      BY <1>1, <2>1, <3>1, <3>2, <3>3, <3>4, <3>5, <3>6 DEF Dialogue, Owing
  <2> QED
    BY <1>5, <2>2, <2>3, ServedOK
<1> QED
  BY <1>4, <1>5

LEMMA ServedPorts ==
  ASSUME LinkInv, NEW p \in Ports, Serve(p)
  PROVE  session'.ports \subseteq session.ports \cup {p}
<1>1. SessionOK(session) /\ SessionOK(Kept(p)) /\ Kept(p).ports \subseteq session.ports
  BY KeptOK, DisconnectedOK DEF LinkInv, TypeOK, SessionOK, Kept
<1>2. CASE RefuseUnknown(p) \/ ServeRead(p) \/ ConflictOp(p) \/ StaleOp(p)
  BY <1>1, <1>2 DEF RefuseUnknown, ServeRead, ConflictOp, StaleOp, Prune
<1>3. CASE ServeClose(p)
  BY <1>1, <1>3, DisconnectedOK DEF ServeClose
<1>4. CASE AcceptOp(p)
  BY <1>1, <1>4 DEF AcceptOp, SessionOK
<1>5. CASE ServeOpen(p)
  <2> DEFINE s == IF Kept(p).ports = {} THEN Fresh(session, Head(toWorker[p]).doc) ELSE Kept(p)
  <2>1. session' = [s EXCEPT !.ports = s.ports \cup {p}]
    BY <1>5 DEF ServeOpen
  <2>2. s.ports = Kept(p).ports
    BY DEF Fresh
  <2>3. session'.ports = s.ports \cup {p}
    BY <1>1, <2>1 DEF Fresh, SessionOK
  <2> HIDE DEF s
  <2> QED
    BY <1>1, <2>2, <2>3
<1> QED
  BY <1>2, <1>3, <1>4, <1>5 DEF Serve

LEMMA ServeKeepsLink ==
  ASSUME LinkInv, LifeInv', NEW p \in Ports, Serve(p)
  PROVE  LinkInv'
<1>1. SessionOK(session')
  BY SessionStays
<1>2. portSessions' = session'.ports /\ opened' \in [Ports -> Nat]
  BY DEF LifeInv
<1>3. portSeen' \in [Ports -> 0 .. Lease + 1]
  <2>1. 0 \in 0 .. Lease + 1
    BY LinkAssumption
  <2>2. portSeen \in [Ports -> 0 .. Lease + 1] /\ portSeen' = [portSeen EXCEPT ![p] = 0]
    BY ServedOK DEF LinkInv, TypeOK
  <2> QED
    BY <2>1, <2>2
<1>4. toWorker' \in [Ports -> Seq(Request)]
  <2>1. /\ toWorker \in [Ports -> Seq(Request)] /\ toWorker[p] # <<>>
        /\ toWorker' = [toWorker EXCEPT ![p] = Tail(@)]
    BY ServedOK DEF LinkInv, TypeOK
  <2>2. Tail(toWorker[p]) \in Seq(Request)
    BY <2>1
  <2> QED
    BY <2>1, <2>2
<1>5. toPort' \in [Ports -> Seq(Msg)] /\ link' = link /\ join' = join
  BY ServedOK
<1>6. TypeOK'
  BY <1>1, <1>2, <1>3, <1>4, <1>5 DEF LinkInv, TypeOK, SessionOK
<1>7. \A q \in session'.ports : join'[q].stage # "none"
  <2>1. join[p].stage # "none"
    BY ServedOK DEF LinkInv, Dialogue
  <2> QED
    BY <1>5, <2>1, ServedPorts DEF LinkInv
<1> QED
  BY <1>6, <1>7, ServedDialogue DEF LinkInv

-----------------------------------------------------------------------------
(* What a window does to its connection, its join and its two queues        *)

Moves(p, l, j, w, t) ==
  /\ UNCHANGED workerVars
  /\ link'[p] = l /\ join'[p] = j /\ toWorker'[p] = w /\ toPort'[p] = t
  /\ \A q \in Ports \ {p} :
       /\ link'[q] = link[q] /\ join'[q] = join[q]
       /\ toWorker'[q] = toWorker[q] /\ toPort'[q] = toPort[q]
  /\ link' = [q \in Ports |-> link'[q]] /\ join' = [q \in Ports |-> join'[q]]
  /\ toWorker' = [q \in Ports |-> toWorker'[q]] /\ toPort' = [q \in Ports |-> toPort'[q]]

AreFunctions ==
  /\ link = [q \in Ports |-> link[q]] /\ join = [q \in Ports |-> join[q]]
  /\ toWorker = [q \in Ports |-> toWorker[q]] /\ toPort = [q \in Ports |-> toPort[q]]

LEMMA Functions == TypeOK => AreFunctions
BY DEF TypeOK, AreFunctions

Request1(kind, base, doc) == [kind |-> kind, base |-> base, doc |-> doc]

LEMMA EventArrivesMoves ==
  ASSUME AreFunctions, NEW p \in Ports, EventArrives(p)
  PROVE  Moves(p, link[p], Emit(join[p], Message(p)), toWorker[p], Tail(toPort[p]))
BY DEF AreFunctions, EventArrives, Receiving, Moves

LEMMA HeartbeatMoves ==
  ASSUME AreFunctions, NEW p \in Ports, HeartbeatAnswered(p)
  PROVE  Moves(p, Settled(link[p]), join[p], toWorker[p], Tail(toPort[p]))
BY DEF AreFunctions, HeartbeatAnswered, Answered, Receiving, Moves

LEMMA OpenAnsweredMoves ==
  ASSUME AreFunctions, NEW p \in Ports, OpenAnswered(p)
  PROVE  Moves(p, Settled(link[p]),
               [join[p] EXCEPT !.stage = "deciding", !.rev = Message(p).rev, !.doc = Message(p).doc],
               toWorker[p], Tail(toPort[p]))
BY DEF AreFunctions, OpenAnswered, Answered, Receiving, Moves

LEMMA PostAnsweredMoves ==
  ASSUME AreFunctions, NEW p \in Ports, PostAnswered(p)
  PROVE  \E j \in {join[p], Ingest(join[p], Message(p))} :
           /\ Moves(p, Settled(link[p]), j, toWorker[p], Tail(toPort[p]))
           /\ j # join[p] => join[p].stage = "joined" /\ Message(p).result = "accepted"
<1>1. CASE Message(p).result = "accepted" /\ join[p].stage = "joined"
  <2>1. Moves(p, Settled(link[p]), Ingest(join[p], Message(p)), toWorker[p], Tail(toPort[p]))
    BY <1>1 DEF AreFunctions, PostAnswered, Answered, Receiving, Moves
  <2> QED
    BY <1>1, <2>1
<1>2. CASE ~(Message(p).result = "accepted" /\ join[p].stage = "joined")
  <2>1. Moves(p, Settled(link[p]), join[p], toWorker[p], Tail(toPort[p]))
    BY <1>2 DEF AreFunctions, PostAnswered, Answered, Receiving, Moves
  <2> QED
    BY <2>1
<1> QED
  BY <1>1, <1>2

LEMMA AcceptedMoves ==
  ASSUME AreFunctions, NEW p \in Ports, NEW kind \in {"adopt", "replace"}, Accepted(p, kind)
  PROVE  Moves(p, Settled(link[p]),
               [join[p] EXCEPT !.stage = "deciding", !.rev = Message(p).rev, !.doc = join[p].target],
               toWorker[p], Tail(toPort[p]))
BY DEF AreFunctions, Accepted, Answered, Receiving, Moves

LEMMA AdoptConflictsMoves ==
  ASSUME AreFunctions, NEW p \in Ports, AdoptConflicts(p)
  PROVE  Moves(p, Closing(Settled(link[p])), Gone(join[p], "failed"),
               Append(toWorker[p], Request1("close", 0, None)), Tail(toPort[p]))
BY DEF AreFunctions, AdoptConflicts, Receiving, Fails, Sent, Request1, Moves

LEMMA ThrowsMoves ==
  ASSUME AreFunctions, NEW p \in Ports, AdoptThrows(p) \/ ReplaceThrows(p)
  PROVE  Moves(p, Settled(link[p]), Gone(join[p], "failed"), toWorker[p], Tail(toPort[p]))
BY DEF AreFunctions, AdoptThrows, ReplaceThrows, Answered, Receiving, Fails, Moves

LEMMA ReplaceIsStaleMoves ==
  ASSUME AreFunctions, NEW p \in Ports, ReplaceIsStale(p)
  PROVE  Moves(p, Asked(Settled(link[p]), "fetch-snapshot"),
               [join[p] EXCEPT !.stage = "refetching"],
               Append(toWorker[p], Request1("fetch-snapshot", 0, None)), Tail(toPort[p]))
BY DEF AreFunctions, ReplaceIsStale, Receiving, Sent, Request1, Moves

LEMMA ReplaceAgainMoves ==
  ASSUME AreFunctions, NEW p \in Ports, ReplaceAgain(p)
  PROVE  Moves(p, Asked(Settled(link[p]), "replace"),
               [join[p] EXCEPT !.stage = "replacing", !.rev = Message(p).rev, !.doc = Message(p).doc],
               Append(toWorker[p], Request1("replace", Message(p).rev, join[p].target)),
               Tail(toPort[p]))
BY DEF AreFunctions, ReplaceAgain, Receiving, Sent, Request1, Moves

LEMMA NothingToReplaceMoves ==
  ASSUME AreFunctions, NEW p \in Ports, NothingToReplace(p)
  PROVE  Moves(p, Settled(link[p]),
               [join[p] EXCEPT !.stage = "deciding", !.rev = Message(p).rev, !.doc = Message(p).doc],
               toWorker[p], Tail(toPort[p]))
BY DEF AreFunctions, NothingToReplace, Answered, Receiving, Moves

LEMMA CloseAnsweredMoves ==
  ASSUME AreFunctions, NEW p \in Ports, CloseAnswered(p)
  PROVE  Moves(p, Disposed(link[p]), join[p], toWorker[p], <<>>)
BY DEF AreFunctions, CloseAnswered, Receiving, Moves

LEMMA TimeOutMoves ==
  ASSUME AreFunctions, NEW p \in Ports, TimeOut(p)
  PROVE  Moves(p, Disposed(link[p]), IF Waiting(p) THEN Gone(join[p], "failed") ELSE join[p],
               toWorker[p], <<>>)
BY DEF AreFunctions, TimeOut, Fails, Moves

LEMMA BeatMoves ==
  ASSUME AreFunctions, NEW p \in Ports, Beat(p)
  PROVE  Moves(p, [Asked(link[p], "heartbeat") EXCEPT !.beat = 0], join[p],
               Append(toWorker[p], Request1("heartbeat", 0, None)), toPort[p])
BY DEF AreFunctions, Beat, Sent, Request1, Moves

LEMMA BringLocalMoves ==
  ASSUME AreFunctions, NEW p \in Ports, BringLocal(p)
  PROVE  \E kind \in {"adopt", "replace"}, stage \in {"adopting", "replacing"} :
           /\ Awaited(stage) = kind /\ kind = (IF p \in Replacing THEN "replace" ELSE "adopt")
           /\ Moves(p, Asked(link[p], kind),
                    [join[p] EXCEPT !.stage = stage, !.target = join[p].local, !.changed = FALSE],
                    Append(toWorker[p], Request1(kind, join[p].rev, join[p].local)), toPort[p])
<1>1. CASE p \in Replacing
  <2>1. Moves(p, Asked(link[p], "replace"),
              [join[p] EXCEPT !.stage = "replacing", !.target = join[p].local, !.changed = FALSE],
              Append(toWorker[p], Request1("replace", join[p].rev, join[p].local)), toPort[p])
    BY <1>1 DEF AreFunctions, BringLocal, Sent, Request1, Moves
  <2> QED
    BY <1>1, <2>1 DEF Awaited
<1>2. CASE p \notin Replacing
  <2>1. Moves(p, Asked(link[p], "adopt"),
              [join[p] EXCEPT !.stage = "adopting", !.target = join[p].local, !.changed = FALSE],
              Append(toWorker[p], Request1("adopt", join[p].rev, join[p].local)), toPort[p])
    BY <1>2 DEF AreFunctions, BringLocal, Sent, Request1, Moves
  <2> QED
    BY <1>2, <2>1 DEF Awaited
<1> QED
  BY <1>1, <1>2

LEMMA NothingToBringMoves ==
  ASSUME AreFunctions, NEW p \in Ports, NothingToBring(p)
  PROVE  Moves(p, link[p], [join[p] EXCEPT !.changed = FALSE], toWorker[p], toPort[p])
BY DEF AreFunctions, NothingToBring, Moves

LEMMA OpenMoves ==
  ASSUME AreFunctions, NEW p \in Ports, NEW d \in Docs, Open(p, d)
  PROVE  Moves(p, [Asked(link[p], "open") EXCEPT !.state = "open"],
               [join[p] EXCEPT !.stage = "opening", !.local = d, !.changed = p \in Replacing],
               Append(toWorker[p], Request1("open", 0, d)), toPort[p])
BY DEF AreFunctions, Open, Sent, Request1, Moves

LEMMA LocalEditMoves ==
  ASSUME AreFunctions, NEW p \in Ports, NEW d \in Docs, LocalEdit(p, d)
  PROVE  Moves(p, link[p],
               [join[p] EXCEPT !.local = d, !.changed = TRUE, !.edits = @ + 1],
               toWorker[p], toPort[p])
BY DEF AreFunctions, LocalEdit, Moves

LEMMA PostMoves ==
  ASSUME AreFunctions, NEW p \in Ports, NEW d \in Docs, Post(p, d)
  PROVE  Moves(p, Asked(link[p], "post"), join[p],
               Append(toWorker[p], Request1("post", join[p].rev, d)), toPort[p])
BY DEF AreFunctions, Post, Sent, Request1, Moves

LEMMA CloseMoves ==
  ASSUME AreFunctions, NEW p \in Ports, Close(p)
  PROVE  \/ /\ link[p].state = "open"
            /\ Moves(p, Closing(link[p]), Gone(join[p], "left"),
                     Append(toWorker[p], Request1("close", 0, None)), toPort[p])
         \/ /\ link[p].state # "open"
            /\ Moves(p, link[p], Gone(join[p], "left"), toWorker[p], toPort[p])
BY DEF AreFunctions, Close, Sent, Request1, Moves

LEMMA FreezeMoves ==
  ASSUME AreFunctions, NEW p \in Ports, NEW window \in {"frozen", "resumed"},
         IF window = "frozen" THEN Freeze(p) ELSE Resume(p)
  PROVE  Moves(p, [link[p] EXCEPT !.window = window], join[p], toWorker[p], toPort[p])
BY DEF AreFunctions, Freeze, Resume, Moves

-----------------------------------------------------------------------------
(* Messages handed over one after the other, by induction on their number.  *)

\* The least number of a set of numbers.
LEMMA Least ==
  ASSUME NEW T, T \subseteq Nat, T # {}
  PROVE  \E m \in T : \A n \in T : m <= n
<1>1. PICK x \in T : TRUE
  OBVIOUS
<1> DEFINE U == {0 .. n : n \in {n \in T : n <= x}}
           R == StrictSubsetOrdering(0 .. x)
           F == FiniteSubsetsOf(0 .. x)
<1>2. IsWellFoundedOn(R, F)
  BY FS_StrictSubsetOrderingWellFounded
<1>3. U \subseteq F
  <2>1. ASSUME NEW n \in T, n <= x PROVE 0 .. n \in F
    <3>1. IsFiniteSet(0 .. n)
      BY FS_Interval
    <3>2. 0 .. n \subseteq 0 .. x
      BY <2>1
    <3> QED
      BY <3>1, <3>2 DEF FiniteSubsetsOf
  <2> HIDE DEF F
  <2> QED
    BY <2>1
<1>4. 0 .. x \in U
  OBVIOUS
<1> HIDE DEF R, F, U
<1>5. PICK u \in U : \A w \in U : ~(<<w, u>> \in R)
  BY <1>2, <1>3, <1>4, WFMin
<1>6. PICK m \in T : m <= x /\ u = 0 .. m
  BY DEF U
<1>7. ASSUME NEW n \in T, n < m PROVE FALSE
  <2>1. n <= x /\ 0 .. n \in U
    BY <1>6, <1>7 DEF U
  <2>2. 0 .. n \subseteq 0 .. m /\ 0 .. n # 0 .. m /\ 0 .. m \subseteq 0 .. x
    <3>1. m \in 0 .. m /\ m \notin 0 .. n
      BY <1>7
    <3> QED
      BY <3>1, <1>6, <1>7
  <2>3. <<0 .. n, u>> \in R
    BY <1>6, <2>2 DEF R, StrictSubsetOrdering
  <2> QED
    BY <1>5, <2>1, <2>3
<1> QED
  BY <1>6, <1>7

\* The function that IngestAll is a value of.
Ingests(j, ms, n, f) ==
  f = [i \in 0 .. n |-> IF i = 0 THEN j ELSE Ingest(f[i - 1], ms[i])]

LEMMA IngestsExist ==
  ASSUME NEW j, NEW ms, NEW N \in Nat
  PROVE  \E f : Ingests(j, ms, N, f)
<1> DEFINE T == {n \in Nat : ~ \E f : Ingests(j, ms, n, f)}
<1>1. CASE T = {}
  BY <1>1
<1>2. CASE T # {}
  <2>1. PICK m \in T : \A n \in T : m <= n
    <3> HIDE DEF T
    <3>1. T \subseteq Nat
      BY DEF T
    <3> QED
      BY <1>2, <3>1, Least
  <2>2. CASE m = 0
    <3>1. Ingests(j, ms, 0, [i \in 0 .. 0 |-> j])
      BY DEF Ingests
    <3> QED
      BY <2>1, <2>2, <3>1
  <2>3. CASE m > 0
    <3>1. m - 1 \in Nat /\ m - 1 \notin T
      BY <2>1, <2>3
    <3>2. PICK f : Ingests(j, ms, m - 1, f)
      BY <3>1
    <3> DEFINE x == Ingest(f[m - 1], ms[m])
               g == [i \in 0 .. m |-> IF i = m THEN x ELSE f[i]]
    <3>3. \A i \in 0 .. m - 1 : f[i] = IF i = 0 THEN j ELSE Ingest(f[i - 1], ms[i])
      BY <3>2, Zenon DEF Ingests
    <3>4. \A i \in 0 .. m : g[i] = IF i = 0 THEN j ELSE Ingest(g[i - 1], ms[i])
      BY <2>3, <3>3
    <3> HIDE DEF x
    <3>5. Ingests(j, ms, m, g)
      BY <3>4 DEF Ingests
    <3> QED
      BY <2>1, <3>5
  <2> QED
    BY <2>1, <2>2, <2>3
<1> QED
  BY <1>1, <1>2

\* Only the revision and the document change, and to ones that j or the
\* messages have; nothing changes if no message is newer than j.
Ingested(H, j, ms, i) ==
  /\ i.stage = j.stage /\ i.local = j.local /\ i.target = j.target
  /\ i.changed = j.changed /\ i.edits = j.edits /\ i.buffer = j.buffer
  /\ i \in JoinState
  /\ <<i.rev, i.doc>> \in H
  /\ (\A k \in 1 .. Len(ms) : ms[k].rev <= j.rev) => i = j

LEMMA IngestOK ==
  ASSUME NEW j \in JoinState, NEW m \in Msg
  PROVE  /\ Ingest(j, m) \in JoinState
         /\ Ingest(j, m).stage = j.stage /\ Ingest(j, m).target = j.target
         /\ Ingest(j, m).local = j.local
         /\ \/ Ingest(j, m) = j
            \/ /\ m.rev = j.rev + 1
               /\ Ingest(j, m) = [j EXCEPT !.rev = m.rev, !.doc = m.doc]
BY DEF Ingest, JoinState, Msg

LEMMA IngestAllOK ==
  ASSUME NEW j \in JoinState, NEW ms \in Seq(Msg), NEW H,
         <<j.rev, j.doc>> \in H,
         \A k \in 1 .. Len(ms) : <<ms[k].rev, ms[k].doc>> \in H
  PROVE  Ingested(H, j, ms, IngestAll(j, ms))
<1>1. PICK f : Ingests(j, ms, Len(ms), f) /\ IngestAll(j, ms) = f[Len(ms)]
  <2>1. Len(ms) \in Nat
    OBVIOUS
  <2>2. \E f : Ingests(j, ms, Len(ms), f)
    BY <2>1, IngestsExist
  <2> QED
    BY <2>2 DEF IngestAll, Ingests
<1> DEFINE N == Len(ms)
           Good(n) == Ingested(H, j, ms, f[n])
           T == {n \in 0 .. N : ~Good(n)}
<1>2. N \in Nat
  OBVIOUS
<1>3. f[0] = j /\ \A i \in 1 .. N : f[i] = Ingest(f[i - 1], ms[i])
  <2>1. \A i \in 0 .. N : f[i] = IF i = 0 THEN j ELSE Ingest(f[i - 1], ms[i])
    BY <1>1, Zenon DEF Ingests
  <2> QED
    BY <1>2, <2>1
<1>4. Good(0)
  BY <1>3 DEF Ingested
<1>5. ASSUME NEW m \in 1 .. N, Good(m - 1) PROVE Good(m)
  <2> DEFINE i == f[m - 1]
  <2>1. f[m] = Ingest(i, ms[m]) /\ ms[m] \in Msg /\ <<ms[m].rev, ms[m].doc>> \in H
    BY <1>3
  <2>2. Ingested(H, j, ms, i)
    BY <1>5
  <2> HIDE DEF i
  <2>3. i \in JoinState
    BY <2>2 DEF Ingested
  <2>4. f[m] \in JoinState
    BY <2>1, <2>3, IngestOK
  <2>5. CASE f[m] = i
    BY <2>2, <2>5
  <2>6. CASE ms[m].rev = i.rev + 1 /\ f[m] = [i EXCEPT !.rev = ms[m].rev, !.doc = ms[m].doc]
    <3>1. (\A k \in 1 .. Len(ms) : ms[k].rev <= j.rev) => FALSE
      <4>1. (\A k \in 1 .. Len(ms) : ms[k].rev <= j.rev) => ms[m].rev = j.rev + 1 /\ ms[m].rev <= j.rev
        BY <2>2, <2>6 DEF Ingested
      <4>2. j.rev \in Nat
        BY DEF JoinState
      <4> QED
        BY <4>1, <4>2
    <3>2. f[m].rev = ms[m].rev /\ f[m].doc = ms[m].doc
      BY <2>3, <2>6 DEF JoinState
    <3>3. /\ f[m].stage = i.stage /\ f[m].local = i.local /\ f[m].target = i.target
          /\ f[m].changed = i.changed /\ f[m].edits = i.edits /\ f[m].buffer = i.buffer
      BY <2>3, <2>6 DEF JoinState
    <3> QED
      BY <2>1, <2>2, <2>4, <3>1, <3>2, <3>3 DEF Ingested
  <2> QED
    BY <2>1, <2>3, <2>5, <2>6, IngestOK
<1> HIDE DEF Good
<1>6. T = {}
  <2> SUFFICES ASSUME T # {} PROVE FALSE
    OBVIOUS
  <2>1. PICK m \in T : \A n \in T : m <= n
    <3> HIDE DEF T
    <3>1. T \subseteq Nat
      BY <1>2 DEF T
    <3> QED
      BY <3>1, Least
  <2>2. m \in 1 .. N
    BY <1>2, <1>4, <2>1
  <2>3. m - 1 \in 0 .. N /\ m - 1 \notin T
    BY <1>2, <2>1, <2>2
  <2> QED
    BY <1>5, <2>1, <2>2, <2>3
<1>7. Good(N)
  BY <1>2, <1>6
<1> QED
  BY <1>1, <1>7 DEF Good

\* What joining makes of a join.
LEMMA JoinedState ==
  ASSUME NEW j \in JoinState
  PROVE  LET i == IngestAll(Over(j, "joined"), j.buffer) IN i \in JoinState /\ i.stage = "joined"
<1> DEFINE o == Over(j, "joined")  i == IngestAll(o, j.buffer)
<1>1. o \in JoinState /\ o.stage = "joined"
  <2>1. <<>> \in Seq(Msg)
    OBVIOUS
  <2> QED
    BY <2>1 DEF Over, JoinState, Stages
<1>2. j.buffer \in Seq(Msg)
  BY DEF JoinState
<1>3. \A n \in 1 .. Len(j.buffer) :
        <<j.buffer[n].rev, j.buffer[n].doc>> \in Nat \X (Docs \cup {None})
  <2>1. \A n \in 1 .. Len(j.buffer) : j.buffer[n] \in Msg
    BY <1>2
  <2> QED
    BY <2>1 DEF Msg
<1>4. <<o.rev, o.doc>> \in Nat \X (Docs \cup {None})
  BY <1>1 DEF JoinState
<1> HIDE DEF o
<1>5. Ingested(Nat \X (Docs \cup {None}), o, j.buffer, i)
  BY <1>1, <1>2, <1>3, <1>4, IngestAllOK
<1> QED
  BY <1>1, <1>5 DEF Ingested, o

LEMMA JoinMoves ==
  ASSUME AreFunctions, NEW p \in Ports, Join(p)
  PROVE  Moves(p, link[p], IngestAll(Over(join[p], "joined"), join[p].buffer), toWorker[p], toPort[p])
BY DEF AreFunctions, Join, Moves

-----------------------------------------------------------------------------
(* Windows keep the types and the dialogue                                  *)

LEMMA MovesLink ==
  ASSUME LinkInv, NEW p \in Ports, NEW l \in Link, NEW j \in JoinState,
         NEW w \in Seq(Request), NEW t \in Seq(Msg), Moves(p, l, j, w, t),
         Dialogue(l, j, w, t), join[p].stage # "none" => j.stage # "none"
  PROVE  LinkInv'
<1>1. UNCHANGED workerVars
  BY DEF Moves
<1>2. /\ link' \in [Ports -> Link] /\ join' \in [Ports -> JoinState]
      /\ toWorker' \in [Ports -> Seq(Request)] /\ toPort' \in [Ports -> Seq(Msg)]
  <2>1. \A q \in Ports : /\ link'[q] \in Link /\ join'[q] \in JoinState
                         /\ toWorker'[q] \in Seq(Request) /\ toPort'[q] \in Seq(Msg)
    BY DEF Moves, LinkInv, TypeOK
  <2> QED
    BY <2>1 DEF Moves
<1>3. TypeOK'
  BY <1>1, <1>2 DEF LinkInv, TypeOK, workerVars
<1>4. LifeInv'
  BY <1>1 DEF LinkInv, LifeInv, workerVars
<1>5. \A q \in Ports : Dialogue(link'[q], join'[q], toWorker'[q], toPort'[q])
  BY DEF LinkInv, Moves
<1>6. \A q \in session'.ports : join'[q].stage # "none"
  <2>1. session' = session /\ session.ports \subseteq Ports
    BY <1>1 DEF workerVars, LinkInv, TypeOK
  <2> QED
    BY <2>1 DEF LinkInv, Moves
<1> QED
  BY <1>3, <1>4, <1>5, <1>6 DEF LinkInv

LEMMA PortTypes ==
  ASSUME LinkInv, NEW p \in Ports
  PROVE  /\ link[p] \in Link /\ join[p] \in JoinState
         /\ toWorker[p] \in Seq(Request) /\ toPort[p] \in Seq(Msg)
         /\ Dialogue(link[p], join[p], toWorker[p], toPort[p])
         /\ AreFunctions
BY Functions DEF LinkInv, TypeOK

LEMMA RequestOK ==
  ASSUME NEW kind \in Kinds, NEW base \in Nat, NEW doc \in Docs \cup {None}
  PROVE  /\ Request1(kind, base, doc) \in Request
         /\ \A w \in Seq(Request) : Append(w, Request1(kind, base, doc)) \in Seq(Request)
BY DEF Request1, Request

\* What connections become.
LEMMA LinkShapes ==
  ASSUME NEW l \in Link
  PROVE  /\ \A kind \in Kinds : Asked(l, kind) \in Link /\ Asked(l, kind).state = l.state
         /\ l.pending # <<>> => Settled(l) \in Link
         /\ Settled(l).state = l.state
         /\ Disposed(l) \in Link /\ Disposed(l).state = "closed"
         /\ Closing(l) \in Link /\ Closing(l).state = "closing"
<1>1. /\ l.pending \in Seq([kind : Kinds, age : 0 .. Timeout])
      /\ 0 \in 0 .. Timeout /\ 0 \in 0 .. Heartbeat
  BY LinkAssumption DEF Link
<1>2. \A kind \in Kinds :
        Append(l.pending, [kind |-> kind, age |-> 0]) \in Seq([kind : Kinds, age : 0 .. Timeout])
  BY <1>1
<1>3. l.pending # <<>> => Tail(l.pending) \in Seq([kind : Kinds, age : 0 .. Timeout])
  BY <1>1
<1>4. <<>> \in Seq([kind : Kinds, age : 0 .. Timeout])
  OBVIOUS
<1>5. \A kind \in Kinds : Asked(l, kind) \in Link /\ Asked(l, kind).state = l.state
  BY <1>2 DEF Asked, Link
<1>6. l.pending # <<>> => Settled(l) \in Link
  BY <1>3 DEF Settled, Link
<1>7. Settled(l).state = l.state
  BY DEF Settled, Link
<1>8. Disposed(l) \in Link /\ Disposed(l).state = "closed"
  BY <1>1, <1>4 DEF Disposed, Link
<1>9. Closing(l) \in Link /\ Closing(l).state = "closing"
  <2>1. Asked(l, "close") \in Link
    BY <1>5 DEF Kinds
  <2> QED
    BY <2>1 DEF Closing, Link
<1> QED
  BY <1>5, <1>6, <1>7, <1>8, <1>9

\* What joins become.
LEMMA JoinShapes ==
  ASSUME NEW j \in JoinState
  PROVE  /\ \A stage \in Stages : /\ Over(j, stage) \in JoinState /\ Gone(j, stage) \in JoinState
                                  /\ Gone(j, stage).stage = stage
                                  /\ Over(j, stage).stage = stage
                                  /\ Over(j, stage).buffer = <<>>
                                  /\ Over(j, stage).rev = j.rev /\ Over(j, stage).doc = j.doc
         /\ \A m \in Msg : /\ Emit(j, m) \in JoinState
                           /\ Emit(j, m).stage = j.stage /\ Emit(j, m).target = j.target
                           /\ Emit(j, m).local = j.local
<1>1. ASSUME NEW stage \in Stages
      PROVE  /\ Over(j, stage) \in JoinState /\ Over(j, stage).stage = stage
             /\ Over(j, stage).buffer = <<>>
             /\ Over(j, stage).rev = j.rev /\ Over(j, stage).doc = j.doc
  <2>1. <<>> \in Seq(Msg)
    OBVIOUS
  <2> QED
    BY <2>1 DEF Over, JoinState
<1>2. ASSUME NEW stage \in Stages
      PROVE  Gone(j, stage) \in JoinState /\ Gone(j, stage).stage = stage
  BY <1>1 DEF Gone, JoinState
<1>3. ASSUME NEW m \in Msg
      PROVE  /\ Emit(j, m) \in JoinState
             /\ Emit(j, m).stage = j.stage /\ Emit(j, m).target = j.target
             /\ Emit(j, m).local = j.local
  <2>1. CASE j.stage = "joined"
    <3>1. Emit(j, m) = Ingest(j, m)
      BY <2>1 DEF Emit
    <3> QED
      BY <3>1, IngestOK
  <2>2. CASE j.stage \in {"left", "failed"}
    BY <2>2 DEF Emit
  <2>3. CASE j.stage \notin {"joined", "left", "failed"}
    <3>1. Emit(j, m) = [j EXCEPT !.buffer = Append(j.buffer, m)]
      BY <2>3 DEF Emit
    <3>2. Append(j.buffer, m) \in Seq(Msg)
      BY DEF JoinState
    <3> QED
      BY <3>1, <3>2 DEF JoinState
  <2> QED
    BY <2>1, <2>2, <2>3
<1> QED
  BY <1>1, <1>2, <1>3

\* An answer is handled: it was outstanding, and one of the join is the only one.
LEMMA AnswerHandled ==
  ASSUME NEW l \in Link, NEW j \in JoinState, NEW w \in Seq(Request), NEW t \in Seq(Msg),
         Dialogue(l, j, w, t), l.state # "closed", t # <<>>, Head(t).kind # "op"
  PROVE  /\ Settled(l) \in Link /\ Settled(l).state = l.state
         /\ Tail(t) \in Seq(Msg) /\ Head(t) \in Msg
         /\ InTurn(j, w, Tail(t)) /\ Owing(Settled(l), w, Tail(t))
         /\ Head(t).kind \in JoinKinds =>
              /\ Quiet(w, Tail(t)) /\ Head(t).kind = Awaited(j.stage)
              /\ Head(t).result = "accepted" => Head(t).doc = j.target
<1>1. InTurn(j, w, t) /\ Owed(Len(l.pending) - Len(w), t)
  BY DEF Dialogue, Owing
<1>2. l.pending \in Seq([kind : Kinds, age : 0 .. Timeout])
  BY DEF Link
<1>3. Len(l.pending) \in Nat /\ Len(w) \in Nat /\ Len(l.pending) - Len(w) \in Int
  BY <1>2
<1>4. /\ Len(l.pending) - Len(w) >= 1
      /\ Owed((Len(l.pending) - Len(w)) - 1, Tail(t))
  BY <1>1, <1>3, OwedTail
<1>5. l.pending # <<>>
  BY <1>3, <1>4
<1>6. Settled(l).pending = Tail(l.pending) /\ Len(Tail(l.pending)) = Len(l.pending) - 1
  BY <1>2, <1>5 DEF Settled, Link
<1>7. (Len(l.pending) - Len(w)) - 1 = Len(Settled(l).pending) - Len(w)
  <2>1. \A a \in Nat, b \in Nat : (a - b) - 1 = (a - 1) - b
    OBVIOUS
  <2> QED
    BY <1>3, <1>6, <2>1
<1>8. Owing(Settled(l), w, Tail(t))
  BY <1>4, <1>7 DEF Owing
<1>9. Settled(l) \in Link /\ Settled(l).state = l.state
  BY <1>5, LinkShapes
<1>10. Tail(t) \in Seq(Msg) /\ Head(t) \in Msg /\ 1 \in 1 .. Len(t) /\ Head(t) = t[1]
  OBVIOUS
<1>11. InTurn(j, w, Tail(t))
  BY <1>1, TailInTurn
<1>12. Head(t).kind \in JoinKinds => Quiet(w, Tail(t))
  BY <1>1, TurnTaken
<1>13. Head(t).kind \in JoinKinds =>
         /\ Head(t).kind = Awaited(j.stage)
         /\ Head(t).result = "accepted" => Head(t).doc = j.target
  BY <1>1, <1>10 DEF InTurn
<1> QED
  BY <1>8, <1>9, <1>10, <1>11, <1>12, <1>13

LEMMA AskedOwing ==
  ASSUME NEW l \in Link, NEW w \in Seq(Request), NEW t \in Seq(Msg), Owing(l, w, t),
         NEW kind \in Kinds, NEW m \in Request, NEW k, k.pending = Asked(l, kind).pending
  PROVE  Owing(k, Append(w, m), t)
<1>1. l.pending \in Seq([kind : Kinds, age : 0 .. Timeout])
  BY DEF Link
<1>2. k.pending = Append(l.pending, [kind |-> kind, age |-> 0])
  BY DEF Asked, Link
<1>3. Len(k.pending) = Len(l.pending) + 1 /\ Len(l.pending) \in Nat
  BY <1>1, <1>2
<1>4. Len(Append(w, m)) = Len(w) + 1 /\ Len(w) \in Nat
  OBVIOUS
<1>5. Len(k.pending) - Len(Append(w, m)) = Len(l.pending) - Len(w)
  BY <1>3, <1>4
<1> QED
  BY <1>5 DEF Owing

\* The requests with one more.
LEMMA AskedDocs ==
  ASSUME NEW w \in Seq(Request), NEW m,
         \A i \in 1 .. Len(w) : w[i].kind \in Ops \cup {"open"} => w[i].doc \in Docs,
         m.kind \in Ops \cup {"open"} => m.doc \in Docs
  PROVE  \A i \in 1 .. Len(Append(w, m)) :
           Append(w, m)[i].kind \in Ops \cup {"open"} => Append(w, m)[i].doc \in Docs
<1>1. Len(Append(w, m)) = Len(w) + 1 /\ Len(w) \in Nat
  OBVIOUS
<1>2. \A i \in 1 .. Len(w) + 1 :
        \/ i \in 1 .. Len(w) /\ Append(w, m)[i] = w[i]
        \/ i = Len(w) + 1 /\ Append(w, m)[i] = m
  OBVIOUS
<1> QED
  BY <1>1, <1>2

\* Freezing and beating change nothing that the dialogue is about.
LEMMA SameDialogue ==
  ASSUME NEW l, NEW k, NEW j, NEW w, NEW t, Dialogue(l, j, w, t),
         k.state = l.state, k.pending = l.pending
  PROVE  Dialogue(k, j, w, t)
BY DEF Dialogue, Owing

Joins == {"opening", "deciding", "adopting", "replacing", "refetching"}

\* A window asks for something while its join, now i, waits for nothing new.
LEMMA OtherAsked ==
  ASSUME NEW l \in Link, NEW j \in JoinState, NEW w \in Seq(Request), NEW t \in Seq(Msg),
         Dialogue(l, j, w, t), NEW m \in Request, m.kind \notin JoinKinds,
         m.kind \in Ops => m.doc \in Docs,
         NEW k, k.pending = Asked(l, m.kind).pending, l.state = "open",
         NEW i,
         \/ i = j /\ k.state = "open" /\ m.kind # "close"
         \/ Awaited(j.stage) = "none" /\ i.stage = "left" /\ k.state = "closing"
  PROVE  Dialogue(k, i, Append(w, m), t)
<1>1. j.stage # "none" /\ InTurn(j, w, t) /\ Owing(l, w, t)
  BY DEF Dialogue
<1>2. InTurn(i, w, t)
  BY <1>1, IdleIsQuiet, QuietInTurn
<1>3. InTurn(i, Append(w, m), t)
  BY <1>2, AskInTurn DEF Expected
<1>4. m.kind \in Kinds
  BY DEF Request
<1>5. Owing(k, Append(w, m), t)
  BY <1>1, <1>4, AskedOwing
<1>6. \A n \in 1 .. Len(Append(w, m)) :
        Append(w, m)[n].kind \in Ops \cup {"open"} => Append(w, m)[n].doc \in Docs
  <2>1. m.kind \in Ops \cup {"open"} => m.doc \in Docs
    BY DEF JoinKinds
  <2> QED
    BY <2>1, AskedDocs DEF Dialogue
<1>7. CASE i = j /\ k.state = "open" /\ m.kind # "close"
  <2>1. NotClosing(Append(w, m), t)
    BY <1>7, NotClosingAppend DEF Dialogue
  <2> QED
    BY <1>1, <1>3, <1>5, <1>6, <1>7, <2>1 DEF Dialogue
<1>8. CASE i.stage = "left" /\ k.state = "closing"
  BY <1>3, <1>5, <1>6, <1>8 DEF Dialogue
<1> QED
  BY <1>7, <1>8

-----------------------------------------------------------------------------
(* Every action of a window keeps LinkInv                                   *)

\* The stage a message of the join meets.
LEMMA AwaitedStage ==
  ASSUME NEW j \in JoinState, NEW kind \in JoinKinds, kind = Awaited(j.stage)
  PROVE  /\ kind = "open" => j.stage = "opening"
         /\ kind = "adopt" => j.stage = "adopting"
         /\ kind = "replace" => j.stage = "replacing"
         /\ kind = "fetch-snapshot" => j.stage = "refetching"
BY DEF Awaited, JoinKinds

LEMMA EventKeepsLink ==
  ASSUME LinkInv, NEW p \in Ports, EventArrives(p)
  PROVE  LinkInv'
<1> DEFINE l == link[p]  j == join[p]  w == toWorker[p]  t == toPort[p]
<1>1. /\ l \in Link /\ j \in JoinState /\ w \in Seq(Request) /\ t \in Seq(Msg)
      /\ Dialogue(l, j, w, t) /\ AreFunctions
  BY PortTypes
<1>2. t # <<>> /\ l.state # "closed" /\ Head(t).kind = "op"
  BY DEF EventArrives, Receiving, Message, Listens
<1>3. Moves(p, l, Emit(j, Head(t)), w, Tail(t))
  BY <1>1, EventArrivesMoves DEF Message
<1> HIDE DEF l, j, w, t
<1>4. Tail(t) \in Seq(Msg) /\ Head(t) \in Msg
  BY <1>1, <1>2
<1>5. /\ Emit(j, Head(t)) \in JoinState /\ Emit(j, Head(t)).stage = j.stage
      /\ Emit(j, Head(t)).target = j.target /\ Emit(j, Head(t)).local = j.local
  BY <1>1, <1>4, JoinShapes
<1>6. InTurn(Emit(j, Head(t)), w, Tail(t))
  <2>1. InTurn(j, w, Tail(t))
    BY <1>1, <1>2, TailInTurn DEF Dialogue
  <2> QED
    BY <1>5, <2>1, SameTurn
<1>7. Owing(l, w, Tail(t))
  <2>1. Len(l.pending) - Len(w) \in Int /\ Owed(Len(l.pending) - Len(w), t)
    BY <1>1, <1>2 DEF Dialogue, Owing, Link
  <2>2. Owed(Len(l.pending) - Len(w), Tail(t))
    BY <1>1, <1>2, <2>1, OwedTail
  <2> QED
    BY <2>2 DEF Owing
<1>8. NotClosing(w, t) => NotClosing(w, Tail(t))
  BY <1>1, <1>2, NotClosingTail
<1>9. Dialogue(l, Emit(j, Head(t)), w, Tail(t))
  BY <1>1, <1>2, <1>5, <1>6, <1>7, <1>8 DEF Dialogue
<1>10. j.stage # "none" => Emit(j, Head(t)).stage # "none"
  BY <1>5
<1> QED
  BY <1>1, <1>3, <1>4, <1>5, <1>9, <1>10, MovesLink DEF j

\* An answer after which the window asks for nothing: i is its join then.
LEMMA SettledLink ==
  ASSUME LinkInv, NEW p \in Ports, NEW i \in JoinState,
         toPort[p] # <<>>, link[p].state # "closed", Head(toPort[p]).kind # "op",
         Moves(p, Settled(link[p]), i, toWorker[p], Tail(toPort[p])),
         \/ /\ i.stage = join[p].stage /\ i.target = join[p].target /\ i.local = join[p].local
         \/ /\ Head(toPort[p]).kind \in JoinKinds
            /\ i.stage = "failed" \/ (i.stage = "deciding" /\ i.local = join[p].local)
  PROVE  LinkInv'
<1> DEFINE l == link[p]  j == join[p]  w == toWorker[p]  t == toPort[p]  k == Settled(l)
<1>1. /\ l \in Link /\ j \in JoinState /\ w \in Seq(Request) /\ t \in Seq(Msg)
      /\ Dialogue(l, j, w, t)
  BY PortTypes
<1> HIDE DEF l, j, w, t, k
<1>2. t # <<>> /\ l.state # "closed" /\ Head(t).kind # "op"
  BY DEF l, t
<1>3. /\ k \in Link /\ k.state = l.state /\ Tail(t) \in Seq(Msg)
      /\ InTurn(j, w, Tail(t)) /\ Owing(k, w, Tail(t))
      /\ Head(t).kind \in JoinKinds => Quiet(w, Tail(t)) /\ Head(t).kind = Awaited(j.stage)
  BY <1>1, <1>2, AnswerHandled DEF k
<1>4. NotClosing(w, t) => NotClosing(w, Tail(t))
  BY <1>1, <1>2, NotClosingTail
<1>5. j.stage # "none"
  BY <1>1, <1>2 DEF Dialogue
<1>6. CASE i.stage = j.stage /\ i.target = j.target /\ i.local = j.local
  <2>1. InTurn(i, w, Tail(t))
    BY <1>3, <1>6, SameTurn
  <2>2. Dialogue(k, i, w, Tail(t))
    BY <1>1, <1>2, <1>3, <1>4, <1>5, <1>6, <2>1 DEF Dialogue
  <2> QED
    BY <1>1, <1>3, <1>5, <1>6, <2>2, MovesLink DEF l, j, w, t, k
<1>7. CASE /\ Head(t).kind \in JoinKinds
           /\ i.stage = "failed" \/ (i.stage = "deciding" /\ i.local = j.local)
  <2>1. InTurn(i, w, Tail(t))
    BY <1>3, <1>7, QuietInTurn
  <2>2. j.stage \in Joins
    BY <1>1, <1>3, <1>7, AwaitedStage DEF JoinKinds, Joins
  <2>3. l.state = "open" /\ j.local \in Docs
    BY <1>1, <2>2 DEF Dialogue, Joins
  <2>4. Dialogue(k, i, w, Tail(t))
    BY <1>1, <1>2, <1>3, <1>4, <1>5, <1>7, <2>1, <2>3 DEF Dialogue
  <2>5. i.stage # "none"
    BY <1>7
  <2> QED
    BY <1>1, <1>3, <2>4, <2>5, MovesLink DEF l, j, w, t, k
<1> QED
  BY <1>6, <1>7 DEF j, t

LEMMA SettlingKeepsLink ==
  ASSUME LinkInv, NEW p \in Ports,
         \/ HeartbeatAnswered(p) \/ PostAnswered(p) \/ OpenAnswered(p)
         \/ \E kind \in {"adopt", "replace"} : Accepted(p, kind)
         \/ NothingToReplace(p) \/ AdoptThrows(p) \/ ReplaceThrows(p)
  PROVE  LinkInv'
<1>1. /\ link[p] \in Link /\ join[p] \in JoinState /\ toPort[p] \in Seq(Msg) /\ AreFunctions
  BY PortTypes
<1>2. PICK kind \in {"heartbeat", "post", "open", "adopt", "replace", "fetch-snapshot"} :
        Receiving(p, kind)
  BY DEF HeartbeatAnswered, PostAnswered, OpenAnswered, Accepted, NothingToReplace, AdoptThrows,
         ReplaceThrows, Answered
<1>3. toPort[p] # <<>> /\ link[p].state # "closed" /\ Head(toPort[p]).kind = kind /\ kind # "op"
  BY <1>2 DEF Receiving, Message, Listens
<1>4. Message(p) \in Msg /\ Head(toPort[p]) = Message(p)
  BY <1>1, <1>3 DEF Message
<1>5. CASE HeartbeatAnswered(p)
  BY <1>1, <1>3, <1>5, HeartbeatMoves, SettledLink
<1>6. CASE PostAnswered(p)
  <2>1. PICK j \in {join[p], Ingest(join[p], Message(p))} :
          Moves(p, Settled(link[p]), j, toWorker[p], Tail(toPort[p]))
    BY <1>1, <1>6, PostAnsweredMoves
  <2>2. /\ j \in JoinState /\ j.stage = join[p].stage /\ j.target = join[p].target
        /\ j.local = join[p].local
    <3>1. Ingest(join[p], Message(p)) \in JoinState
      BY <1>1, <1>4, IngestOK
    <3>2. /\ Ingest(join[p], Message(p)).stage = join[p].stage
          /\ Ingest(join[p], Message(p)).target = join[p].target
          /\ Ingest(join[p], Message(p)).local = join[p].local
      BY <1>1, <1>4, IngestOK
    <3> QED
      BY <1>1, <3>1, <3>2
  <2> QED
    BY <1>3, <2>1, <2>2, SettledLink
<1>7. CASE OpenAnswered(p) \/ NothingToReplace(p)
  <2> DEFINE i == [join[p] EXCEPT !.stage = "deciding", !.rev = Message(p).rev, !.doc = Message(p).doc]
  <2>1. i \in JoinState /\ i.stage = "deciding" /\ i.local = join[p].local
    BY <1>1, <1>4 DEF JoinState, Msg, Stages
  <2>2. Moves(p, Settled(link[p]), i, toWorker[p], Tail(toPort[p]))
    BY <1>1, <1>7, OpenAnsweredMoves, NothingToReplaceMoves
  <2>3. Head(toPort[p]).kind \in JoinKinds
    BY <1>7 DEF OpenAnswered, NothingToReplace, Answered, Receiving, Message, JoinKinds
  <2> HIDE DEF i
  <2> QED
    BY <1>3, <2>1, <2>2, <2>3, SettledLink
<1>8. CASE \E k \in {"adopt", "replace"} : Accepted(p, k)
  <2> DEFINE i == [join[p] EXCEPT !.stage = "deciding", !.rev = Message(p).rev, !.doc = join[p].target]
  <2>1. i \in JoinState /\ i.stage = "deciding" /\ i.local = join[p].local
    BY <1>1, <1>4 DEF JoinState, Msg, Stages
  <2>2. Moves(p, Settled(link[p]), i, toWorker[p], Tail(toPort[p]))
    BY <1>1, <1>8, AcceptedMoves
  <2>3. Head(toPort[p]).kind \in JoinKinds
    BY <1>8 DEF Accepted, Answered, Receiving, Message, JoinKinds
  <2> HIDE DEF i
  <2> QED
    BY <1>3, <2>1, <2>2, <2>3, SettledLink
<1>9. CASE AdoptThrows(p) \/ ReplaceThrows(p)
  <2> DEFINE i == Gone(join[p], "failed")
  <2>1. i \in JoinState /\ i.stage = "failed"
    BY <1>1, JoinShapes DEF Stages
  <2>2. Head(toPort[p]).kind \in JoinKinds
    BY <1>9 DEF AdoptThrows, ReplaceThrows, Answered, Receiving, Message, JoinKinds
  <2>3. Moves(p, Settled(link[p]), i, toWorker[p], Tail(toPort[p]))
    BY <1>1, <1>9, ThrowsMoves
  <2> HIDE DEF i
  <2> QED
    BY <1>3, <2>1, <2>2, <2>3, SettledLink
<1> QED
  BY <1>5, <1>6, <1>7, <1>8, <1>9

\* An answer of the join after which the window asks for m.
LEMMA RepliedLink ==
  ASSUME LinkInv, NEW p \in Ports, NEW i \in JoinState, NEW k \in Link, NEW m \in Request,
         toPort[p] # <<>>, link[p].state # "closed", Head(toPort[p]).kind \in JoinKinds,
         k.pending = Asked(Settled(link[p]), m.kind).pending,
         Moves(p, k, i, Append(toWorker[p], m), Tail(toPort[p])),
         Expected(m, i), m.kind \in Ops => m.doc \in Docs, m.kind # "open",
         \/ i.stage = "failed" /\ k.state = "closing"
         \/ /\ i.stage \in {"replacing", "refetching"} /\ k.state = "open" /\ m.kind # "close"
            /\ i.local = join[p].local /\ i.target = join[p].target
            /\ join[p].stage \in {"replacing", "refetching"}
  PROVE  LinkInv'
<1> DEFINE l == link[p]  j == join[p]  w == toWorker[p]  t == toPort[p]
<1>1. /\ l \in Link /\ j \in JoinState /\ w \in Seq(Request) /\ t \in Seq(Msg)
      /\ Dialogue(l, j, w, t)
  BY PortTypes
<1> HIDE DEF l, j, w, t
<1>2. t # <<>> /\ l.state # "closed" /\ Head(t).kind # "op" /\ Head(t).kind \in JoinKinds
  BY DEF l, t, JoinKinds
<1>3. /\ Settled(l) \in Link /\ Tail(t) \in Seq(Msg) /\ Owing(Settled(l), w, Tail(t))
      /\ Quiet(w, Tail(t)) /\ Head(t).kind = Awaited(j.stage)
  BY <1>1, <1>2, AnswerHandled
<1>4. m.kind \in Kinds
  BY DEF Request
<1>5. Owing(k, Append(w, m), Tail(t))
  BY <1>1, <1>3, <1>4, AskedOwing DEF l
<1>6. InTurn(i, Append(w, m), Tail(t))
  BY <1>1, <1>3, QuietInTurn, AskInTurn
<1>7. j.stage \in Joins
  BY <1>1, <1>2, <1>3, AwaitedStage DEF JoinKinds, Joins
<1>8. l.state = "open" /\ j.local \in Docs /\ NotClosing(w, t)
  BY <1>1, <1>7 DEF Dialogue, Joins
<1>9. \A n \in 1 .. Len(Append(w, m)) :
        Append(w, m)[n].kind \in Ops \cup {"open"} => Append(w, m)[n].doc \in Docs
  BY <1>1, AskedDocs DEF Dialogue
<1>10. Append(w, m) \in Seq(Request)
  BY <1>1
<1>11. CASE i.stage = "failed" /\ k.state = "closing"
  <2>1. Dialogue(k, i, Append(w, m), Tail(t))
    BY <1>5, <1>6, <1>9, <1>11 DEF Dialogue
  <2> QED
    BY <1>3, <1>10, <1>11, <2>1, MovesLink DEF l, j, w, t
<1>12. CASE /\ i.stage \in {"replacing", "refetching"} /\ k.state = "open" /\ m.kind # "close"
            /\ i.local = j.local /\ i.target = j.target
            /\ j.stage \in {"replacing", "refetching"}
  <2>1. NotClosing(Append(w, m), Tail(t))
    <3>1. NotClosing(w, Tail(t))
      BY <1>1, <1>2, <1>8, NotClosingTail
    <3> QED
      BY <1>1, <1>3, <1>12, <3>1, NotClosingAppend
  <2>2. j.target \in Docs
    BY <1>1, <1>12 DEF Dialogue
  <2>3. Dialogue(k, i, Append(w, m), Tail(t))
    BY <1>5, <1>6, <1>8, <1>9, <1>12, <2>1, <2>2 DEF Dialogue
  <2> QED
    BY <1>3, <1>10, <1>12, <2>3, MovesLink DEF l, j, w, t
<1> QED
  BY <1>11, <1>12 DEF j

LEMMA ReplyingKeepsLink ==
  ASSUME LinkInv, NEW p \in Ports, AdoptConflicts(p) \/ ReplaceIsStale(p) \/ ReplaceAgain(p)
  PROVE  LinkInv'
<1> DEFINE l == link[p]  j == join[p]  w == toWorker[p]  t == toPort[p]
<1>1. /\ l \in Link /\ j \in JoinState /\ w \in Seq(Request) /\ t \in Seq(Msg)
      /\ Dialogue(l, j, w, t) /\ AreFunctions
  BY PortTypes
<1>2. PICK kind \in {"adopt", "replace", "fetch-snapshot"} : Receiving(p, kind)
  BY DEF AdoptConflicts, ReplaceIsStale, ReplaceAgain
<1>3. /\ t # <<>> /\ l.state # "closed" /\ Head(t).kind = kind
      /\ kind \in JoinKinds /\ kind # "op" /\ Message(p) = Head(t)
  BY <1>2 DEF Receiving, Message, Listens, JoinKinds
<1>4. /\ Settled(l) \in Link /\ Settled(l).state = l.state /\ kind = Awaited(j.stage)
      /\ Message(p) \in Msg
  BY <1>1, <1>3, AnswerHandled
<1>5. j.stage \in Joins
  BY <1>1, <1>3, <1>4, AwaitedStage DEF Joins, JoinKinds
<1>6. l.state = "open"
  BY <1>1, <1>5 DEF Dialogue, Joins
<1>7. CASE AdoptConflicts(p)
  <2> DEFINE i == Gone(j, "failed")  k == Closing(Settled(l))  m == Request1("close", 0, None)
  <2>1. i \in JoinState /\ i.stage = "failed"
    BY <1>1, JoinShapes DEF Stages
  <2>2. k \in Link /\ k.state = "closing"
    BY <1>4, LinkShapes
  <2>3. k.pending = Asked(Settled(l), "close").pending
    BY <1>4, LinkShapes DEF Closing, Kinds, Link
  <2>4. m \in Request /\ m.kind = "close"
    BY RequestOK DEF Kinds, Request1
  <2>5. Expected(m, i)
    BY <2>4 DEF Expected, JoinKinds
  <2>6. Moves(p, k, i, Append(w, m), Tail(t))
    BY <1>1, <1>7, AdoptConflictsMoves
  <2> HIDE DEF i, k, m
  <2> QED
    BY <1>3, <2>1, <2>2, <2>3, <2>4, <2>5, <2>6, RepliedLink DEF Ops
<1>8. CASE ReplaceIsStale(p)
  <2> DEFINE i == [j EXCEPT !.stage = "refetching"]
             k == Asked(Settled(l), "fetch-snapshot")  m == Request1("fetch-snapshot", 0, None)
  <2>1. i \in JoinState /\ i.stage = "refetching" /\ i.local = j.local /\ i.target = j.target
    BY <1>1 DEF JoinState, Stages
  <2>2. k \in Link /\ k.state = "open"
    BY <1>4, <1>6, LinkShapes DEF Kinds
  <2>3. m \in Request /\ m.kind = "fetch-snapshot"
    BY RequestOK DEF Kinds, Request1
  <2>4. Expected(m, i)
    BY <2>1, <2>3 DEF Expected, Awaited
  <2>5. Moves(p, k, i, Append(w, m), Tail(t))
    BY <1>1, <1>8, ReplaceIsStaleMoves
  <2>6. j.stage = "replacing"
    BY <1>1, <1>3, <1>4, <1>8, AwaitedStage DEF ReplaceIsStale, Receiving, Message
  <2>7. k.pending = Asked(Settled(l), m.kind).pending
    BY <2>3
  <2> HIDE DEF i, k, m
  <2> QED
    BY <1>3, <2>1, <2>2, <2>3, <2>4, <2>5, <2>6, <2>7, RepliedLink DEF Ops
<1>9. CASE ReplaceAgain(p)
  <2> DEFINE i == [j EXCEPT !.stage = "replacing", !.rev = Message(p).rev, !.doc = Message(p).doc]
             k == Asked(Settled(l), "replace")
             m == Request1("replace", Message(p).rev, j.target)
  <2>1. i \in JoinState /\ i.stage = "replacing" /\ i.local = j.local /\ i.target = j.target
    BY <1>1, <1>4 DEF JoinState, Stages, Msg
  <2>2. k \in Link /\ k.state = "open"
    BY <1>4, <1>6, LinkShapes DEF Kinds
  <2>3. j.stage = "refetching"
    BY <1>1, <1>3, <1>4, <1>9, AwaitedStage DEF ReplaceAgain, Receiving, Message
  <2>4. j.target \in Docs
    BY <1>1, <2>3 DEF Dialogue
  <2>5. m \in Request /\ m.kind = "replace" /\ m.doc = j.target
    BY <1>4, <2>4, RequestOK DEF Kinds, Request1, Msg
  <2>6. Expected(m, i)
    BY <2>1, <2>5 DEF Expected, Awaited
  <2>7. Moves(p, k, i, Append(w, m), Tail(t))
    BY <1>1, <1>9, ReplaceAgainMoves
  <2>8. k.pending = Asked(Settled(l), m.kind).pending
    BY <2>5
  <2> HIDE DEF i, k, m
  <2> QED
    BY <1>3, <2>1, <2>2, <2>3, <2>4, <2>5, <2>6, <2>7, <2>8, RepliedLink DEF Ops
<1> QED
  BY <1>7, <1>8, <1>9

LEMMA EndingKeepsLink ==
  ASSUME LinkInv, NEW p \in Ports, CloseAnswered(p) \/ TimeOut(p)
  PROVE  LinkInv'
<1> DEFINE l == link[p]  j == join[p]  w == toWorker[p]  t == toPort[p]  k == Disposed(l)
<1>1. /\ l \in Link /\ j \in JoinState /\ w \in Seq(Request) /\ t \in Seq(Msg)
      /\ Dialogue(l, j, w, t) /\ AreFunctions
  BY PortTypes
<1>2. k \in Link /\ k.state = "closed"
  BY <1>1, LinkShapes
<1>3. l.state \in {"open", "closing"}
  BY DEF CloseAnswered, TimeOut, Receiving, Listens
<1>4. <<>> \in Seq(Msg)
  OBVIOUS
<1>5. j.stage # "none"
  BY <1>1, <1>3 DEF Dialogue
<1>6. PICK i \in {j, Gone(j, "failed")} :
        Moves(p, k, i, w, <<>>) /\ (i = j => j.stage \notin Joins)
  <2>1. CASE CloseAnswered(p)
    <3>1. Moves(p, k, j, w, <<>>)
      BY <1>1, <2>1, CloseAnsweredMoves
    <3>2. t # <<>> /\ Head(t).kind = "close"
      BY <2>1 DEF CloseAnswered, Receiving, Message
    <3>3. ~NotClosing(w, t)
      BY <1>1, <3>2, NotClosingTail
    <3>4. j.stage \notin Joins
      BY <1>1, <3>3 DEF Dialogue, Joins
    <3> QED
      BY <3>1, <3>4
  <2>2. CASE TimeOut(p)
    <3>1. Moves(p, k, IF Waiting(p) THEN Gone(j, "failed") ELSE j, w, <<>>)
      BY <1>1, <2>2, TimeOutMoves
    <3>2. ~Waiting(p) => j.stage \notin Joins
      BY <2>2 DEF TimeOut, Runs, Waiting, Joins
    <3>3. CASE Waiting(p)
      <4>1. Gone(j, "failed").stage = "failed"
        BY <1>1, JoinShapes DEF Stages
      <4> QED
        BY <3>1, <3>3, <4>1 DEF Waiting, Joins
    <3> QED
      BY <3>1, <3>2, <3>3
  <2> QED
    BY <2>1, <2>2
<1>7. i \in JoinState /\ i.stage \notin Joins /\ i.stage # "none"
  <2>1. Gone(j, "failed").stage = "failed" /\ Gone(j, "failed") \in JoinState
    BY <1>1, JoinShapes DEF Stages
  <2> QED
    BY <1>1, <1>5, <1>6, <2>1 DEF Joins
<1> HIDE DEF l, j, w, t, k
<1>8. Dialogue(k, i, w, <<>>)
  BY <1>1, <1>2, <1>7 DEF Dialogue, Joins
<1> QED
  BY <1>1, <1>2, <1>4, <1>6, <1>7, <1>8, MovesLink DEF w

LEMMA OtherKeepsLink ==
  ASSUME LinkInv, NEW p \in Ports, Beat(p) \/ Close(p) \/ \E d \in Docs : Post(p, d)
  PROVE  LinkInv'
<1> DEFINE l == link[p]  j == join[p]  w == toWorker[p]  t == toPort[p]
<1>1. /\ l \in Link /\ j \in JoinState /\ w \in Seq(Request) /\ t \in Seq(Msg)
      /\ Dialogue(l, j, w, t) /\ AreFunctions
  BY PortTypes
<1>2. CASE Beat(p)
  <2> DEFINE k == [Asked(l, "heartbeat") EXCEPT !.beat = 0]  m == Request1("heartbeat", 0, None)
  <2>1. k \in Link /\ k.state = l.state /\ k.pending = Asked(l, "heartbeat").pending
    <3>1. Asked(l, "heartbeat") \in Link /\ Asked(l, "heartbeat").state = l.state
      BY <1>1, LinkShapes DEF Kinds
    <3>2. 0 \in 0 .. Heartbeat
      BY LinkAssumption
    <3> QED
      BY <3>1, <3>2 DEF Link
  <2>2. m \in Request /\ m.kind = "heartbeat"
    BY RequestOK DEF Kinds, Request1
  <2>3. Moves(p, k, j, Append(w, m), t)
    BY <1>1, <1>2, BeatMoves
  <2>4. l.state = "open"
    BY <1>2 DEF Beat
  <2>5. Append(w, m) \in Seq(Request)
    BY <1>1, <2>2
  <2> HIDE DEF k, m
  <2>6. Dialogue(k, j, Append(w, m), t)
    BY <1>1, <2>1, <2>2, <2>4, OtherAsked DEF JoinKinds, Ops
  <2> QED
    BY <1>1, <2>1, <2>3, <2>5, <2>6, MovesLink
<1>3. CASE \E d \in Docs : Post(p, d)
  <2>1. PICK d \in Docs : Post(p, d)
    BY <1>3
  <2> DEFINE k == Asked(l, "post")  m == Request1("post", j.rev, d)
  <2>2. k \in Link /\ k.state = l.state
    BY <1>1, LinkShapes DEF Kinds
  <2>3. m \in Request /\ m.kind = "post" /\ m.doc = d
    BY <1>1, RequestOK DEF Kinds, Request1, JoinState
  <2>4. Moves(p, k, j, Append(w, m), t)
    BY <1>1, <2>1, PostMoves
  <2>5. l.state = "open"
    BY <2>1 DEF Post
  <2>6. Append(w, m) \in Seq(Request)
    BY <1>1, <2>3
  <2>7. k.pending = Asked(l, m.kind).pending
    BY <2>3
  <2> HIDE DEF k, m
  <2>8. Dialogue(k, j, Append(w, m), t)
    BY <1>1, <2>2, <2>3, <2>5, <2>7, OtherAsked DEF JoinKinds
  <2> QED
    BY <1>1, <2>2, <2>4, <2>6, <2>8, MovesLink
<1>4. CASE Close(p)
  <2> DEFINE i == Gone(j, "left")
  <2>1. i \in JoinState /\ i.stage = "left"
    BY <1>1, JoinShapes DEF Stages
  <2>2. j.stage = "joined" /\ Awaited(j.stage) = "none"
    BY <1>4 DEF Close, Awaited
  <2>3. CASE l.state = "open"
    <3> DEFINE k == Closing(l)  m == Request1("close", 0, None)
    <3>1. k \in Link /\ k.state = "closing" /\ k.pending = Asked(l, "close").pending
      <4>1. k \in Link /\ k.state = "closing"
        BY <1>1, LinkShapes
      <4>2. Asked(l, "close") \in Link
        BY <1>1, LinkShapes DEF Kinds
      <4> DEFINE a == Asked(l, "close")
      <4>3. k = [a EXCEPT !.state = "closing"]
        BY DEF Closing
      <4> HIDE DEF a, k
      <4>4. k.pending = a.pending
        BY <4>2, <4>3 DEF Link, a
      <4> QED
        BY <4>1, <4>4 DEF a
    <3>2. m \in Request /\ m.kind = "close"
      BY RequestOK DEF Kinds, Request1
    <3>3. Moves(p, k, i, Append(w, m), t)
      BY <1>1, <1>4, <2>3, CloseMoves
    <3>4. Append(w, m) \in Seq(Request)
      BY <1>1, <3>2
    <3> HIDE DEF k, m, i
    <3>5. Dialogue(k, i, Append(w, m), t)
      BY <1>1, <2>1, <2>2, <2>3, <3>1, <3>2, OtherAsked DEF JoinKinds, Ops
    <3> QED
      BY <1>1, <2>1, <3>1, <3>3, <3>4, <3>5, MovesLink
  <2>4. CASE l.state # "open"
    <3>1. Moves(p, l, i, w, t)
      BY <1>1, <1>4, <2>4, CloseMoves
    <3>2. InTurn(j, w, t) => InTurn(i, w, t)
      BY <2>2, IdleIsQuiet, QuietInTurn
    <3> HIDE DEF i
    <3>3. Dialogue(l, i, w, t)
      BY <1>1, <2>1, <2>2, <2>4, <3>2 DEF Dialogue
    <3> QED
      BY <1>1, <2>1, <3>1, <3>3, MovesLink
  <2> QED
    BY <2>3, <2>4
<1> QED
  BY <1>2, <1>3, <1>4

\* The window asks for what its join waits for from now on.
LEMMA AskingKeepsLink ==
  ASSUME LinkInv, NEW p \in Ports, BringLocal(p) \/ \E d \in Docs : Open(p, d)
  PROVE  LinkInv'
<1> DEFINE l == link[p]  j == join[p]  w == toWorker[p]  t == toPort[p]
<1>1. /\ l \in Link /\ j \in JoinState /\ w \in Seq(Request) /\ t \in Seq(Msg)
      /\ Dialogue(l, j, w, t) /\ AreFunctions
  BY PortTypes
<1>2. j.stage \in {"deciding", "none"} /\ l.state \in {"open", "none"}
  BY <1>1 DEF BringLocal, Open, Dialogue
<1>3. Quiet(w, t) /\ Owing(l, w, t)
  <2>1. Awaited(j.stage) = "none"
    BY <1>2 DEF Awaited
  <2> QED
    BY <1>1, <1>2, <2>1, IdleIsQuiet DEF Dialogue
<1>4. NotClosing(w, t)
  BY <1>1, <1>2 DEF Dialogue, NotClosing
<1>5. PICK i \in JoinState, k \in Link, m \in Request :
        /\ Moves(p, k, i, Append(w, m), t)
        /\ k.state = "open" /\ k.pending = Asked(l, m.kind).pending
        /\ m.kind = Awaited(i.stage) /\ m.kind \in {"open", "adopt", "replace"} /\ m.doc \in Docs
        /\ i.local \in Docs
        /\ m.kind # "open" => m.doc = i.target /\ i.target \in Docs
  <2>1. CASE BringLocal(p)
    <3>1. PICK kind \in {"adopt", "replace"}, stage \in {"adopting", "replacing"} :
            /\ Awaited(stage) = kind
            /\ Moves(p, Asked(l, kind),
                     [j EXCEPT !.stage = stage, !.target = j.local, !.changed = FALSE],
                     Append(w, Request1(kind, j.rev, j.local)), t)
      BY <1>1, <2>1, BringLocalMoves
    <3>2. j.stage = "deciding"
      BY <2>1 DEF BringLocal
    <3>3. j.local \in Docs /\ l.state = "open"
      BY <1>1, <3>2 DEF Dialogue
    <3> DEFINE i == [j EXCEPT !.stage = stage, !.target = j.local, !.changed = FALSE]
               m == Request1(kind, j.rev, j.local)
               k == Asked(l, kind)
    <3>4. i \in JoinState /\ i.stage = stage /\ i.local = j.local /\ i.target = j.local
      BY <1>1 DEF JoinState, Stages
    <3>5. m \in Request /\ m.kind = kind /\ m.doc = j.local
      BY <1>1, <3>3, RequestOK DEF Kinds, Request1, JoinState
    <3>6. k \in Link /\ k.state = "open" /\ k.pending = Asked(l, m.kind).pending
      <4>1. kind \in Kinds
        BY DEF Kinds
      <4>2. k \in Link /\ k.state = l.state
        BY <1>1, <4>1, LinkShapes
      <4>3. k.pending = Asked(l, m.kind).pending
        BY <3>5
      <4> QED
        BY <3>3, <4>2, <4>3
    <3>7. Moves(p, k, i, Append(w, m), t)
      BY <3>1
    <3> HIDE DEF i, m, k
    <3> QED
      BY <3>1, <3>3, <3>4, <3>5, <3>6, <3>7
  <2>2. CASE \E d \in Docs : Open(p, d)
    <3>1. PICK d \in Docs : Open(p, d)
      BY <2>2
    <3> DEFINE i == [j EXCEPT !.stage = "opening", !.local = d, !.changed = p \in Replacing]
               m == Request1("open", 0, d)
               k == [Asked(l, "open") EXCEPT !.state = "open"]
    <3>2. i \in JoinState /\ i.stage = "opening" /\ i.local = d
      <4>1. (p \in Replacing) \in BOOLEAN
        OBVIOUS
      <4> DEFINE changed == p \in Replacing
      <4>2. i = [j EXCEPT !.stage = "opening", !.local = d, !.changed = changed]
        OBVIOUS
      <4> HIDE DEF changed, i
      <4> QED
        BY <1>1, <4>1, <4>2 DEF JoinState, Stages, changed
    <3>3. m \in Request /\ m.kind = "open" /\ m.doc = d
      BY RequestOK DEF Kinds, Request1
    <3>4. k \in Link /\ k.state = "open" /\ k.pending = Asked(l, m.kind).pending
      <4>1. Asked(l, "open") \in Link
        BY <1>1, LinkShapes DEF Kinds
      <4> QED
        BY <3>3, <4>1 DEF Link
    <3>5. Moves(p, k, i, Append(w, m), t)
      BY <1>1, <3>1, OpenMoves
    <3>6. Awaited("opening") = "open"
      BY DEF Awaited
    <3> HIDE DEF i, m, k
    <3> QED
      BY <3>2, <3>3, <3>4, <3>5, <3>6
  <2> QED
    BY <2>1, <2>2
<1>6. InTurn(i, Append(w, m), t)
  <2>1. Expected(m, i)
    BY <1>5 DEF Expected
  <2> QED
    BY <1>1, <1>3, <2>1, QuietInTurn, AskInTurn
<1>7. Owing(k, Append(w, m), t)
  BY <1>1, <1>3, <1>5, AskedOwing DEF Request
<1>8. NotClosing(Append(w, m), t)
  BY <1>1, <1>4, <1>5, NotClosingAppend
<1>9. \A n \in 1 .. Len(Append(w, m)) :
        Append(w, m)[n].kind \in Ops \cup {"open"} => Append(w, m)[n].doc \in Docs
  BY <1>1, <1>5, AskedDocs DEF Dialogue
<1>10. i.stage \in {"opening", "adopting", "replacing"}
  BY <1>5 DEF Awaited, JoinState, Stages
<1>11. i.stage \in {"adopting", "replacing"} => i.target \in Docs
  BY <1>5 DEF Awaited
<1>12. Append(w, m) \in Seq(Request)
  BY <1>1
<1> HIDE DEF l, j, w, t
<1>13. Dialogue(k, i, Append(w, m), t)
  BY <1>5, <1>6, <1>7, <1>8, <1>9, <1>10, <1>11 DEF Dialogue
<1> QED
  BY <1>1, <1>5, <1>10, <1>12, <1>13, MovesLink DEF t

\* Nothing is sent and nothing is received.
LEMMA ThinkingKeepsLink ==
  ASSUME LinkInv, NEW p \in Ports,
         NothingToBring(p) \/ Join(p) \/ Freeze(p) \/ Resume(p) \/ \E d \in Docs : LocalEdit(p, d)
  PROVE  LinkInv'
<1> DEFINE l == link[p]  j == join[p]  w == toWorker[p]  t == toPort[p]
<1>1. /\ l \in Link /\ j \in JoinState /\ w \in Seq(Request) /\ t \in Seq(Msg)
      /\ Dialogue(l, j, w, t) /\ AreFunctions
  BY PortTypes
<1>2. CASE NothingToBring(p)
  <2> DEFINE i == [j EXCEPT !.changed = FALSE]
  <2>1. i \in JoinState /\ i.stage = j.stage /\ i.local = j.local /\ i.target = j.target
    BY <1>1 DEF JoinState
  <2>2. Moves(p, l, i, w, t)
    BY <1>1, <1>2, NothingToBringMoves
  <2> HIDE DEF i
  <2>3. Dialogue(l, i, w, t)
    BY <1>1, <2>1, SameTurn DEF Dialogue
  <2> QED
    BY <1>1, <2>1, <2>2, <2>3, MovesLink
<1>3. CASE \E d \in Docs : LocalEdit(p, d)
  <2>1. PICK d \in Docs : LocalEdit(p, d)
    BY <1>3
  <2> DEFINE i == [j EXCEPT !.local = d, !.changed = TRUE, !.edits = j.edits + 1]
  <2>2. i \in JoinState /\ i.stage = j.stage /\ i.local = d /\ i.target = j.target
    <3>1. j.edits + 1 \in Nat
      BY <1>1 DEF JoinState
    <3> DEFINE edits == j.edits + 1
    <3> HIDE DEF edits
    <3>2. i = [j EXCEPT !.local = d, !.changed = TRUE, !.edits = edits]
      BY DEF edits
    <3> HIDE DEF i
    <3> QED
      BY <1>1, <3>1, <3>2 DEF JoinState, edits
  <2>3. Moves(p, l, i, w, t)
    BY <1>1, <2>1, LocalEditMoves
  <2> HIDE DEF i
  <2>4. Dialogue(l, i, w, t)
    BY <1>1, <2>2, SameTurn DEF Dialogue
  <2> QED
    BY <1>1, <2>2, <2>3, <2>4, MovesLink
<1>4. CASE Join(p)
  <2> DEFINE i == IngestAll(Over(j, "joined"), j.buffer)
  <2>6. i \in JoinState /\ i.stage = "joined"
    BY <1>1, JoinedState
  <2>7. Moves(p, l, i, w, t)
    BY <1>1, <1>4, JoinMoves
  <2>8. j.stage = "deciding" /\ Awaited(j.stage) = "none"
    BY <1>4 DEF Join, Awaited
  <2>9. InTurn(j, w, t) => InTurn(i, w, t)
    BY <2>8, IdleIsQuiet, QuietInTurn
  <2> HIDE DEF i
  <2>10. Dialogue(l, i, w, t)
    BY <1>1, <2>6, <2>8, <2>9 DEF Dialogue
  <2> QED
    BY <1>1, <2>6, <2>7, <2>10, MovesLink
<1>5. CASE Freeze(p) \/ Resume(p)
  <2>1. PICK window \in {"frozen", "resumed"} : Moves(p, [l EXCEPT !.window = window], j, w, t)
    BY <1>1, <1>5, FreezeMoves
  <2> DEFINE k == [l EXCEPT !.window = window]
  <2>2. k \in Link /\ k.state = l.state /\ k.pending = l.pending
    BY <1>1 DEF Link
  <2>3. Moves(p, k, j, w, t)
    BY <2>1
  <2> HIDE DEF k
  <2>4. Dialogue(k, j, w, t)
    BY <1>1, <2>2, SameDialogue
  <2> QED
    BY <1>1, <2>2, <2>3, <2>4, MovesLink
<1> QED
  BY <1>2, <1>3, <1>4, <1>5

LEMMA WindowKeepsLink ==
  ASSUME LinkInv, NEW p \in Ports, Window(p) \/ User(p)
  PROVE  LinkInv'
BY EventKeepsLink, SettlingKeepsLink, ReplyingKeepsLink, EndingKeepsLink, OtherKeepsLink,
   AskingKeepsLink, ThinkingKeepsLink
DEF Window, Handle, User

\* Time only makes ages greater, and not beyond their bounds.
LEMMA OlderOK ==
  ASSUME NEW most \in Nat, NEW x \in 0 .. most
  PROVE  Older(x, most) \in 0 .. most /\ Older(x, most) <= x + 1 /\ x <= Older(x, most)
BY DEF Older

LEMMA AgedOK ==
  ASSUME NEW l \in Link
  PROVE  /\ Aged(l) \in Link /\ Aged(l).state = l.state /\ Aged(l).window = l.window
         /\ Len(Aged(l).pending) = Len(l.pending)
         /\ \A i \in 1 .. Len(l.pending) :
              Aged(l).pending[i] = [l.pending[i] EXCEPT !.age = Older(l.pending[i].age, Timeout)]
         /\ Aged(l).beat = IF l.state = "open" THEN Older(l.beat, Heartbeat) ELSE 0
<1> DEFINE P == [kind : Kinds, age : 0 .. Timeout]
           pending == [i \in DOMAIN l.pending |->
                         [l.pending[i] EXCEPT !.age = Older(l.pending[i].age, Timeout)]]
           beat == IF l.state = "open" THEN Older(l.beat, Heartbeat) ELSE 0
<1>1. l.pending \in Seq(P) /\ l.beat \in 0 .. Heartbeat /\ Heartbeat \in Nat /\ Timeout \in Nat
  BY LinkAssumption DEF Link
<1>2. Len(l.pending) \in Nat /\ DOMAIN l.pending = 1 .. Len(l.pending)
  BY <1>1
<1>3. \A i \in 1 .. Len(l.pending) :
        [l.pending[i] EXCEPT !.age = Older(l.pending[i].age, Timeout)] \in P
  <2> TAKE i \in 1 .. Len(l.pending)
  <2>1. l.pending[i] \in P
    <3> HIDE DEF P
    <3> QED
      BY <1>1
  <2>2. Older(l.pending[i].age, Timeout) \in 0 .. Timeout
    BY <1>1, <2>1, OlderOK
  <2> QED
    BY <2>1, <2>2
<1>4. /\ pending \in Seq(P) /\ Len(pending) = Len(l.pending)
      /\ \A i \in 1 .. Len(l.pending) :
           pending[i] = [l.pending[i] EXCEPT !.age = Older(l.pending[i].age, Timeout)]
  <2>1. pending \in [1 .. Len(l.pending) -> P]
    BY <1>2, <1>3
  <2>2. DOMAIN pending = 1 .. Len(l.pending)
    BY <1>2
  <2> HIDE DEF P, pending
  <2>3. pending \in Seq(P)
    BY <1>2, <2>1
  <2>4. Len(pending) = Len(l.pending)
    BY <1>2, <2>2, <2>3
  <2> QED
    BY <1>2, <2>3, <2>4 DEF pending
<1>5. beat \in 0 .. Heartbeat
  <2>1. Older(l.beat, Heartbeat) \in 0 .. Heartbeat
    BY <1>1, OlderOK
  <2>2. 0 \in 0 .. Heartbeat
    BY <1>1
  <2> QED
    BY <2>1, <2>2
<1>6. Aged(l) = [l EXCEPT !.beat = beat, !.pending = pending]
  BY DEF Aged
<1> HIDE DEF beat, pending
<1>7. Aged(l) \in Link /\ Aged(l).state = l.state /\ Aged(l).window = l.window
      /\ Aged(l).pending = pending /\ Aged(l).beat = beat
  BY <1>4, <1>5, <1>6 DEF Link
<1> QED
  BY <1>4, <1>7 DEF beat

LEMMA TickKeepsLink ==
  ASSUME LinkInv, Tick
  PROVE  LinkInv'
<1>1. link' = [p \in Ports |-> Aged(link[p])]
  BY DEF Tick
<1>2. UNCHANGED <<session, portSessions, opened, toWorker, toPort, join>>
  BY DEF Tick
<1>3. link' \in [Ports -> Link]
  <2>1. \A p \in Ports : Aged(link[p]) \in Link
    BY AgedOK DEF LinkInv, TypeOK
  <2> QED
    BY <1>1, <2>1
<1>4. portSeen' \in [Ports -> 0 .. Lease + 1]
  <2>1. Lease + 1 \in Nat /\ 0 \in 0 .. Lease + 1
    BY LinkAssumption
  <2>2. \A p \in Ports : Older(portSeen[p], Lease + 1) \in 0 .. Lease + 1
    BY <2>1, OlderOK DEF LinkInv, TypeOK
  <2> QED
    BY <2>1, <2>2 DEF Tick
<1>5. TypeOK' /\ LifeInv'
  BY <1>2, <1>3, <1>4 DEF LinkInv, TypeOK, LifeInv
<1>6. \A p \in Ports : Dialogue(link'[p], join'[p], toWorker'[p], toPort'[p])
  <2> TAKE p \in Ports
  <2>1. link[p] \in Link /\ Dialogue(link[p], join[p], toWorker[p], toPort[p])
    BY PortTypes
  <2>2. link'[p] = Aged(link[p])
    BY <1>1
  <2>3. link'[p].state = link[p].state /\ Len(link'[p].pending) = Len(link[p].pending)
    BY <2>1, <2>2, AgedOK
  <2> QED
    BY <1>2, <2>1, <2>3 DEF Dialogue, Owing
<1> QED
  BY <1>2, <1>5, <1>6 DEF LinkInv

LEMMA LinkStarts ==
  ASSUME Init
  PROVE  LinkInv
<1>1. LifeInv
  BY LifeStarts
<1>2. TypeOK
  <2>1. <<>> \in Seq(Op) /\ <<>> \in Seq(Request) /\ <<>> \in Seq(Msg)
        /\ <<>> \in Seq([kind : Kinds, age : 0 .. Timeout])
    OBVIOUS
  <2>2. 0 \in 0 .. Lease + 1 /\ 0 \in 0 .. Heartbeat
    BY LinkAssumption
  <2>3. link \in [Ports -> Link]
    BY <2>1, <2>2 DEF Init, Link
  <2>4. join \in [Ports -> JoinState]
    BY <2>1 DEF Init, JoinState, Stages
  <2> QED
    BY <2>1, <2>2, <2>3, <2>4, LinkAssumption DEF Init, TypeOK
<1>3. \A p \in Ports : Dialogue(link[p], join[p], toWorker[p], toPort[p])
  <2> TAKE p \in Ports
  <2>1. /\ link[p].state = "none" /\ link[p].pending = <<>> /\ join[p].stage = "none"
        /\ toWorker[p] = <<>> /\ toPort[p] = <<>>
    BY DEF Init
  <2>2. Len(<<>>) = 0 /\ 1 .. 0 = {}
    OBVIOUS
  <2>3. InTurn(join[p], <<>>, <<>>)
    BY <2>2 DEF InTurn
  <2>4. Owing(link[p], <<>>, <<>>)
    BY <2>1, <2>2, NothingOwed DEF Owing
  <2> QED
    BY <2>1, <2>2, <2>3, <2>4 DEF Dialogue
<1>4. session.ports = {}
  BY DEF Init
<1> QED
  BY <1>1, <1>2, <1>3, <1>4 DEF LinkInv

LEMMA LinkStep ==
  ASSUME LinkInv, [Next]_vars
  PROVE  LinkInv'
<1>1. LifeInv'
  BY LifeStep DEF LinkInv
<1>2. CASE UNCHANGED vars
  BY <1>2 DEF vars, workerVars, LinkInv, TypeOK, LifeInv
<1>3. CASE \E p \in Ports : Serve(p)
  BY <1>1, <1>3, ServeKeepsLink
<1> QED
  BY <1>2, <1>3, WindowKeepsLink, TickKeepsLink DEF Next

\* Every variable of the worker, the queues and the windows keeps its type, a
\* session has a document as long as it has ports, and a window only handles
\* an answer to a request it has outstanding.
THEOREM LinkTypes == Spec => []TypeOK
<1>1. LinkInv => TypeOK
  BY DEF LinkInv
<1> QED
  BY <1>1, LinkStarts, LinkStep, PTL DEF Spec

-----------------------------------------------------------------------------
(* What the user wrote while the window joined                              *)

\* While a document is brought it is the tab's, unless that has changed since;
\* a tab that was edited, or replaces, is not joined before its document is.
EditKept(p, j) ==
  /\ j.stage \in {"adopting", "replacing", "refetching"} /\ ~j.changed => j.target = j.local
  /\ j.edits > 0 \/ p \in Replacing =>
       /\ j.stage = "opening" => j.changed
       /\ j.stage = "deciding" /\ ~j.changed => j.doc = j.local
  /\ j.stage = "none" => j.edits = 0

EditInv == LinkInv /\ \A p \in Ports : EditKept(p, join[p])

LEMMA MovesEdit ==
  ASSUME EditInv, NEW p \in Ports, NEW l, NEW j, NEW w, NEW t, Moves(p, l, j, w, t), EditKept(p, j)
  PROVE  \A q \in Ports : EditKept(q, join'[q])
BY DEF EditInv, Moves

\* A join that is over, or goes on as it was, keeps what it has to keep.
LEMMA EditOver ==
  ASSUME NEW p, NEW j \in JoinState, NEW stage \in {"joined", "failed", "left"}
  PROVE  EditKept(p, Gone(j, stage))
<1>1. stage \in Stages
  BY DEF Stages
<1>2. Gone(j, stage).stage = stage
  BY <1>1, JoinShapes
<1> QED
  BY <1>2 DEF EditKept

LEMMA EditSame ==
  ASSUME NEW p, NEW j, EditKept(p, j), NEW i, i.stage = j.stage, i.target = j.target,
         i.local = j.local, i.changed = j.changed, i.edits = j.edits,
         i.doc = j.doc \/ i.stage # "deciding"
  PROVE  EditKept(p, i)
BY DEF EditKept

LEMMA WindowKeepsEdits ==
  ASSUME EditInv, NEW p \in Ports, Window(p) \/ User(p)
  PROVE  \A q \in Ports : EditKept(q, join'[q])
<1> DEFINE l == link[p]  j == join[p]  w == toWorker[p]  t == toPort[p]
<1>1. /\ l \in Link /\ j \in JoinState /\ w \in Seq(Request) /\ t \in Seq(Msg)
      /\ Dialogue(l, j, w, t) /\ AreFunctions /\ EditKept(p, j)
  BY PortTypes DEF EditInv
<1>2. ASSUME NEW kind \in JoinKinds, Receiving(p, kind)
      PROVE  /\ kind = Awaited(j.stage) /\ Message(p) \in Msg /\ Message(p).kind = kind
             /\ Message(p).result = "accepted" => Message(p).doc = j.target
  <2>1. l.state # "closed" /\ t # <<>> /\ Head(t) = Message(p) /\ Head(t).kind = kind
    BY <1>2 DEF Receiving, Message, Listens
  <2>2. kind # "op"
    BY DEF JoinKinds
  <2> HIDE DEF l, j, w, t
  <2>3. /\ Head(t) \in Msg
        /\ Head(t).kind \in JoinKinds =>
             /\ Quiet(w, Tail(t)) /\ Head(t).kind = Awaited(j.stage)
             /\ Head(t).result = "accepted" => Head(t).doc = j.target
    BY <1>1, <2>1, <2>2, AnswerHandled
  <2> QED
    BY <2>1, <2>3
<1>3. CASE EventArrives(p)
  <2> DEFINE i == Emit(j, Message(p))
  <2>1. Message(p) \in Msg
    BY <1>1, <1>3 DEF EventArrives, Receiving, Message
  <2>2. i.stage = j.stage /\ i.target = j.target /\ i.local = j.local
    BY <1>1, <2>1, JoinShapes
  <2>3. /\ i.changed = j.changed /\ i.edits = j.edits
        /\ j.stage = "deciding" => i.doc = j.doc
    BY <1>1, <2>1 DEF Emit, Ingest, JoinState
  <2>4. Moves(p, l, i, w, Tail(t))
    BY <1>1, <1>3, EventArrivesMoves
  <2> HIDE DEF i
  <2>5. EditKept(p, i)
    BY <1>1, <2>2, <2>3, EditSame
  <2> QED
    BY <2>4, <2>5, MovesEdit
<1>4. CASE HeartbeatAnswered(p)
  BY <1>1, <1>4, HeartbeatMoves, MovesEdit
<1>5. CASE PostAnswered(p)
  <2>1. PICK i \in {j, Ingest(j, Message(p))} :
          /\ Moves(p, Settled(l), i, w, Tail(t))
          /\ i # j => j.stage = "joined"
    BY <1>1, <1>5, PostAnsweredMoves
  <2>2. Message(p) \in Msg
    BY <1>1, <1>5 DEF PostAnswered, Answered, Receiving, Message
  <2>3. Ingest(j, Message(p)).stage = j.stage
    BY <1>1, <2>2, IngestOK
  <2>4. EditKept(p, i)
    BY <1>1, <2>1, <2>3 DEF EditKept
  <2> QED
    BY <2>1, <2>4, MovesEdit
<1>6. CASE OpenAnswered(p)
  <2> DEFINE i == [j EXCEPT !.stage = "deciding", !.rev = Message(p).rev, !.doc = Message(p).doc]
  <2>1. Moves(p, Settled(l), i, w, Tail(t))
    BY <1>1, <1>6, OpenAnsweredMoves
  <2>2. i.stage = "deciding" /\ i.changed = j.changed /\ i.edits = j.edits
    BY <1>1 DEF JoinState
  <2>3. j.stage = "opening"
    BY <1>1, <1>2, <1>6, AwaitedStage DEF OpenAnswered, Answered, JoinKinds
  <2> HIDE DEF i
  <2>4. EditKept(p, i)
    BY <1>1, <2>2, <2>3 DEF EditKept
  <2> QED
    BY <2>1, <2>4, MovesEdit
<1>7. CASE \E kind \in {"adopt", "replace"} : Accepted(p, kind)
  <2>1. PICK kind \in {"adopt", "replace"} : Accepted(p, kind)
    BY <1>7
  <2> DEFINE i == [j EXCEPT !.stage = "deciding", !.rev = Message(p).rev, !.doc = j.target]
  <2>2. Moves(p, Settled(l), i, w, Tail(t))
    BY <1>1, <2>1, AcceptedMoves
  <2>3. i.stage = "deciding" /\ i.changed = j.changed /\ i.doc = j.target /\ i.local = j.local
    BY <1>1 DEF JoinState
  <2>4. j.stage \in {"adopting", "replacing"}
    BY <1>1, <1>2, <2>1, AwaitedStage DEF Accepted, Answered, JoinKinds
  <2> HIDE DEF i
  <2>5. EditKept(p, i)
    BY <1>1, <2>3, <2>4 DEF EditKept
  <2> QED
    BY <2>2, <2>5, MovesEdit
<1>8. CASE NothingToReplace(p)
  <2> DEFINE i == [j EXCEPT !.stage = "deciding", !.rev = Message(p).rev, !.doc = Message(p).doc]
  <2>1. Moves(p, Settled(l), i, w, Tail(t)) /\ Message(p).doc = j.target
    BY <1>1, <1>8, NothingToReplaceMoves DEF NothingToReplace
  <2>2. i.stage = "deciding" /\ i.changed = j.changed /\ i.doc = j.target /\ i.local = j.local
    BY <1>1, <2>1 DEF JoinState
  <2>3. j.stage = "refetching"
    BY <1>1, <1>2, <1>8, AwaitedStage DEF NothingToReplace, Answered, JoinKinds
  <2> HIDE DEF i
  <2>4. EditKept(p, i)
    BY <1>1, <2>2, <2>3 DEF EditKept
  <2> QED
    BY <2>1, <2>4, MovesEdit
<1>9. CASE AdoptThrows(p) \/ ReplaceThrows(p) \/ AdoptConflicts(p)
  <2>1. EditKept(p, Gone(j, "failed"))
    BY <1>1, EditOver
  <2>2. \E k, v : Moves(p, k, Gone(j, "failed"), v, Tail(t))
    BY <1>1, <1>9, ThrowsMoves, AdoptConflictsMoves
  <2> QED
    BY <2>1, <2>2, MovesEdit
<1>10. CASE ReplaceIsStale(p) \/ ReplaceAgain(p)
  <2>1. PICK i : /\ \E k, v : Moves(p, k, i, v, Tail(t))
                 /\ i.stage \in {"replacing", "refetching"} /\ i.target = j.target
                 /\ i.local = j.local /\ i.changed = j.changed
    <3>1. CASE ReplaceIsStale(p)
      <4> DEFINE i == [j EXCEPT !.stage = "refetching"]
      <4>1. /\ i.stage \in {"replacing", "refetching"} /\ i.target = j.target
            /\ i.local = j.local /\ i.changed = j.changed
        BY <1>1 DEF JoinState
      <4>2. \E k, v : Moves(p, k, i, v, Tail(t))
        BY <1>1, <3>1, ReplaceIsStaleMoves
      <4> HIDE DEF i
      <4> QED
        BY <4>1, <4>2
    <3>2. CASE ReplaceAgain(p)
      <4> DEFINE i == [j EXCEPT !.stage = "replacing", !.rev = Message(p).rev, !.doc = Message(p).doc]
      <4>1. /\ i.stage \in {"replacing", "refetching"} /\ i.target = j.target
            /\ i.local = j.local /\ i.changed = j.changed
        BY <1>1 DEF JoinState
      <4>2. \E k, v : Moves(p, k, i, v, Tail(t))
        BY <1>1, <3>2, ReplaceAgainMoves
      <4> HIDE DEF i
      <4> QED
        BY <4>1, <4>2
    <3> QED
      BY <1>10, <3>1, <3>2
  <2>2. j.stage \in {"replacing", "refetching"}
    BY <1>1, <1>2, <1>10, AwaitedStage DEF ReplaceIsStale, ReplaceAgain, JoinKinds
  <2>3. EditKept(p, i)
    BY <1>1, <2>1, <2>2 DEF EditKept
  <2> QED
    BY <2>1, <2>3, MovesEdit
<1>11. CASE CloseAnswered(p) \/ Beat(p) \/ Freeze(p) \/ Resume(p) \/ \E d \in Docs : Post(p, d)
  <2>1. join' = join
    BY <1>11 DEF CloseAnswered, Beat, Freeze, Resume, Post
  <2> QED
    BY <2>1 DEF EditInv
<1>12. CASE TimeOut(p)
  <2>1. PICK i \in {j, Gone(j, "failed")} : \E k, v, u : Moves(p, k, i, v, u)
    BY <1>1, <1>12, TimeOutMoves
  <2>2. EditKept(p, i)
    BY <1>1, <2>1, EditOver
  <2> QED
    BY <2>1, <2>2, MovesEdit
<1>13. CASE BringLocal(p)
  <2>1. PICK stage \in {"adopting", "replacing"} : \E k, v :
          Moves(p, k, [j EXCEPT !.stage = stage, !.target = j.local, !.changed = FALSE], v, t)
    BY <1>1, <1>13, BringLocalMoves
  <2> DEFINE i == [j EXCEPT !.stage = stage, !.target = j.local, !.changed = FALSE]
  <2>2. i.stage = stage /\ i.target = i.local
    BY <1>1 DEF JoinState
  <2>3. \E k, v : Moves(p, k, i, v, t)
    BY <2>1
  <2> HIDE DEF i
  <2>4. EditKept(p, i)
    BY <2>2 DEF EditKept
  <2> QED
    BY <2>3, <2>4, MovesEdit
<1>14. CASE NothingToBring(p)
  <2> DEFINE i == [j EXCEPT !.changed = FALSE]
  <2>1. Moves(p, l, i, w, t) /\ j.local = j.doc /\ j.stage = "deciding"
    BY <1>1, <1>14, NothingToBringMoves DEF NothingToBring
  <2>2. i.stage = "deciding" /\ i.doc = i.local
    BY <1>1, <2>1 DEF JoinState
  <2> HIDE DEF i
  <2>3. EditKept(p, i)
    BY <2>2 DEF EditKept
  <2> QED
    BY <2>1, <2>3, MovesEdit
<1>15. CASE Join(p)
  <2> DEFINE o == Over(j, "joined")  i == IngestAll(o, j.buffer)
  <2>1. Moves(p, l, i, w, t)
    BY <1>1, <1>15, JoinMoves
  <2>2. i.stage = "joined"
    BY <1>1, JoinedState
  <2> HIDE DEF i
  <2>3. EditKept(p, i)
    BY <2>2 DEF EditKept
  <2> QED
    BY <2>1, <2>3, MovesEdit
<1>16. CASE \E d \in Docs : Open(p, d)
  <2>1. PICK d \in Docs : Open(p, d)
    BY <1>16
  <2> DEFINE changed == p \in Replacing
             i == [j EXCEPT !.stage = "opening", !.local = d, !.changed = changed]
  <2>2. j.stage = "none" /\ j.edits = 0
    BY <1>1, <2>1 DEF Open, EditKept
  <2>3. \E k, v : Moves(p, k, i, v, t)
    BY <1>1, <2>1, OpenMoves
  <2> HIDE DEF changed
  <2>4. i.stage = "opening" /\ i.edits = 0 /\ i.changed = changed
    BY <1>1, <2>2 DEF JoinState
  <2> HIDE DEF i
  <2>5. EditKept(p, i)
    <3>1. ~(i.edits > 0)
      BY <2>4
    <3>2. p \in Replacing => i.changed
      BY <2>4 DEF changed
    <3> QED
      BY <2>4, <3>1, <3>2 DEF EditKept
  <2> QED
    BY <2>3, <2>5, MovesEdit
<1>17. CASE \E d \in Docs : LocalEdit(p, d)
  <2>1. PICK d \in Docs : LocalEdit(p, d)
    BY <1>17
  <2> DEFINE i == [j EXCEPT !.local = d, !.changed = TRUE, !.edits = j.edits + 1]
  <2>2. Moves(p, l, i, w, t)
    BY <1>1, <2>1, LocalEditMoves
  <2>3. i.stage = j.stage /\ i.changed = TRUE /\ j.stage # "none"
    BY <1>1, <2>1 DEF JoinState, LocalEdit, Waiting
  <2> HIDE DEF i
  <2>4. EditKept(p, i)
    BY <2>3 DEF EditKept
  <2> QED
    BY <2>2, <2>4, MovesEdit
<1>18. CASE Close(p)
  <2>1. EditKept(p, Gone(j, "left"))
    BY <1>1, EditOver
  <2>2. \E k, v : Moves(p, k, Gone(j, "left"), v, t)
    BY <1>1, <1>18, CloseMoves
  <2> QED
    BY <2>1, <2>2, MovesEdit
<1> QED
  BY <1>3, <1>4, <1>5, <1>6, <1>7, <1>8, <1>9, <1>10, <1>11, <1>12, <1>13, <1>14, <1>15, <1>16,
     <1>17, <1>18
  DEF Window, Handle, User

\* A window joins with what its tab was edited to while it opened, adopted,
\* was refused, refetched or replaced.
THEOREM EditsAreKept == Spec => []NoEditLostByJoining
<1>1. Init => EditInv
  BY LinkStarts DEF EditInv, EditKept, Init
<1>2. EditInv /\ [Next]_vars => EditInv'
  <2> SUFFICES ASSUME EditInv, [Next]_vars
               PROVE  \A p \in Ports : EditKept(p, join'[p])
    BY LinkStep DEF EditInv
  <2>1. CASE \E p \in Ports : Serve(p)
    BY <2>1, ServedOK DEF EditInv
  <2>2. CASE Tick \/ UNCHANGED vars
    BY <2>2 DEF Tick, vars, EditInv
  <2> QED
    BY <2>1, <2>2, WindowKeepsEdits DEF Next
<1>3. EditInv => NoEditLostByJoining
  <2> SUFFICES ASSUME EditInv, NEW p \in Ports, join[p].stage = "deciding", ~join[p].changed,
                      join[p].edits > 0 \/ p \in Replacing
               PROVE  join[p].doc = join[p].local
    BY DEF NoEditLostByJoining
  <2> QED
    BY DEF EditInv, EditKept
<1> QED
  BY <1>1, <1>2, <1>3, PTL DEF Spec

-----------------------------------------------------------------------------
(* Leases: how long ago the worker served a port, told from the timers of   *)
(* its window                                                               *)

\* If all is served, no longer than the last heartbeat, or the open before it,
\* is ago; else no longer than the oldest request not served, and a heartbeat.
Timely(l, w, seen) ==
  /\ w = <<>> => seen <= l.beat
  /\ w # <<>> => seen <= l.pending[Len(l.pending) - Len(w) + 1].age + Heartbeat

\* A port is in its session or about to be opened.
Admitted(p, s, w) == p \in s.ports \/ \E i \in 1 .. Len(w) : w[i].kind = "open"

Leased(p, s, l, w, seen) ==
  /\ l.state = "none" => l.pending = <<>> /\ l.beat = 0 /\ seen = 0
  /\ l.state = "open" /\ l.window = "attentive" => Admitted(p, s, w) /\ Timely(l, w, seen)

LeaseInv ==
  /\ LinkInv
  /\ \A p \in Ports : Leased(p, session, link[p], toWorker[p], portSeen[p])

LEMMA OwedNat ==
  ASSUME NEW n \in Int, NEW t \in Seq(Msg), Owed(n, t)
  PROVE  n >= 0
<1>1. PICK c \in [0 .. Len(t) -> Int] :
        /\ c[Len(t)] - c[0] = n
        /\ \A i, k \in 0 .. Len(t) : i <= k => c[i] <= c[k]
  BY DEF Owed
<1>2. 0 \in 0 .. Len(t) /\ Len(t) \in 0 .. Len(t) /\ 0 <= Len(t)
  OBVIOUS
<1>3. c[0] \in Int /\ c[Len(t)] \in Int /\ c[0] <= c[Len(t)]
  BY <1>1, <1>2
<1> QED
  BY <1>1, <1>3

LEMMA OwingFits ==
  ASSUME NEW l \in Link, NEW w \in Seq(Request), NEW t \in Seq(Msg), Owing(l, w, t)
  PROVE  Len(w) <= Len(l.pending)
<1>1. Len(l.pending) \in Nat /\ Len(w) \in Nat
  BY DEF Link
<1>2. Len(l.pending) - Len(w) >= 0
  BY <1>1, OwedNat DEF Owing
<1> QED
  BY <1>1, <1>2

LEMMA EntryOf ==
  ASSUME NEW S, NEW s \in Seq(S), NEW n \in 1 .. Len(s)
  PROVE  s[n] \in S
OBVIOUS

\* The timers bound it.
LEMMA TimelyBound ==
  ASSUME NEW l \in Link, NEW w \in Seq(Request), NEW t \in Seq(Msg), Owing(l, w, t),
         NEW seen \in Nat, Timely(l, w, seen)
  PROVE  seen <= Lease
<1>1. /\ l.pending \in Seq([kind : Kinds, age : 0 .. Timeout]) /\ l.beat \in 0 .. Heartbeat
      /\ Heartbeat \in Nat /\ Timeout \in Nat /\ Lease \in Nat /\ Heartbeat + Timeout <= Lease
  BY LinkAssumption DEF Link
<1>2. CASE w = <<>>
  BY <1>1, <1>2 DEF Timely
<1>3. CASE w # <<>>
  <2>1. Len(l.pending) - Len(w) + 1 \in 1 .. Len(l.pending)
    BY <1>1, <1>3, OwingFits
  <2> DEFINE n == Len(l.pending) - Len(w) + 1
  <2> HIDE DEF n
  <2>2. l.pending[n] \in [kind : Kinds, age : 0 .. Timeout]
    BY <1>1, <2>1, EntryOf DEF n
  <2>3. l.pending[n].age \in 0 .. Timeout
    BY <2>2
  <2>4. seen <= l.pending[n].age + Heartbeat
    BY <1>3 DEF Timely, n
  <2>5. \A a \in 0 .. Timeout : a + Heartbeat <= Lease
    BY LinkAssumption
  <2>6. l.pending[n].age + Heartbeat \in Nat
    BY <2>3, LinkAssumption
  <2> QED
    BY <2>3, <2>4, <2>5, <2>6, LinkAssumption
<1> QED
  BY <1>2, <1>3

\* An answer is handled.
LEMMA SettledTimely ==
  ASSUME NEW l \in Link, NEW w \in Seq(Request), NEW t \in Seq(Msg), Owing(Settled(l), w, t),
         NEW seen, Timely(l, w, seen), l.pending # <<>>,
         NEW k, k.pending = Settled(l).pending, k.beat = l.beat
  PROVE  Timely(k, w, seen)
<1>1. l.pending \in Seq([kind : Kinds, age : 0 .. Timeout])
  BY DEF Link
<1>2. k.pending = Tail(l.pending)
  BY DEF Settled, Link
<1>3. CASE w = <<>>
  BY <1>3 DEF Timely
<1>4. CASE w # <<>>
  <2>1. Settled(l) \in Link /\ Settled(l).pending = k.pending
    BY LinkShapes
  <2>2. Len(w) <= Len(k.pending)
    BY <2>1, OwingFits
  <2>3. Len(w) \in Nat /\ Len(w) >= 1 /\ Len(l.pending) \in Nat /\ Len(k.pending) = Len(l.pending) - 1
    BY <1>1, <1>2, <1>4
  <2> DEFINE n == Len(k.pending) - Len(w) + 1
  <2>4. n \in 1 .. Len(k.pending) /\ n + 1 = Len(l.pending) - Len(w) + 1
    BY <2>2, <2>3
  <2> HIDE DEF n
  <2>5. k.pending[n] = l.pending[n + 1]
    BY <1>1, <1>2, <2>3, <2>4
  <2> QED
    BY <1>4, <2>4, <2>5 DEF Timely, n
<1> QED
  BY <1>3, <1>4

\* The worker has just served the port.
LEMMA ServedTimely ==
  ASSUME NEW l \in Link, NEW w \in Seq(Request), NEW t \in Seq(Msg), Owing(l, w, t), w # <<>>
  PROVE  Timely(l, Tail(w), 0)
<1>1. /\ l.pending \in Seq([kind : Kinds, age : 0 .. Timeout]) /\ l.beat \in 0 .. Heartbeat
      /\ Heartbeat \in Nat
  BY LinkAssumption DEF Link
<1>2. Len(w) <= Len(l.pending)
  BY OwingFits
<1>3. Len(Tail(w)) = Len(w) - 1 /\ Len(w) \in Nat /\ Len(w) >= 1 /\ Len(l.pending) \in Nat
  BY <1>1
<1> DEFINE n == Len(l.pending) - Len(Tail(w)) + 1
<1>4. Tail(w) # <<>> => 0 <= l.pending[n].age + Heartbeat
  <2> SUFFICES ASSUME Tail(w) # <<>>
               PROVE  0 <= l.pending[n].age + Heartbeat
    OBVIOUS
  <2>1. Len(Tail(w)) \in Nat /\ Len(Tail(w)) >= 1 /\ Len(Tail(w)) <= Len(l.pending)
    <3>1. Tail(w) \in Seq(Request)
      OBVIOUS
    <3> QED
      BY <1>2, <1>3, <3>1
  <2>2. n \in 1 .. Len(l.pending)
    BY <1>3, <2>1
  <2> HIDE DEF n
  <2>3. l.pending[n] \in [kind : Kinds, age : 0 .. Timeout]
    BY <1>1, <2>2, EntryOf
  <2>4. l.pending[n].age \in Nat
    BY <2>3
  <2>5. \A a \in Nat : 0 <= a + Heartbeat
    BY LinkAssumption
  <2> QED
    BY <2>4, <2>5
<1>5. 0 <= l.beat
  BY <1>1
<1> HIDE DEF n
<1> QED
  BY <1>4, <1>5 DEF Timely, n

\* Something is asked, whatever becomes of the beat.
LEMMA AskedTimely ==
  ASSUME NEW l \in Link, NEW w \in Seq(Request), NEW t \in Seq(Msg), Owing(l, w, t),
         NEW seen \in Nat, Timely(l, w, seen), NEW kind \in Kinds, NEW m,
         NEW k, k.pending = Asked(l, kind).pending
  PROVE  Timely(k, Append(w, m), seen)
<1>1. /\ l.pending \in Seq([kind : Kinds, age : 0 .. Timeout]) /\ l.beat \in 0 .. Heartbeat
      /\ Heartbeat \in Nat
  BY LinkAssumption DEF Link
<1>2. k.pending = Append(l.pending, [kind |-> kind, age |-> 0])
  BY DEF Asked, Link
<1>3. Len(Append(w, m)) = Len(w) + 1 /\ Len(w) \in Nat /\ Append(w, m) # <<>>
  OBVIOUS
<1>4. Len(k.pending) = Len(l.pending) + 1 /\ Len(l.pending) \in Nat
  BY <1>1, <1>2
<1> DEFINE n == Len(l.pending) - Len(w) + 1
<1>5. Len(k.pending) - Len(Append(w, m)) + 1 = n
  BY <1>3, <1>4
<1>6. CASE w = <<>>
  <2>1. n = Len(l.pending) + 1
    BY <1>4, <1>6
  <2>2. k.pending[n].age = 0
    BY <1>1, <1>2, <2>1
  <2>3. seen <= 0 + Heartbeat
    <3>1. seen <= l.beat
      BY <1>6 DEF Timely
    <3>2. l.beat \in 0 .. Heartbeat /\ Heartbeat \in Nat
      BY LinkAssumption DEF Link
    <3> QED
      BY <3>1, <3>2
  <2> HIDE DEF n
  <2> QED
    BY <1>3, <1>5, <2>2, <2>3 DEF Timely
<1>7. CASE w # <<>>
  <2>1. n \in 1 .. Len(l.pending)
    BY <1>3, <1>4, <1>7, OwingFits
  <2>2. seen <= l.pending[n].age + Heartbeat
    BY <1>7 DEF Timely
  <2> HIDE DEF n
  <2>3. k.pending[n] = l.pending[n]
    BY <1>1, <1>2, <2>1
  <2> QED
    BY <1>3, <1>5, <2>2, <2>3 DEF Timely
<1> QED
  BY <1>6, <1>7

\* Time passes for a window whose timers are on time.
LEMMA AgedTimely ==
  ASSUME NEW l \in Link, NEW w \in Seq(Request), NEW t \in Seq(Msg), Owing(l, w, t),
         NEW seen \in Nat, Timely(l, w, seen), l.state = "open", l.beat < Heartbeat,
         \A i \in DOMAIN l.pending : l.pending[i].age < Timeout,
         NEW later \in Nat, later <= seen + 1
  PROVE  Timely(Aged(l), w, later)
<1>1. /\ l.pending \in Seq([kind : Kinds, age : 0 .. Timeout]) /\ l.beat \in 0 .. Heartbeat
      /\ Heartbeat \in Nat /\ Timeout \in Nat
  BY LinkAssumption DEF Link
<1>2. CASE w = <<>>
  <2>1. Aged(l).beat = l.beat + 1
    BY <1>1, AgedOK DEF Older
  <2> QED
    BY <1>1, <1>2, <2>1 DEF Timely
<1>3. CASE w # <<>>
  <2>1. Len(Aged(l).pending) = Len(l.pending)
    BY AgedOK
  <2>2. Len(l.pending) - Len(w) + 1 \in 1 .. Len(l.pending)
    BY <1>1, <1>3, OwingFits
  <2> DEFINE n == Len(l.pending) - Len(w) + 1
  <2> HIDE DEF n
  <2>3. n \in 1 .. Len(l.pending) /\ n \in DOMAIN l.pending
    BY <1>1, <2>2 DEF n
  <2>4. Aged(l).pending[n] = [l.pending[n] EXCEPT !.age = Older(l.pending[n].age, Timeout)]
    BY <2>3, AgedOK
  <2>5. l.pending[n] \in [kind : Kinds, age : 0 .. Timeout] /\ l.pending[n].age < Timeout
    BY <1>1, <2>3, EntryOf
  <2>6. Aged(l).pending[n].age = l.pending[n].age + 1
    BY <2>4, <2>5 DEF Older
  <2>7. seen <= l.pending[n].age + Heartbeat
    BY <1>3 DEF Timely, n
  <2>8. l.pending[n].age \in Nat
    BY <2>5
  <2>9. later <= Aged(l).pending[n].age + Heartbeat
    <3>1. \A h, a \in Nat : seen <= a + h => later <= a + 1 + h
      OBVIOUS
    <3>2. Heartbeat \in Nat
      BY LinkAssumption
    <3> HIDE DEF Timely, Owing
    <3>3. later <= l.pending[n].age + 1 + Heartbeat
      BY <2>7, <2>8, <3>1, <3>2
    <3> QED
      BY <2>6, <3>3
  <2> QED
    BY <1>3, <2>1, <2>9 DEF Timely, n
<1> QED
  BY <1>2, <1>3

-----------------------------------------------------------------------------
(* The worker takes no lease too early                                      *)

\* Pruning spares the sender, the rest only a close takes out.
LEMMA ServedStay ==
  ASSUME LinkInv, NEW p \in Ports, Serve(p)
  PROVE  /\ Kept(p).ports = session.ports \ Expired(p)
         /\ Kept(p).ports \ {p} \subseteq session'.ports
         /\ Head(toWorker[p]).kind # "close" => Kept(p).ports \subseteq session'.ports
         /\ Head(toWorker[p]).kind = "open" => p \in session'.ports
<1>1. Kept(p).ports = session.ports \ Expired(p)
  BY KeptLives DEF LinkInv, LifeInv, Known
<1>2. SessionOK(Kept(p))
  BY KeptOK
<1>3. CASE RefuseUnknown(p) \/ ServeRead(p) \/ ConflictOp(p) \/ StaleOp(p)
  <2>1. session' = Kept(p) /\ Head(toWorker[p]).kind # "open"
    BY <1>3 DEF RefuseUnknown, ServeRead, ConflictOp, StaleOp, Prune, Serving, Ops
  <2> QED
    BY <1>1, <2>1
<1>4. CASE AcceptOp(p)
  <2>1. Head(toWorker[p]).kind # "open"
    BY <1>4 DEF AcceptOp, Serving, Ops
  <2>2. session'.ports = Kept(p).ports
    BY <1>2, <1>4 DEF AcceptOp, SessionOK
  <2> QED
    BY <1>1, <2>1, <2>2
<1>5. CASE ServeClose(p)
  <2>1. Head(toWorker[p]).kind = "close" /\ session' = Disconnected(Kept(p), {p})
    BY <1>5 DEF ServeClose, Serving
  <2>2. IsSession(Kept(p)) /\ LivesAgree(Kept(p), opened)
    BY KeptLives DEF LinkInv
  <2>3. /\ IsSession(session') /\ LivesAgree(session', opened)
        /\ session'.ports = Kept(p).ports \ {p}
    BY <2>1, <2>2, DisconnectedLives
  <2> QED
    BY <1>1, <2>1, <2>3
<1>6. CASE ServeOpen(p)
  <2> DEFINE s == IF Kept(p).ports = {} THEN Fresh(session, Head(toWorker[p]).doc) ELSE Kept(p)
  <2>1. session' = [s EXCEPT !.ports = s.ports \cup {p}]
    BY <1>6 DEF ServeOpen
  <2>2. s.ports = Kept(p).ports
    BY DEF Fresh
  <2>3. session'.ports = s.ports \cup {p}
    BY <1>2, <2>1 DEF Fresh, SessionOK
  <2> HIDE DEF s
  <2> QED
    BY <1>1, <2>2, <2>3
<1> QED
  BY <1>3, <1>4, <1>5, <1>6 DEF Serve

\* A port that an attentive window still uses is not expired.
LEMMA NotExpired ==
  ASSUME LeaseInv, NEW p \in Ports, link[p].state = "open", link[p].window = "attentive", NEW q
  PROVE  p \notin Expired(q)
<1>1. /\ link[p] \in Link /\ toWorker[p] \in Seq(Request) /\ toPort[p] \in Seq(Msg)
      /\ Owing(link[p], toWorker[p], toPort[p])
  BY PortTypes DEF LeaseInv, Dialogue
<1>2. Timely(link[p], toWorker[p], portSeen[p])
  BY DEF LeaseInv, Leased
<1>3. portSeen[p] \in Nat
  BY LinkAssumption DEF LeaseInv, LinkInv, TypeOK
<1>4. portSeen[p] <= Lease
  BY <1>1, <1>2, <1>3, TimelyBound
<1>5. Lease \in Nat
  BY LinkAssumption
<1> QED
  BY <1>3, <1>4, <1>5 DEF Expired

LEMMA ServeKeepsLeases ==
  ASSUME LeaseInv, NEW p \in Ports, Serve(p), NEW q \in Ports
  PROVE  Leased(q, session', link'[q], toWorker'[q], portSeen'[q])
<1>1. LinkInv /\ Leased(q, session, link[q], toWorker[q], portSeen[q])
  BY DEF LeaseInv
<1>2. link'[q] = link[q]
  BY <1>1, ServedOK
<1>3. /\ link[q] \in Link /\ toWorker[q] \in Seq(Request) /\ toPort[q] \in Seq(Msg)
      /\ Dialogue(link[q], join[q], toWorker[q], toPort[q])
  BY <1>1, PortTypes
<1>4. CASE q = p
  <2> DEFINE l == link[p]  w == toWorker[p]
  <2>1. w # <<>> /\ toWorker'[p] = Tail(w) /\ portSeen'[p] = 0
    BY <1>1, ServedOK DEF LinkInv, TypeOK
  <2>2. l.state # "none"
    BY <1>3, <1>4, <2>1 DEF Dialogue
  <2>3. Timely(l, Tail(w), 0) \/ l.state # "open"
    BY <1>3, <1>4, <2>1, ServedTimely DEF Dialogue
  <2>4. l.state = "open" /\ Admitted(p, session, w) => Admitted(p, session', Tail(w))
    <3> SUFFICES ASSUME l.state = "open", Admitted(p, session, w)
                 PROVE  Admitted(p, session', Tail(w))
      OBVIOUS
    <3>1. Head(w).kind # "close" /\ Head(w) = w[1]
      BY <1>3, <1>4, <2>1, NotClosingTail DEF Dialogue
    <3>2. CASE Head(w).kind = "open"
      BY <1>1, <3>2, ServedStay DEF Admitted
    <3>3. CASE p \in session.ports
      <4>1. p \in Kept(p).ports
        BY <1>1, <3>3, ServedStay DEF Expired
      <4> QED
        BY <1>1, <3>1, <4>1, ServedStay DEF Admitted
    <3>4. CASE Head(w).kind # "open" /\ \E i \in 1 .. Len(w) : w[i].kind = "open"
      <4>1. PICK i \in 1 .. Len(w) : w[i].kind = "open"
        BY <3>4
      <4>2. i # 1
        BY <3>1, <3>4, <4>1
      <4>3. i - 1 \in 1 .. Len(Tail(w)) /\ Tail(w)[i - 1] = w[i]
        BY <1>3, <1>4, <2>1, <4>2
      <4> QED
        BY <4>1, <4>3 DEF Admitted
    <3> QED
      BY <3>2, <3>3, <3>4 DEF Admitted
  <2> HIDE DEF l, w
  <2> QED
    BY <1>1, <1>2, <1>4, <2>1, <2>2, <2>3, <2>4 DEF Leased, l, w
<1>5. CASE q # p
  <2>1. toWorker'[q] = toWorker[q] /\ portSeen'[q] = portSeen[q]
    BY <1>1, <1>5, ServedOK DEF LinkInv, TypeOK
  <2>2. link[q].state = "open" /\ link[q].window = "attentive" /\ q \in session.ports
        => q \in session'.ports
    <3> SUFFICES ASSUME link[q].state = "open", link[q].window = "attentive", q \in session.ports
                 PROVE  q \in session'.ports
      OBVIOUS
    <3>1. q \notin Expired(p)
      BY NotExpired
    <3> QED
      BY <1>1, <1>5, <3>1, ServedStay
  <2> QED
    BY <1>1, <1>2, <2>1, <2>2 DEF Leased, Admitted
<1> QED
  BY <1>4, <1>5

LEMMA MovesLease ==
  ASSUME LeaseInv, NEW p \in Ports, NEW l, NEW j, NEW w, NEW t, Moves(p, l, j, w, t),
         Leased(p, session, l, w, portSeen[p])
  PROVE  \A q \in Ports : Leased(q, session', link'[q], toWorker'[q], portSeen'[q])
BY DEF LeaseInv, Moves, workerVars

\* A window that closes, or whose connection is gone, needs no lease.
LEMMA LeaseOver ==
  ASSUME NEW p, NEW s, NEW l, NEW w, NEW seen, l.state \in {"closing", "closed"}
  PROVE  Leased(p, s, l, w, seen)
BY DEF Leased

LEMMA LeasedSettled ==
  ASSUME NEW p, NEW s, NEW l \in Link, NEW j \in JoinState, NEW w \in Seq(Request),
         NEW t \in Seq(Msg), NEW seen, Dialogue(l, j, w, t), l.state # "closed", t # <<>>,
         Head(t).kind # "op", Leased(p, s, l, w, seen)
  PROVE  Leased(p, s, Settled(l), w, seen)
<1>1. Owing(Settled(l), w, Tail(t)) /\ Tail(t) \in Seq(Msg) /\ Settled(l).state = l.state
  BY AnswerHandled
<1>2. Settled(l).window = l.window /\ Settled(l).beat = l.beat
  BY DEF Settled, Link
<1>3. l.pending # <<>>
  <2>1. Owed(Len(l.pending) - Len(w), t)
    BY DEF Dialogue, Owing
  <2>2. Len(l.pending) \in Nat /\ Len(w) \in Nat
    BY DEF Link
  <2>3. Len(l.pending) - Len(w) \in Int
    BY <2>2
  <2>4. Len(l.pending) - Len(w) >= 1
    BY <2>1, <2>3, OwedTail
  <2>5. Len(l.pending) >= 1
    BY <2>2, <2>4
  <2> QED
    BY <2>5
<1>4. l.state # "none"
  BY DEF Dialogue
<1>5. Timely(l, w, seen) => Timely(Settled(l), w, seen)
  BY <1>1, <1>2, <1>3, SettledTimely
<1> QED
  BY <1>1, <1>2, <1>4, <1>5 DEF Leased

LEMMA LeasedAsked ==
  ASSUME NEW p, NEW s, NEW l \in Link, NEW w \in Seq(Request), NEW t \in Seq(Msg),
         NEW seen \in Nat, Owing(l, w, t), NEW kind \in Kinds, NEW m,
         NEW k, k.pending = Asked(l, kind).pending, k.state = l.state, k.window = l.window,
         l.state # "none", Leased(p, s, l, w, seen)
  PROVE  Leased(p, s, k, Append(w, m), seen)
<1>1. Timely(l, w, seen) => Timely(k, Append(w, m), seen)
  BY AskedTimely
<1>2. Admitted(p, s, w) => Admitted(p, s, Append(w, m))
  <2>1. \A i \in 1 .. Len(w) : i \in 1 .. Len(Append(w, m)) /\ Append(w, m)[i] = w[i]
    OBVIOUS
  <2> QED
    BY <2>1 DEF Admitted
<1> QED
  BY <1>1, <1>2 DEF Leased

LEMMA WindowKeepsLeases ==
  ASSUME LeaseInv, NEW p \in Ports, Window(p) \/ User(p)
  PROVE  \A q \in Ports : Leased(q, session', link'[q], toWorker'[q], portSeen'[q])
<1> DEFINE l == link[p]  j == join[p]  w == toWorker[p]  t == toPort[p]  s == session
           seen == portSeen[p]
<1>1. /\ l \in Link /\ j \in JoinState /\ w \in Seq(Request) /\ t \in Seq(Msg)
      /\ Dialogue(l, j, w, t) /\ AreFunctions
  BY PortTypes DEF LeaseInv
<1>2. Leased(p, s, l, w, seen) /\ seen \in Nat
  BY LinkAssumption DEF LeaseInv, LinkInv, TypeOK
<1>3. ASSUME NEW kind \in Kinds, Receiving(p, kind)
      PROVE  /\ Leased(p, s, Settled(l), w, seen) /\ Settled(l) \in Link
             /\ Settled(l).window = l.window /\ Settled(l).state = l.state /\ l.state # "none"
             /\ Owing(Settled(l), w, Tail(t)) /\ Tail(t) \in Seq(Msg)
  <2>1. t # <<>> /\ l.state # "closed" /\ Head(t).kind # "op" /\ l.state # "none"
    BY <1>3 DEF Receiving, Message, Listens, Kinds
  <2>2. Leased(p, s, Settled(l), w, seen)
    BY <1>1, <1>2, <2>1, LeasedSettled
  <2>3. Settled(l).window = l.window
    BY <1>1 DEF Settled, Link
  <2> QED
    BY <1>1, <2>1, <2>2, <2>3, AnswerHandled
<1>4. CASE EventArrives(p) \/ NothingToBring(p) \/ Join(p) \/ \E d \in Docs : LocalEdit(p, d)
  <2>1. \E i, u : Moves(p, l, i, w, u)
    BY <1>1, <1>4, EventArrivesMoves, NothingToBringMoves, JoinMoves, LocalEditMoves
  <2> QED
    BY <1>2, <2>1, MovesLease
<1>5. CASE \/ HeartbeatAnswered(p) \/ PostAnswered(p) \/ OpenAnswered(p)
           \/ Accepted(p, "adopt") \/ Accepted(p, "replace")
           \/ NothingToReplace(p) \/ AdoptThrows(p) \/ ReplaceThrows(p)
  <2>1. \E i : Moves(p, Settled(l), i, w, Tail(t))
    BY <1>1, <1>5, HeartbeatMoves, PostAnsweredMoves, OpenAnsweredMoves, AcceptedMoves,
       NothingToReplaceMoves, ThrowsMoves
  <2>2. \E kind \in Kinds : Receiving(p, kind)
    BY <1>5 DEF HeartbeatAnswered, PostAnswered, OpenAnswered, Accepted, NothingToReplace,
         AdoptThrows, ReplaceThrows, Answered, Kinds
  <2>3. Leased(p, s, Settled(l), w, seen)
    BY <1>3, <2>2
  <2> QED
    BY <2>1, <2>3, MovesLease
<1>6. CASE AdoptConflicts(p) \/ CloseAnswered(p) \/ TimeOut(p)
  <2>1. PICK k, i, v, u : Moves(p, k, i, v, u) /\ k \in {Closing(Settled(l)), Disposed(l)}
    BY <1>1, <1>6, AdoptConflictsMoves, CloseAnsweredMoves, TimeOutMoves
  <2>2. Closing(Settled(l)).state = "closing" \/ k = Disposed(l)
    <3>1. CASE AdoptConflicts(p)
      <4>1. Settled(l) \in Link
        BY <1>3, <3>1 DEF AdoptConflicts, Kinds
      <4> QED
        BY <1>1, <4>1, LinkShapes
    <3>2. CASE CloseAnswered(p) \/ TimeOut(p)
      <4>1. link'[p] = Disposed(l)
        BY <1>1, <3>2, CloseAnsweredMoves, TimeOutMoves DEF Moves
      <4> QED
        BY <2>1, <4>1 DEF Moves
    <3> QED
      BY <1>6, <3>1, <3>2
  <2>3. k.state \in {"closing", "closed"}
    <3>1. Disposed(l).state = "closed"
      BY <1>1, LinkShapes
    <3> QED
      BY <2>1, <2>2, <3>1
  <2> QED
    BY <2>1, <2>3, LeaseOver, MovesLease
<1>7. CASE ReplaceIsStale(p) \/ ReplaceAgain(p)
  <2>1. PICK kind, m :
          /\ kind \in {"fetch-snapshot", "replace"}
          /\ \E i : Moves(p, Asked(Settled(l), kind), i, Append(w, m), Tail(t))
    <3>1. CASE ReplaceIsStale(p)
      <4>1. \E m, i : Moves(p, Asked(Settled(l), "fetch-snapshot"), i, Append(w, m), Tail(t))
        BY <1>1, <3>1, ReplaceIsStaleMoves
      <4> QED
        BY <4>1
    <3>2. CASE ReplaceAgain(p)
      <4>1. \E m, i : Moves(p, Asked(Settled(l), "replace"), i, Append(w, m), Tail(t))
        BY <1>1, <3>2, ReplaceAgainMoves
      <4> QED
        BY <4>1
    <3> QED
      BY <1>7, <3>1, <3>2
  <2>2. /\ Leased(p, s, Settled(l), w, seen) /\ Settled(l) \in Link
        /\ Settled(l).state = l.state /\ l.state # "none"
        /\ Owing(Settled(l), w, Tail(t)) /\ Tail(t) \in Seq(Msg)
    BY <1>3, <1>7 DEF ReplaceIsStale, ReplaceAgain, Kinds
  <2> DEFINE k == Asked(Settled(l), kind)
  <2>3. kind \in Kinds
    BY <2>1 DEF Kinds
  <2>4. k.state = Settled(l).state /\ k.window = Settled(l).window
    BY <2>2 DEF Asked, Link
  <2>5. Leased(p, s, k, Append(w, m), seen)
    BY <1>1, <1>2, <2>2, <2>3, <2>4, LeasedAsked
  <2> QED
    BY <2>1, <2>5, MovesLease
<1>8. CASE Beat(p) \/ BringLocal(p) \/ \E d \in Docs : Post(p, d)
  <2>1. PICK kind, m, k :
          /\ kind \in {"heartbeat", "adopt", "replace", "post"}
          /\ \E i : Moves(p, k, i, Append(w, m), t)
          /\ k.pending = Asked(l, kind).pending /\ k.state = l.state /\ k.window = l.window
    <3>1. CASE Beat(p)
      <4> DEFINE k == [Asked(l, "heartbeat") EXCEPT !.beat = 0]
      <4>1. \E m, i : Moves(p, k, i, Append(w, m), t)
        BY <1>1, <3>1, BeatMoves
      <4>2. k.pending = Asked(l, "heartbeat").pending /\ k.state = l.state /\ k.window = l.window
        BY <1>1 DEF Asked, Link
      <4> HIDE DEF k
      <4> QED
        BY <4>1, <4>2
    <3>2. CASE BringLocal(p) \/ \E d \in Docs : Post(p, d)
      <4>1. PICK kind \in {"adopt", "replace", "post"} :
              \E m, i : Moves(p, Asked(l, kind), i, Append(w, m), t)
        BY <1>1, <3>2, BringLocalMoves, PostMoves
      <4>2. Asked(l, kind).state = l.state /\ Asked(l, kind).window = l.window
        BY <1>1 DEF Asked, Link
      <4> QED
        BY <4>1, <4>2
    <3> QED
      BY <1>8, <3>1, <3>2
  <2>2. l.state # "none" /\ Owing(l, w, t)
    <3>1. l.state = "open"
      BY <1>1, <1>8 DEF Beat, BringLocal, Post, Dialogue
    <3> QED
      BY <1>1, <3>1 DEF Dialogue
  <2>3. kind \in Kinds
    BY <2>1 DEF Kinds
  <2>4. Leased(p, s, k, Append(w, m), seen)
    BY <1>1, <1>2, <2>1, <2>2, <2>3, LeasedAsked
  <2> QED
    BY <2>1, <2>4, MovesLease
<1>9. CASE \E d \in Docs : Open(p, d)
  <2>1. PICK d \in Docs : Open(p, d)
    BY <1>9
  <2> DEFINE k == [Asked(l, "open") EXCEPT !.state = "open"]
             m == Request1("open", 0, d)
  <2>2. PICK i : Moves(p, k, i, Append(w, m), t)
    BY <1>1, <2>1, OpenMoves
  <2>3. l.state = "none" /\ w = <<>>
    BY <1>1, <2>1 DEF Open, Dialogue
  <2>4. l.pending = <<>> /\ seen = 0
    BY <1>2, <2>3 DEF Leased
  <2>5. k.state = "open" /\ k.pending = Asked(l, "open").pending
    BY <1>1 DEF Asked, Link
  <2>6. Len(Append(w, m)) = 1 /\ Append(w, m)[1] = m /\ Append(w, m) # <<>> /\ m.kind = "open"
    BY <2>3 DEF Request1
  <2>7. Admitted(p, s, Append(w, m))
    BY <2>6 DEF Admitted
  <2>8. Timely(k, Append(w, m), seen)
    <3>1. k.pending = <<[kind |-> "open", age |-> 0]>>
      <4>1. Asked(l, "open").pending = Append(l.pending, [kind |-> "open", age |-> 0])
        BY <1>1 DEF Asked, Link
      <4> QED
        BY <2>4, <2>5, <4>1
    <3>2. Len(k.pending) - Len(Append(w, m)) + 1 = 1 /\ k.pending[1].age = 0
      <4> HIDE DEF k, m
      <4>1. Len(k.pending) = 1 /\ k.pending[1].age = 0
        BY <3>1
      <4> QED
        BY <2>6, <4>1
    <3>3. 0 <= 0 + Heartbeat
      BY LinkAssumption
    <3> QED
      BY <2>4, <2>6, <3>2, <3>3 DEF Timely
  <2> HIDE DEF k, m
  <2>9. Leased(p, s, k, Append(w, m), seen)
    BY <2>5, <2>7, <2>8 DEF Leased
  <2> QED
    BY <2>2, <2>9, MovesLease
<1>10. CASE Freeze(p) \/ Resume(p)
  <2>1. PICK window \in {"frozen", "resumed"} : Moves(p, [l EXCEPT !.window = window], j, w, t)
    BY <1>1, <1>10, FreezeMoves
  <2> DEFINE k == [l EXCEPT !.window = window]
  <2>2. k.state = l.state /\ k.window = window /\ k.pending = l.pending /\ k.beat = l.beat
    BY <1>1 DEF Link
  <2>3. Moves(p, k, j, w, t)
    BY <2>1
  <2> HIDE DEF k
  <2>4. Leased(p, s, k, w, seen)
    BY <1>2, <2>2 DEF Leased
  <2> QED
    BY <2>3, <2>4, MovesLease
<1>11. CASE Close(p)
  <2>1. CASE l.state = "open"
    <3>1. PICK i, v : Moves(p, Closing(l), i, v, t)
      BY <1>1, <1>11, <2>1, CloseMoves
    <3>2. Closing(l).state = "closing"
      BY <1>1, LinkShapes
    <3> QED
      BY <3>1, <3>2, LeaseOver, MovesLease
  <2>2. CASE l.state # "open"
    <3>1. PICK i : Moves(p, l, i, w, t)
      BY <1>1, <1>11, <2>2, CloseMoves
    <3> QED
      BY <1>2, <3>1, MovesLease
  <2> QED
    BY <2>1, <2>2
<1> QED
  BY <1>4, <1>5, <1>6, <1>7, <1>8, <1>9, <1>10, <1>11 DEF Window, Handle, User

LEMMA TickKeepsLeases ==
  ASSUME LeaseInv, Tick, NEW p \in Ports
  PROVE  Leased(p, session', link'[p], toWorker'[p], portSeen'[p])
<1> DEFINE l == link[p]  w == toWorker[p]  seen == portSeen[p]  later == portSeen'[p]
<1>1. /\ l \in Link /\ w \in Seq(Request) /\ toPort[p] \in Seq(Msg)
      /\ Dialogue(l, join[p], w, toPort[p])
  BY PortTypes DEF LeaseInv
<1>2. Leased(p, session, l, w, seen)
  BY DEF LeaseInv
<1>3. link'[p] = Aged(l) /\ session' = session /\ toWorker'[p] = w
  BY DEF Tick
<1>4. seen \in 0 .. Lease + 1 /\ Lease + 1 \in Nat /\ seen \in Nat
  BY LinkAssumption DEF LeaseInv, LinkInv, TypeOK
<1>5. later = IF p \in portSessions THEN Older(seen, Lease + 1) ELSE 0
  BY DEF Tick
<1>6. later \in Nat /\ later <= seen + 1
  <2>1. Older(seen, Lease + 1) \in Nat /\ Older(seen, Lease + 1) <= seen + 1
    BY <1>4 DEF Older
  <2> HIDE DEF seen, later
  <2> QED
    BY <1>4, <1>5, <2>1
<1>7. Aged(l).state = l.state /\ Aged(l).window = l.window /\ Len(Aged(l).pending) = Len(l.pending)
      /\ Aged(l) \in Link
  BY <1>1, AgedOK
<1>8. CASE l.state = "none"
  <2>1. p \notin portSessions
    BY <1>1, <1>8 DEF LeaseInv, LinkInv, LifeInv, Dialogue
  <2>2. later = 0
    BY <1>5, <2>1
  <2>3. Aged(l).beat = 0
    BY <1>1, <1>8, AgedOK
  <2>4. Aged(l).pending = <<>>
    <3>1. Len(Aged(l).pending) = 0
      BY <1>2, <1>7, <1>8 DEF Leased
    <3>2. Aged(l).pending \in Seq([kind : Kinds, age : 0 .. Timeout])
      BY <1>7 DEF Link
    <3> QED
      BY <3>1, <3>2
  <2> QED
    BY <1>3, <1>7, <1>8, <2>2, <2>3, <2>4 DEF Leased
<1>9. CASE l.state = "open" /\ l.window = "attentive"
  <2>1. Admitted(p, session, w) /\ Timely(l, w, seen)
    BY <1>2, <1>9 DEF Leased
  <2>2. l.beat < Heartbeat /\ \A i \in DOMAIN l.pending : l.pending[i].age < Timeout
    <3>1. OnTime(p)
      BY DEF Tick
    <3> QED
      BY <1>9, <3>1 DEF OnTime
  <2>3. Owing(l, w, toPort[p])
    BY <1>1, <1>9 DEF Dialogue
  <2> HIDE DEF l, w, seen, later
  <2>4. Timely(Aged(l), w, later)
    BY <1>1, <1>4, <1>6, <1>9, <2>1, <2>2, <2>3, AgedTimely
  <2> QED
    BY <1>3, <1>7, <1>9, <2>1, <2>4 DEF Leased, later
<1>10. CASE l.state # "none" /\ ~(l.state = "open" /\ l.window = "attentive")
  BY <1>3, <1>7, <1>10 DEF Leased
<1> QED
  BY <1>8, <1>9, <1>10

LEMMA LeaseStarts ==
  ASSUME Init
  PROVE  LeaseInv
BY LinkStarts DEF Init, LeaseInv, Leased

LEMMA LeaseStep ==
  ASSUME LeaseInv, [Next]_vars
  PROVE  LeaseInv'
<1>1. LinkInv'
  BY LinkStep DEF LeaseInv
<1> SUFFICES \A p \in Ports : Leased(p, session', link'[p], toWorker'[p], portSeen'[p])
  BY <1>1 DEF LeaseInv
<1>2. CASE UNCHANGED vars
  BY <1>2 DEF vars, workerVars, LeaseInv
<1>3. CASE \E p \in Ports : Serve(p)
  BY <1>3, ServeKeepsLeases
<1>4. CASE \E p \in Ports : Window(p) \/ User(p)
  BY <1>4, WindowKeepsLeases
<1>5. CASE Tick
  BY <1>5, TickKeepsLeases
<1> QED
  BY <1>2, <1>3, <1>4, <1>5 DEF Next

\* Once a window is past its open, the open has been served.
LEMMA TalkingIsIn ==
  ASSUME LeaseInv, NEW p \in Ports, Talks(p), link[p].window = "attentive"
  PROVE  p \in session.ports
<1>1. InTurn(join[p], toWorker[p], toPort[p]) /\ join[p].stage # "opening"
  BY DEF LeaseInv, LinkInv, Dialogue, Talks
<1>2. \A i \in 1 .. Len(toWorker[p]) : toWorker[p][i].kind # "open"
  <2> SUFFICES ASSUME NEW i \in 1 .. Len(toWorker[p]), toWorker[p][i].kind = "open"
               PROVE  FALSE
    OBVIOUS
  <2>1. "open" = Awaited(join[p].stage)
    BY <1>1 DEF InTurn, Expected, JoinKinds
  <2> QED
    BY <1>1, <2>1 DEF Awaited
<1>3. Admitted(p, session, toWorker[p])
  BY DEF LeaseInv, Leased, Talks
<1> QED
  BY <1>2, <1>3 DEF Admitted

\* Under the relation Heartbeat + Timeout <= Lease alone, a window that was
\* never frozen is not dropped by pruneExpiredPorts, at whatever speed the
\* worker serves.
THEOREM AttentiveStays == Spec => []AttentiveKeepsLease
<1>1. LeaseInv => AttentiveKeepsLease
  BY TalkingIsIn DEF AttentiveKeepsLease
<1> QED
  BY <1>1, LeaseStarts, LeaseStep, PTL DEF Spec

\* Only an accepted op makes the log of a session longer.
LEMMA OnlyAcceptsGrow ==
  ASSUME LinkInv, NEW p \in Ports, Serve(p),
         session'.life = session.life, Len(session'.ops) = Len(session.ops) + 1
  PROVE  AcceptOp(p)
<1>1. IsSession(Kept(p)) /\ LivesAgree(Kept(p), opened) /\ Kept(p).life = session.life
      /\ (Kept(p).ports # {} => Kept(p).ops = session.ops)
  BY KeptLives DEF LinkInv
<1>2. Len(session.ops) \in Nat /\ session.life \in Nat /\ Len(<<>>) = 0
  BY DEF LinkInv, TypeOK
<1>3. Kept(p).ports = {} => Kept(p).ops = <<>>
  BY <1>1 DEF LivesAgree
<1>4. session' # Kept(p)
  BY <1>1, <1>2, <1>3
<1>5. ~ServeClose(p)
  <2> SUFFICES ASSUME ServeClose(p)
               PROVE  FALSE
    OBVIOUS
  <2>1. session' = Disconnected(Kept(p), {p})
    BY DEF ServeClose
  <2>2. /\ LivesAgree(session', opened)
        /\ session'.ports # {} => session'.ops = Kept(p).ops
    <3>1. IsSession(Kept(p)) /\ LivesAgree(Kept(p), opened)
      BY <1>1
    <3>2. LivesAgree(Disconnected(Kept(p), {p}), opened)
      BY <3>1, DisconnectedLives, Zenon
    <3>3. session'.ports # {} => session'.ops = Kept(p).ops
      BY <2>1, <3>1 DEF Disconnected, Forgotten, IsSession
    <3> QED
      BY <2>1, <3>2, <3>3
  <2>3. session'.ports = {} => session'.ops = <<>>
    BY <2>2 DEF LivesAgree
  <2> QED
    BY <1>1, <1>2, <1>3, <2>2, <2>3
<1>6. ~ServeOpen(p)
  <2> SUFFICES ASSUME ServeOpen(p)
               PROVE  FALSE
    OBVIOUS
  <2> DEFINE s == IF Kept(p).ports = {} THEN Fresh(session, Head(toWorker[p]).doc) ELSE Kept(p)
  <2>1. session' = [s EXCEPT !.ports = s.ports \cup {p}]
    BY DEF ServeOpen
  <2>2. s.life = session.life + 1 \/ s.ops = session.ops
    BY <1>1 DEF Fresh
  <2>3. session'.life = s.life /\ session'.ops = s.ops
    <3>1. CASE Kept(p).ports = {}
      BY <2>1, <3>1 DEF Fresh
    <3>2. CASE Kept(p).ports # {}
      BY <1>1, <2>1, <3>2 DEF IsSession
    <3> QED
      BY <3>1, <3>2
  <2> HIDE DEF s
  <2> QED
    BY <1>2, <2>2, <2>3
<1> QED
  BY <1>4, <1>5, <1>6 DEF Serve, RefuseUnknown, ServeRead, ConflictOp, StaleOp, Prune

\* adoptExclusive is refused beside a window that runs and has joined: such a
\* window holds its lease, and pruning before the request did not take it.
THEOREM AdoptsAlone == Spec => AdoptionExcludesPeers
<1>1. ASSUME LeaseInv, [Next]_vars, NEW p \in Ports, NEW q \in Ports, p # q, AdoptedNow(p),
             Talks(q), link[q].window = "attentive"
      PROVE  FALSE
  <2>1. session'.life = session.life /\ Len(session'.ops) = Len(session.ops) + 1
        /\ session'.ops[Len(session'.ops)].from = p /\ session'.ops[Len(session'.ops)].kind = "adopt"
    BY <1>1 DEF AdoptedNow
  <2>2. Len(session.ops) \in Nat
    BY <1>1 DEF LeaseInv, LinkInv, TypeOK
  <2>3. session' # session
    BY <2>1, <2>2
  <2>4. PICK r \in Ports : Serve(r)
    <3>1. ~Tick /\ ~UNCHANGED vars
      BY <2>3 DEF Tick, vars, workerVars
    <3>2. ASSUME NEW r \in Ports, Window(r) \/ User(r)
          PROVE  session' = session
      BY <3>2 DEF Window, User, Handle, TimeOut, Beat, workerVars, EventArrives, HeartbeatAnswered,
         OpenAnswered, PostAnswered, Accepted, AdoptConflicts, AdoptThrows, ReplaceIsStale,
         ReplaceAgain, NothingToReplace, ReplaceThrows, CloseAnswered, BringLocal, NothingToBring,
         Join, Close, Freeze, Resume, Open, LocalEdit, Post, Answered, Receiving
    <3> QED
      BY <1>1, <2>3, <3>1, <3>2 DEF Next
  <2>5. AcceptOp(r) /\ LinkInv
    BY <1>1, <2>1, <2>4, OnlyAcceptsGrow DEF LeaseInv
  <2> DEFINE op == [from |-> r, kind |-> Head(toWorker[r]).kind, doc |-> Head(toWorker[r]).doc]
             k == Kept(r)
  <2>6. k.ops \in Seq(Op) /\ session' = [k EXCEPT !.ops = Append(k.ops, op)] /\ SessionOK(k)
    BY <2>5, KeptOK DEF AcceptOp, SessionOK
  <2>7. session'.ops = Append(k.ops, op)
    BY <2>6 DEF SessionOK
  <2>8. session'.ops[Len(session'.ops)] = op
    BY <2>6, <2>7
  <2>9. r = p /\ Head(toWorker[p]).kind = "adopt"
    BY <2>1, <2>8
  <2>10. Kept(p).ports = {p}
    BY <2>5, <2>9 DEF AcceptOp, Conflicts
  <2>11. q \in session.ports
    BY <1>1, TalkingIsIn
  <2>12. q \notin Expired(p)
    BY <1>1, NotExpired DEF Talks
  <2>13. q \in Kept(p).ports
    BY <2>4, <2>5, <2>9, <2>11, <2>12, ServedStay
  <2> QED
    BY <1>1, <2>10, <2>13
<1>2. LeaseInv /\ [Next]_vars =>
        \A p, q \in Ports :
          p # q /\ AdoptedNow(p) => ~(Talks(q) /\ link[q].window = "attentive")
  BY <1>1
<1> QED
  BY <1>2, LeaseStarts, LeaseStep, PTL DEF Spec, AdoptionExcludesPeers

-----------------------------------------------------------------------------
(* What a window is sent                                                    *)

\* m carries an op, or a snapshot.
Carries(m) == m.result \in {"op", "accepted"}
Snapshot(m) == m.kind \in {"open", "fetch-snapshot"} /\ m.result \in {"opened", "ok"}

\* Kinds and results go together as the worker makes them.
Shaped(m) ==
  /\ m.kind = "open" => m.result = "opened"
  /\ m.result = "op" <=> m.kind = "op"
  /\ m.result = "accepted" => m.kind \in Ops

\* The stages at which a window holds a document.
Holding == {"deciding", "adopting", "replacing", "refetching", "joined"}

\* A port is opened by its first request, before which it is sent nothing, and
\* posts only once it has joined.
Tidy(p, s, j, w, t) ==
  /\ \A i \in 1 .. Len(t) : Shaped(t[i])
  /\ \A i \in 1 .. Len(j.buffer) : j.buffer[i].kind = "op" /\ j.buffer[i].result = "op"
  /\ j.stage \notin Joins => j.buffer = <<>>
  /\ j.stage \in Joins =>
       /\ \A i \in 1 .. Len(w) : w[i].kind # "post"
       /\ \A i \in 1 .. Len(t) : t[i].kind # "post"
  /\ \A i \in 1 .. Len(w) : w[i].kind = "open" =>
       /\ i = 1 /\ p \notin s.ports /\ t = <<>> /\ j.buffer = <<>>
       /\ j.stage \in {"opening", "failed"}

\* m shows the document of s at a revision it has.
Fits(s, m) ==
  Carries(m) \/ Snapshot(m) => m.rev <= Len(s.ops) /\ m.doc = DocAt(s, m.rev)

\* A port that was opened in the life of s is shown the documents of s.
Shown(s, o, j, t) ==
  o = s.life /\ s.ports # {} =>
    /\ \A i \in 1 .. Len(t) : Fits(s, t[i])
    /\ \A i \in 1 .. Len(j.buffer) : Fits(s, j.buffer[i])
    /\ j.stage \in Holding => j.rev <= Len(s.ops) /\ j.doc = DocAt(s, j.rev)

\* After position k of u, the ops from r + 1 to n are carried.
Covers(u, k, r, n) ==
  \A x \in r + 1 .. n : \E i \in k + 1 .. Len(u) : Carries(u[i]) /\ u[i].rev = x

\* In a line of messages ops are in order, and those after a snapshot are the
\* ones that it lacks.
Orderly(u, n) ==
  /\ \A i, k \in 1 .. Len(u) : i < k /\ Carries(u[i]) /\ Carries(u[k]) => u[i].rev < u[k].rev
  /\ \A i \in 1 .. Len(u) : Snapshot(u[i]) =>
       /\ Covers(u, i, u[i].rev, n)
       /\ \A k \in 1 .. Len(u) : Carries(u[k]) =>
            (k < i => u[k].rev <= u[i].rev) /\ (i < k => u[i].rev < u[k].rev)

\* What waits for the session and what is on its way continue what is held.
Continues(j, t, n) ==
  /\ Orderly(j.buffer \o t, n)
  /\ j.stage \in Holding =>
       /\ Covers(j.buffer \o t, 0, j.rev, n)
       /\ \A i \in 1 .. Len(t) : Carries(t[i]) => j.rev < t[i].rev
  /\ j.stage = "deciding" => \A i \in 1 .. Len(j.buffer) : j.buffer[i].rev <= j.rev

\* Port p is on the worker's list and its window still listens.
Served(p, s, l, j) == p \in s.ports /\ l.state = "open" /\ j.stage \in Holding \cup {"opening"}

\* Port p follows the session of its life.
Follows(p, s, o, l, j, w, t) ==
  /\ o <= s.life
  /\ Tidy(p, s, j, w, t) /\ Shown(s, o, j, t)
  /\ Served(p, s, l, j) => Continues(j, t, Len(s.ops))

\* Every port does, whatever was frozen, pruned or forgotten.
ShareInv ==
  /\ LinkInv
  /\ \A p \in Ports : Follows(p, session, opened[p], link[p], join[p], toWorker[p], toPort[p])

-----------------------------------------------------------------------------
(* Lines of messages                                                        *)

\* A line is what has been buffered, then what is on its way.
LEMMA InLine ==
  ASSUME NEW b \in Seq(Msg), NEW t \in Seq(Msg)
  PROVE  /\ b \o t \in Seq(Msg) /\ Len(b \o t) = Len(b) + Len(t)
         /\ \A i \in 1 .. Len(b) : i \in 1 .. Len(b \o t) /\ (b \o t)[i] = b[i]
         /\ \A i \in 1 .. Len(t) : Len(b) + i \in 1 .. Len(b \o t) /\ (b \o t)[Len(b) + i] = t[i]
         /\ \A i \in 1 .. Len(b \o t) :
              \/ i \in 1 .. Len(b)
              \/ i - Len(b) \in 1 .. Len(t) /\ (b \o t)[i] = t[i - Len(b)]
OBVIOUS

\* The head of t is taken out.
LEMMA Popped ==
  ASSUME NEW b \in Seq(Msg), NEW t \in Seq(Msg), t # <<>>
  PROVE  /\ b \o Tail(t) \in Seq(Msg) /\ Tail(t) \in Seq(Msg) /\ Head(t) \in Msg
         /\ Len(b) + 1 \in 1 .. Len(b \o t) /\ (b \o t)[Len(b) + 1] = Head(t)
         /\ \A i \in 1 .. Len(b \o Tail(t)) :
              \/ i <= Len(b) /\ i \in 1 .. Len(b \o t) /\ (b \o Tail(t))[i] = (b \o t)[i]
              \/ i > Len(b) /\ i + 1 \in 1 .. Len(b \o t) /\ (b \o Tail(t))[i] = (b \o t)[i + 1]
         /\ \A i \in 1 .. Len(b \o t) :
              \/ i = Len(b) + 1
              \/ i <= Len(b) /\ i \in 1 .. Len(b \o Tail(t)) /\ (b \o Tail(t))[i] = (b \o t)[i]
              \/ i > Len(b) + 1 /\ i - 1 \in 1 .. Len(b \o Tail(t)) /\ (b \o Tail(t))[i - 1] = (b \o t)[i]
<1> DEFINE x == Tail(t)
<1>1. /\ x \in Seq(Msg) /\ Len(x) = Len(t) - 1 /\ Head(t) = t[1] /\ 1 \in 1 .. Len(t) /\ t[1] \in Msg
      /\ Len(t) \in Nat /\ Len(b) \in Nat
      /\ \A i \in 1 .. Len(x) : i + 1 \in 1 .. Len(t) /\ x[i] = t[i + 1]
  OBVIOUS
<1> HIDE DEF x
<1>2. /\ \A i \in 1 .. Len(b \o x) :
           \/ i \in 1 .. Len(b) /\ (b \o x)[i] = b[i]
           \/ i - Len(b) \in 1 .. Len(x) /\ (b \o x)[i] = x[i - Len(b)]
      /\ b \o x \in Seq(Msg) /\ Len(b \o x) = Len(b) + Len(x)
      /\ \A i \in 1 .. Len(b) : i \in 1 .. Len(b \o x) /\ (b \o x)[i] = b[i]
  <2>1. x \in Seq(Msg)
    BY <1>1
  <2>2. /\ b \o x \in Seq(Msg) /\ Len(b \o x) = Len(b) + Len(x)
        /\ \A i \in 1 .. Len(b) : i \in 1 .. Len(b \o x) /\ (b \o x)[i] = b[i]
    BY <2>1, InLine
  <2>3. \A i \in 1 .. Len(x) : (b \o x)[Len(b) + i] = x[i]
    BY <2>1, InLine
  <2> QED
    BY <1>1, <2>1, <2>2, <2>3
<1>3. \A i \in 1 .. Len(b \o x) :
              \/ i <= Len(b) /\ i \in 1 .. Len(b \o t) /\ (b \o x)[i] = (b \o t)[i]
              \/ i > Len(b) /\ i + 1 \in 1 .. Len(b \o t) /\ (b \o x)[i] = (b \o t)[i + 1]
  BY <1>1, <1>2
<1>4. \A i \in 1 .. Len(b \o t) :
              \/ i = Len(b) + 1
              \/ i <= Len(b) /\ i \in 1 .. Len(b \o x) /\ (b \o x)[i] = (b \o t)[i]
              \/ i > Len(b) + 1 /\ i - 1 \in 1 .. Len(b \o x) /\ (b \o x)[i - 1] = (b \o t)[i]
  <2> TAKE i \in 1 .. Len(b \o t)
  <2>1. \/ i \in 1 .. Len(b) /\ (b \o t)[i] = b[i]
        \/ i - Len(b) \in 1 .. Len(t) /\ (b \o t)[i] = t[i - Len(b)]
    BY InLine
  <2>2. CASE i > Len(b) + 1
    <3>1. /\ (i - Len(b)) - 1 \in 1 .. Len(x) /\ ((i - Len(b)) - 1) + 1 = i - Len(b)
          /\ Len(b) + ((i - Len(b)) - 1) = i - 1
          /\ (b \o t)[i] = t[i - Len(b)]
      <4>1. i \in Nat /\ ~(i \in 1 .. Len(b))
        BY <1>1, <2>2, InLine
      <4>2. i - Len(b) \in 1 .. Len(t) /\ (b \o t)[i] = t[i - Len(b)]
        BY <2>1, <4>1
      <4> QED
        BY <1>1, <2>2, <4>1, <4>2
    <3>2. x[(i - Len(b)) - 1] = t[i - Len(b)]
      BY <1>1, <3>1
    <3>3. i - 1 \in 1 .. Len(b \o x) /\ (b \o x)[i - 1] = x[(i - Len(b)) - 1]
      BY <1>1, <3>1, InLine
    <3> QED
      BY <2>2, <3>1, <3>2, <3>3
  <2>3. CASE i <= Len(b)
    BY <1>1, <1>2, <2>1, <2>3
  <2> QED
    BY <1>1, <2>1, <2>2, <2>3
<1>5. Len(b) + 1 \in 1 .. Len(b \o t) /\ (b \o t)[Len(b) + 1] = Head(t)
  BY <1>1
<1> QED
  BY <1>1, <1>2, <1>3, <1>4, <1>5 DEF x

\* A line without its head covers what lies above it.
LEMMA PoppedCovers ==
  ASSUME NEW b \in Seq(Msg), NEW t \in Seq(Msg), t # <<>>, NEW n \in Nat,
         NEW r \in Nat, NEW x \in Nat, r <= x, Covers(b \o t, 0, r, n),
         Carries(Head(t)) => Head(t).rev <= x
  PROVE  Covers(b \o Tail(t), 0, x, n)
<1> DEFINE u == b \o t  v == b \o Tail(t)
<1>1. /\ u[Len(b) + 1] = Head(t) /\ Len(b) \in Nat
      /\ \A i \in 1 .. Len(u) :
           \/ i = Len(b) + 1
           \/ i <= Len(b) /\ i \in 1 .. Len(v) /\ v[i] = u[i]
           \/ i > Len(b) + 1 /\ i - 1 \in 1 .. Len(v) /\ v[i - 1] = u[i]
  BY Popped
<1>2. Covers(u, 0, r, n)
  OBVIOUS
<1> HIDE DEF u, v
<1>3. ASSUME NEW y \in x + 1 .. n PROVE \E i \in 1 .. Len(v) : Carries(v[i]) /\ v[i].rev = y
  <2>1. y \in r + 1 .. n
    BY <1>3
  <2>2. PICK i \in 1 .. Len(u) : Carries(u[i]) /\ u[i].rev = y
    BY <1>2, <2>1 DEF Covers
  <2>3. i # Len(b) + 1
    BY <1>1, <2>2
  <2> QED
    BY <1>1, <2>2, <2>3
<1>4. Covers(v, 0, x, n)
  BY <1>3 DEF Covers
<1> QED
  BY <1>4 DEF v

\* Taking out the head keeps a line in order.
LEMMA PoppedOrder ==
  ASSUME NEW b \in Seq(Msg), NEW t \in Seq(Msg), t # <<>>, NEW n \in Nat, Orderly(b \o t, n),
         \A i \in 1 .. Len(b) : ~Snapshot(b[i])
  PROVE  Orderly(b \o Tail(t), n)
<1> DEFINE u == b \o t  v == b \o Tail(t)  place(i) == IF i <= Len(b) THEN i ELSE i + 1
<1>1. /\ Len(b) \in Nat /\ Len(u) \in Nat /\ Len(v) \in Nat
      /\ \A i \in 1 .. Len(v) : place(i) \in 1 .. Len(u) /\ v[i] = u[place(i)]
      /\ \A i \in 1 .. Len(u) : i > Len(b) + 1 => i - 1 \in 1 .. Len(v) /\ v[i - 1] = u[i]
  BY Popped, SMTT(30)
<1>2. \A i, k \in 1 .. Len(v) : i < k => place(i) < place(k)
  BY <1>1
<1>3. Orderly(u, n) /\ \A i \in 1 .. Len(v) : Snapshot(v[i]) => i > Len(b)
  <2>1. \A i \in 1 .. Len(b) : v[i] = b[i]
    BY Popped, InLine
  <2> HIDE DEF v
  <2> QED
    BY <1>1, <2>1
<1> HIDE DEF u, v
<1>4. \A i, k \in 1 .. Len(v) : i < k /\ Carries(v[i]) /\ Carries(v[k]) => v[i].rev < v[k].rev
  <2> HIDE DEF place
  <2> QED
    BY <1>1, <1>2, <1>3 DEF Orderly
<1>5. ASSUME NEW i \in 1 .. Len(v), Snapshot(v[i])
      PROVE  /\ Covers(v, i, v[i].rev, n)
             /\ \A k \in 1 .. Len(v) : Carries(v[k]) =>
                  (k < i => v[k].rev <= v[i].rev) /\ (i < k => v[i].rev < v[k].rev)
  <2>1. /\ i > Len(b) /\ i + 1 \in 1 .. Len(u) /\ v[i] = u[i + 1]
        /\ place(i) = i + 1
    BY <1>1, <1>3, <1>5
  <2>2. Covers(u, i + 1, u[i + 1].rev, n)
    BY <1>3, <1>5, <2>1 DEF Orderly
  <2>3. Covers(v, i, v[i].rev, n)
    <3> SUFFICES ASSUME NEW y \in v[i].rev + 1 .. n
                 PROVE  \E k \in i + 1 .. Len(v) : Carries(v[k]) /\ v[k].rev = y
      BY DEF Covers
    <3>1. PICK k \in (i + 1) + 1 .. Len(u) : Carries(u[k]) /\ u[k].rev = y
      BY <2>1, <2>2 DEF Covers
    <3>2. k - 1 \in i + 1 .. Len(v) /\ v[k - 1] = u[k]
      <4>1. k \in 1 .. Len(u) /\ k > Len(b) + 1 /\ k > i + 1
        BY <1>1, <2>1
      <4> QED
        BY <1>1, <4>1
    <3> QED
      BY <3>1, <3>2
  <2>4. ASSUME NEW k \in 1 .. Len(v), Carries(v[k])
        PROVE  (k < i => v[k].rev <= v[i].rev) /\ (i < k => v[i].rev < v[k].rev)
    <3>1. /\ k < i => place(k) < i + 1
          /\ i < k => i + 1 < place(k)
      BY <1>1, <2>1
    <3> HIDE DEF place
    <3>2. place(k) \in 1 .. Len(u) /\ v[k] = u[place(k)]
      BY <1>1
    <3> QED
      BY <1>3, <1>5, <2>1, <2>4, <3>1, <3>2 DEF Orderly
  <2> QED
    BY <2>3, <2>4
<1>6. Orderly(v, n)
  <2> HIDE DEF place
  <2> QED
    BY <1>4, <1>5 DEF Orderly
<1> QED
  BY <1>6 DEF v

\* m comes last.
LEMMA Appended ==
  ASSUME NEW u \in Seq(Msg), NEW m \in Msg
  PROVE  /\ Append(u, m) \in Seq(Msg) /\ Len(Append(u, m)) = Len(u) + 1 /\ Len(u) \in Nat
         /\ \A i \in 1 .. Len(u) : Append(u, m)[i] = u[i]
         /\ Append(u, m)[Len(u) + 1] = m
         /\ \A b \in Seq(Msg) : b \o Append(u, m) = Append(b \o u, m)
OBVIOUS

\* The next op, announced or answered, keeps what was covered covered.
LEMMA AppendedCovers ==
  ASSUME NEW u \in Seq(Msg), NEW m \in Msg, NEW n \in Nat, NEW x \in Nat, NEW r \in Nat,
         NEW k \in 0 .. Len(u), Covers(u, k, r, n),
         x = n \/ (x = n + 1 /\ Carries(m) /\ m.rev = x)
  PROVE  Covers(Append(u, m), k, r, x)
<1>1. /\ Len(Append(u, m)) = Len(u) + 1 /\ Len(u) \in Nat
      /\ \A i \in 1 .. Len(u) : Append(u, m)[i] = u[i]
      /\ Append(u, m)[Len(u) + 1] = m
  BY Appended
<1> DEFINE v == Append(u, m)
<1> HIDE DEF v
<1>2. ASSUME NEW y \in r + 1 .. x PROVE \E i \in k + 1 .. Len(v) : Carries(v[i]) /\ v[i].rev = y
  <2>1. CASE y \in r + 1 .. n
    <3>1. PICK i \in k + 1 .. Len(u) : Carries(u[i]) /\ u[i].rev = y
      BY <2>1 DEF Covers
    <3> QED
      BY <1>1, <3>1 DEF v
  <2>2. CASE y \notin r + 1 .. n
    <3>1. y = n + 1 /\ Carries(m) /\ m.rev = y
      BY <1>2, <2>2
    <3> QED
      BY <1>1, <3>1 DEF v
  <2> QED
    BY <2>1, <2>2
<1> QED
  BY <1>2 DEF Covers, v

\* What the worker sends next: no op and no old snapshot, or the next op.
ComesNext(m, n, x) ==
  /\ Snapshot(m) => ~Carries(m) /\ m.rev = n
  /\ IF Carries(m) THEN x = n + 1 /\ m.rev = x ELSE x = n

\* The next op, or a snapshot of the head, keeps a line in order.
LEMMA AppendedOrder ==
  ASSUME NEW u \in Seq(Msg), NEW m \in Msg, NEW n \in Nat, NEW x \in Nat, Orderly(u, n),
         \A i \in 1 .. Len(u) : Carries(u[i]) \/ Snapshot(u[i]) => u[i].rev <= n,
         ComesNext(m, n, x)
  PROVE  Orderly(Append(u, m), x)
<1> DEFINE v == Append(u, m)
<1>1. /\ Len(v) = Len(u) + 1 /\ Len(u) \in Nat
      /\ \A i \in 1 .. Len(u) : v[i] = u[i] /\ v[i] \in Msg
      /\ v[Len(u) + 1] = m
  BY Appended
<1>2. \A i \in 1 .. Len(u), r \in Nat : Covers(u, i, r, n) => Covers(v, i, r, x)
  <2> TAKE i \in 1 .. Len(u), r \in Nat
  <2>1. x = n \/ (x = n + 1 /\ Carries(m) /\ m.rev = x)
    BY DEF ComesNext
  <2>2. i \in 0 .. Len(u)
    BY <1>1
  <2> QED
    BY <2>1, <2>2, AppendedCovers
<1> HIDE DEF v
<1>3. \A i, k \in 1 .. Len(v) : i < k /\ Carries(v[i]) /\ Carries(v[k]) => v[i].rev < v[k].rev
  <2> TAKE i, k \in 1 .. Len(v)
  <2> HAVE i < k /\ Carries(v[i]) /\ Carries(v[k])
  <2>1. i \in 1 .. Len(u)
    BY <1>1
  <2>2. CASE k \in 1 .. Len(u)
    BY <1>1, <2>1, <2>2 DEF Orderly
  <2>3. CASE k = Len(u) + 1
    <3>1. v[k] = m /\ v[i] = u[i] /\ v[i] \in Msg
      BY <1>1, <2>1, <2>3
    <3>2. u[i].rev <= n /\ m.rev = n + 1
      BY <2>1, <2>3, <3>1 DEF ComesNext
    <3>3. u[i].rev \in Nat
      BY <3>1 DEF Msg
    <3> QED
      BY <3>1, <3>2, <3>3
  <2> QED
    BY <1>1, <2>2, <2>3
<1>4. ASSUME NEW i \in 1 .. Len(v), Snapshot(v[i])
      PROVE  /\ Covers(v, i, v[i].rev, x)
             /\ \A k \in 1 .. Len(v) : Carries(v[k]) =>
                  (k < i => v[k].rev <= v[i].rev) /\ (i < k => v[i].rev < v[k].rev)
  <2>1. CASE i \in 1 .. Len(u)
    <3>1. v[i] = u[i] /\ u[i].rev \in Nat /\ Covers(u, i, u[i].rev, n)
      BY <1>1, <1>4, <2>1 DEF Orderly, Msg
    <3>2. Covers(v, i, v[i].rev, x)
      BY <1>2, <2>1, <3>1
    <3>3. ASSUME NEW k \in 1 .. Len(v), Carries(v[k])
          PROVE  (k < i => v[k].rev <= v[i].rev) /\ (i < k => v[i].rev < v[k].rev)
      <4>1. CASE k \in 1 .. Len(u)
        BY <1>1, <1>4, <2>1, <3>3, <4>1 DEF Orderly
      <4>2. CASE k = Len(u) + 1
        <5>1. v[i].rev <= n /\ v[k] = m
          BY <1>1, <1>4, <2>1, <4>2
        <5> QED
          BY <1>1, <2>1, <3>1, <3>3, <4>2, <5>1 DEF ComesNext
      <4> QED
        BY <1>1, <4>1, <4>2
    <3> QED
      BY <3>2, <3>3
  <2>2. CASE i = Len(u) + 1
    <3>1. v[i] = m /\ m.rev = n /\ x = n /\ ~Carries(m)
      BY <1>1, <1>4, <2>2 DEF ComesNext
    <3>2. Covers(v, i, v[i].rev, x)
      BY <3>1 DEF Covers
    <3>3. \A k \in 1 .. Len(v) : Carries(v[k]) => k \in 1 .. Len(u) /\ k < i /\ v[k].rev <= n
      BY <1>1, <2>2, <3>1
    <3> QED
      BY <2>2, <3>1, <3>2, <3>3
  <2> QED
    BY <1>1, <2>1, <2>2
<1> QED
  BY <1>3, <1>4 DEF Orderly, v

-----------------------------------------------------------------------------
(* The worker serves a request                                              *)

\* x is s, perhaps with more ops.
Grown(s, x) ==
  /\ x.life = s.life /\ x.initial = s.initial /\ Len(s.ops) <= Len(x.ops)
  /\ \A i \in 1 .. Len(s.ops) : x.ops[i] = s.ops[i]

\* What fits a session fits it when its log has grown.
LEMMA GrownFits ==
  ASSUME NEW s, NEW x, SessionOK(s), SessionOK(x), Grown(s, x)
  PROVE  /\ \A r \in Nat : r <= Len(s.ops) => r <= Len(x.ops) /\ DocAt(x, r) = DocAt(s, r)
         /\ \A m \in Msg : Fits(s, m) => Fits(x, m)
<1>1. Len(s.ops) \in Nat /\ Len(x.ops) \in Nat
  BY DEF SessionOK
<1>2. \A r \in Nat : r <= Len(s.ops) => r <= Len(x.ops) /\ DocAt(x, r) = DocAt(s, r)
  <2> TAKE r \in Nat
  <2> HAVE r <= Len(s.ops)
  <2>1. CASE r = 0
    BY <1>1, <2>1 DEF DocAt, Grown
  <2>2. CASE r # 0
    BY <1>1, <2>2 DEF DocAt, Grown
  <2> QED
    BY <2>1, <2>2
<1>3. \A m \in Msg : m.rev \in Nat
  BY DEF Msg
<1> QED
  BY <1>2, <1>3 DEF Fits

\* What is served is gone; what is sent comes last, unless the port is closed.
LEMMA TidyServed ==
  ASSUME NEW q, NEW s, NEW x, NEW j \in JoinState, NEW w \in Seq(Request), NEW t \in Seq(Msg),
         Tidy(q, s, j, w, t), NEW v, NEW u,
         \/ v = w /\ (q \in x.ports => q \in s.ports) /\ (u = t \/ q \in s.ports)
         \/ w # <<>> /\ v = Tail(w),
         \/ u = t \/ u = <<>>
         \/ \E m \in Msg : u = Append(t, m) /\ Shaped(m) /\ (m.kind = "post" => j.stage \notin Joins)
  PROVE  Tidy(q, x, j, v, u)
<1>1. /\ \A i \in 1 .. Len(u) : Shaped(u[i])
      /\ j.stage \in Joins => \A i \in 1 .. Len(u) : u[i].kind # "post"
  <2>1. CASE u = t
    BY <2>1 DEF Tidy
  <2>2. CASE u = <<>>
    BY <2>2
  <2>3. CASE \E m \in Msg : u = Append(t, m) /\ Shaped(m) /\ (m.kind = "post" => j.stage \notin Joins)
    <3>1. PICK m \in Msg : u = Append(t, m) /\ Shaped(m) /\ (m.kind = "post" => j.stage \notin Joins)
      BY <2>3
    <3>2. /\ Len(u) = Len(t) + 1 /\ Len(t) \in Nat /\ u[Len(t) + 1] = m
          /\ \A i \in 1 .. Len(t) : u[i] = t[i]
      BY <3>1, Appended
    <3>3. \A i \in 1 .. Len(u) : i \in 1 .. Len(t) \/ i = Len(t) + 1
      BY <3>2
    <3> QED
      BY <3>1, <3>2, <3>3 DEF Tidy
  <2> QED
    BY <2>1, <2>2, <2>3
<1>2. CASE v = w /\ (q \in x.ports => q \in s.ports) /\ (u = t \/ q \in s.ports)
  BY <1>1, <1>2 DEF Tidy
<1>3. CASE w # <<>> /\ v = Tail(w)
  <2>1. /\ \A i \in 1 .. Len(v) : i + 1 \in 1 .. Len(w) /\ v[i] = w[i + 1] /\ i + 1 # 1
    BY <1>3
  <2>2. \A i \in 1 .. Len(v) : v[i].kind # "open"
    BY <2>1 DEF Tidy
  <2> QED
    BY <1>1, <2>1, <2>2 DEF Tidy
<1> QED
  BY <1>2, <1>3

\* A port of no session, or of an earlier one, is shown nothing.
LEMMA CutOff ==
  ASSUME NEW q, NEW x, NEW o \in Nat, NEW l, NEW j, NEW w, NEW t, Tidy(q, x, j, w, t),
         q \notin x.ports, x.life \in Nat, o < x.life \/ (o <= x.life /\ x.ports = {})
  PROVE  Follows(q, x, o, l, j, w, t)
BY DEF Follows, Shown, Served

\* A port that is sent nothing new.
LEMMA Unheard ==
  ASSUME NEW q, NEW s, NEW x, SessionOK(s), SessionOK(x), Grown(s, x), NEW o \in Nat,
         NEW l, NEW j \in JoinState, NEW w, NEW t \in Seq(Msg), Follows(q, s, o, l, j, w, t),
         NEW v, Tidy(q, x, j, v, t), x.ports \subseteq s.ports,
         l.state = "closed" \/ q \notin x.ports \/ Len(x.ops) = Len(s.ops)
  PROVE  Follows(q, x, o, l, j, v, t)
<1>1. Shown(x, o, j, t)
  <2> SUFFICES ASSUME o = x.life, x.ports # {} PROVE Shown(x, o, j, t)
    BY DEF Shown
  <2>1. Shown(s, o, j, t) /\ o = s.life /\ s.ports # {}
    BY DEF Follows, Grown
  <2>2. \A i \in 1 .. Len(t) : Fits(x, t[i])
    BY <2>1, GrownFits DEF Shown
  <2>3. \A i \in 1 .. Len(j.buffer) : Fits(x, j.buffer[i])
    <3>1. \A i \in 1 .. Len(j.buffer) : j.buffer[i] \in Msg
      BY DEF JoinState
    <3> QED
      BY <2>1, <3>1, GrownFits DEF Shown
  <2>4. j.stage \in Holding => j.rev <= Len(x.ops) /\ j.doc = DocAt(x, j.rev)
    <3>1. j.rev \in Nat
      BY DEF JoinState
    <3> QED
      BY <2>1, <3>1, GrownFits DEF Shown
  <2> QED
    BY <2>2, <2>3, <2>4 DEF Shown
<1>2. Served(q, x, l, j) => Served(q, s, l, j) /\ Len(x.ops) = Len(s.ops)
  BY DEF Served
<1> QED
  BY <1>1, <1>2 DEF Follows, Grown

\* In the line of a port of s everything fits s.
LEMMA LineFits ==
  ASSUME NEW s, NEW o, NEW j \in JoinState, NEW t \in Seq(Msg), Shown(s, o, j, t),
         o = s.life, s.ports # {}
  PROVE  \A i \in 1 .. Len(j.buffer \o t) :
           /\ (j.buffer \o t)[i] \in Msg
           /\ Fits(s, (j.buffer \o t)[i])
<1>1. j.buffer \in Seq(Msg)
  BY DEF JoinState
<1>2. \A i \in 1 .. Len(j.buffer \o t) :
        \/ i \in 1 .. Len(j.buffer) /\ (j.buffer \o t)[i] = j.buffer[i]
        \/ i - Len(j.buffer) \in 1 .. Len(t) /\ (j.buffer \o t)[i] = t[i - Len(j.buffer)]
  BY <1>1, InLine
<1> QED
  BY <1>1, <1>2 DEF Shown

\* A port of the session is sent what comes next.
LEMMA Heard ==
  ASSUME NEW q, NEW s, NEW x, SessionOK(s), SessionOK(x), Grown(s, x), NEW o \in Nat,
         NEW l, NEW j \in JoinState, NEW w, NEW t \in Seq(Msg), Follows(q, s, o, l, j, w, t),
         x.ports \subseteq s.ports, q \in s.ports => o = s.life,
         NEW m \in Msg, Fits(x, m), ComesNext(m, Len(s.ops), Len(x.ops)),
         NEW v, Tidy(q, x, j, v, Append(t, m))
  PROVE  Follows(q, x, o, l, j, v, Append(t, m))
<1> DEFINE u == Append(t, m)  b == j.buffer  n == Len(s.ops)  k == Len(x.ops)
<1>1. /\ u \in Seq(Msg) /\ Len(u) = Len(t) + 1 /\ Len(t) \in Nat
      /\ \A i \in 1 .. Len(t) : u[i] = t[i]
      /\ u[Len(t) + 1] = m
      /\ b \in Seq(Msg) /\ b \o u = Append(b \o t, m) /\ b \o t \in Seq(Msg)
      /\ n \in Nat /\ k \in Nat /\ j.rev \in Nat
  BY Appended, InLine DEF SessionOK, JoinState
<1>2. \A i \in 1 .. Len(u) : i \in 1 .. Len(t) \/ i = Len(t) + 1
  BY <1>1
<1> HIDE DEF u, b, n, k
<1>3. Shown(x, o, j, u)
  <2> SUFFICES ASSUME o = x.life, x.ports # {} PROVE Shown(x, o, j, u)
    BY DEF Shown
  <2>1. Shown(s, o, j, t) /\ o = s.life /\ s.ports # {}
    BY DEF Follows, Grown
  <2>2. \A i \in 1 .. Len(t) : t[i] \in Msg /\ Fits(x, t[i])
    BY <2>1, GrownFits DEF Shown
  <2>3. \A i \in 1 .. Len(j.buffer) : Fits(x, j.buffer[i])
    <3>1. \A i \in 1 .. Len(j.buffer) : j.buffer[i] \in Msg
      BY DEF JoinState
    <3> QED
      BY <2>1, <3>1, GrownFits DEF Shown
  <2>4. j.stage \in Holding => j.rev <= Len(x.ops) /\ j.doc = DocAt(x, j.rev)
    BY <1>1, <2>1, GrownFits DEF Shown
  <2>5. \A i \in 1 .. Len(u) : Fits(x, u[i])
    BY <1>1, <1>2, <2>2
  <2> QED
    BY <2>3, <2>4, <2>5 DEF Shown
<1>4. ASSUME Served(q, x, l, j) PROVE Continues(j, u, k)
  <2>1. Served(q, s, l, j) /\ o = s.life /\ s.ports # {}
    BY <1>4 DEF Served
  <2>2. Continues(j, t, n) /\ Shown(s, o, j, t)
    BY <2>1 DEF Follows, n
  <2>3. \A i \in 1 .. Len(b \o t) :
          Carries((b \o t)[i]) \/ Snapshot((b \o t)[i]) => (b \o t)[i].rev <= n
    BY <2>1, <2>2, LineFits DEF Fits, b, n
  <2>4. ComesNext(m, n, k)
    BY DEF n, k
  <2>5. Orderly(b \o u, k)
    <3> DEFINE z == b \o t
    <3>1. z \in Seq(Msg) /\ Orderly(z, n) /\ b \o u = Append(z, m)
      BY <1>1, <2>2 DEF Continues, b
    <3>2. \A i \in 1 .. Len(z) : Carries(z[i]) \/ Snapshot(z[i]) => z[i].rev <= n
      BY <2>3
    <3> HIDE DEF z
    <3>3. Orderly(Append(z, m), k)
      BY <1>1, <2>4, <3>1, <3>2, AppendedOrder
    <3> QED
      BY <3>1, <3>3
  <2>6. ASSUME j.stage \in Holding PROVE Covers(b \o u, 0, j.rev, k)
    <3>1. Covers(b \o t, 0, j.rev, n)
      BY <2>2, <2>6 DEF Continues, b
    <3>2. 0 \in 0 .. Len(b \o t)
      BY <1>1
    <3>3. k = n \/ (k = n + 1 /\ Carries(m) /\ m.rev = k)
      BY <2>4 DEF ComesNext
    <3> QED
      BY <1>1, <3>1, <3>2, <3>3, AppendedCovers
  <2>7. ASSUME j.stage \in Holding PROVE \A i \in 1 .. Len(u) : Carries(u[i]) => j.rev < u[i].rev
    <3>1. \A i \in 1 .. Len(t) : Carries(t[i]) => j.rev < t[i].rev
      BY <2>2, <2>7 DEF Continues
    <3>2. j.rev <= n
      BY <2>1, <2>2, <2>7 DEF Shown, n
    <3>3. Carries(m) => j.rev < m.rev
      BY <1>1, <2>4, <3>2 DEF ComesNext
    <3> QED
      BY <1>1, <1>2, <3>1, <3>3
  <2> QED
    BY <2>2, <2>5, <2>6, <2>7 DEF Continues, b
<1> QED
  BY <1>3, <1>4 DEF Follows, Grown, u, k

\* What a request that opens nothing does to a port.
LEMMA ServedFollows ==
  ASSUME ShareInv, SessionOK(session'), NEW p \in Ports, Serve(p),
         opened' = opened, session'.life = session.life, session'.ports \subseteq session.ports,
         session'.ports = {} \/ Grown(session, session'),
         NEW q \in Ports,
         \/ /\ q # p /\ toPort'[q] = toPort[q]
            /\ q \notin session'.ports \/ Len(session'.ops) = Len(session.ops)
         \/ \E m \in Msg :
              /\ toPort'[q] = Delivered(q, m) /\ Shaped(m)
              /\ \/ q = p /\ m.kind = Head(toWorker[p]).kind
                 \/ q # p /\ q \in session.ports /\ m.kind = "op"
              /\ session'.ports # {} =>
                   /\ Fits(session', m)
                   /\ ComesNext(m, Len(session.ops), Len(session'.ops))
  PROVE  Follows(q, session, opened[q], link[q], join[q], toWorker[q], toPort[q])'
<1> DEFINE s == session  x == session'  o == opened[q]
           l == link[q]  j == join[q]  w == toWorker[q]  t == toPort[q]
           v == toWorker'[q]  u == toPort'[q]
<1>1. /\ SessionOK(s) /\ SessionOK(x) /\ o \in Nat /\ j \in JoinState /\ w \in Seq(Request)
      /\ t \in Seq(Msg) /\ Follows(q, s, o, l, j, w, t) /\ Dialogue(l, j, w, t)
      /\ q \in s.ports => o = s.life
  BY PortTypes DEF ShareInv, LinkInv, TypeOK, SessionOK, LifeInv, LivesAgree
<1>2. /\ link'[q] = l /\ join'[q] = j /\ opened'[q] = o
      /\ IF q = p THEN w # <<>> /\ v = Tail(w) ELSE v = w
  BY ServedOK DEF ShareInv, LinkInv, TypeOK
<1>3. x.life = s.life /\ x.life \in Nat /\ x.ports \subseteq s.ports
      /\ (x.ports = {} \/ Grown(s, x))
  BY <1>1 DEF SessionOK
<1> SUFFICES Follows(q, x, o, l, j, v, u)
  BY <1>2
<1>4. CASE /\ q # p /\ u = t
           /\ q \notin x.ports \/ Len(x.ops) = Len(s.ops)
  <2> HIDE DEF s, x, o, l, j, w, t, v, u
  <2>1. Tidy(q, x, j, v, t)
    BY <1>1, <1>2, <1>3, <1>4, TidyServed DEF Follows
  <2>2. CASE x.ports = {}
    BY <1>1, <1>3, <1>4, <2>1, <2>2, CutOff DEF Follows
  <2>3. CASE Grown(s, x)
    BY <1>1, <1>3, <1>4, <2>1, <2>3, Unheard
  <2> QED
    BY <1>3, <2>2, <2>3
<1>5. CASE \E m \in Msg :
             /\ toPort'[q] = Delivered(q, m) /\ Shaped(m)
             /\ \/ q = p /\ m.kind = Head(toWorker[p]).kind
                \/ q # p /\ q \in session.ports /\ m.kind = "op"
             /\ session'.ports # {} =>
                  Fits(session', m) /\ ComesNext(m, Len(session.ops), Len(session'.ops))
  <2>1. PICK m \in Msg :
          /\ u = Delivered(q, m) /\ Shaped(m)
          /\ \/ q = p /\ m.kind = Head(w).kind
             \/ q # p /\ q \in s.ports /\ m.kind = "op"
          /\ x.ports # {} => Fits(x, m) /\ ComesNext(m, Len(s.ops), Len(x.ops))
    BY <1>5
  <2>2. u = IF l.state = "closed" THEN <<>> ELSE Append(t, m)
    BY <2>1 DEF Delivered
  <2> HIDE DEF s, x, o, l, j, w, t, v, u
  <2>3. m.kind = "post" => j.stage \notin Joins
    <3>1. q = p => 1 \in 1 .. Len(w) /\ Head(w) = w[1]
      BY <1>1, <1>2
    <3> QED
      BY <1>1, <2>1, <3>1 DEF Follows, Tidy
  <2>4. Tidy(q, x, j, v, u)
    <3>1. u = <<>> \/ \E k \in Msg : u = Append(t, k) /\ Shaped(k) /\ (k.kind = "post" => j.stage \notin Joins)
      BY <2>1, <2>2, <2>3
    <3>2. \/ v = w /\ (q \in x.ports => q \in s.ports) /\ (u = t \/ q \in s.ports)
          \/ w # <<>> /\ v = Tail(w)
      BY <1>2, <1>3, <2>1
    <3>3. Tidy(q, s, j, w, t)
      BY <1>1 DEF Follows
    <3> QED
      BY <1>1, <3>1, <3>2, <3>3, TidyServed
  <2>5. CASE x.ports = {}
    BY <1>1, <1>3, <2>4, <2>5, CutOff DEF Follows
  <2>6. CASE Grown(s, x) /\ x.ports # {} /\ l.state = "closed"
    <3>1. u = t
      BY <1>1, <2>2, <2>6 DEF Dialogue
    <3> QED
      BY <1>1, <1>3, <2>4, <2>6, <3>1, Unheard
  <2>7. CASE Grown(s, x) /\ x.ports # {} /\ l.state # "closed"
    <3>1. u = Append(t, m)
      BY <2>2, <2>7
    <3> QED
      BY <1>1, <1>3, <2>1, <2>4, <2>7, <3>1, Heard
  <2> QED
    BY <1>3, <2>5, <2>6, <2>7
<1> QED
  BY <1>4, <1>5

\* Who leaves takes nothing with them, unless they are the last.
LEMMA DisconnectedGrown ==
  ASSUME NEW s, SessionOK(s), NEW gone
  PROVE  LET d == Disconnected(s, gone) IN
         /\ d.life = s.life /\ d.ports \subseteq s.ports
         /\ d.ports # {} => d.ops = s.ops /\ Grown(s, d)
<1>1. CASE s.ports \subseteq gone
  BY <1>1 DEF Disconnected, Forgotten
<1>2. CASE ~(s.ports \subseteq gone)
  <2>1. Disconnected(s, gone) = [s EXCEPT !.ports = s.ports \ gone]
    BY <1>2 DEF Disconnected
  <2>2. Len(s.ops) \in Nat
    BY DEF SessionOK
  <2> QED
    BY <2>1, <2>2 DEF SessionOK, Grown
<1> QED
  BY <1>1, <1>2

\* Pruning leaves the log of a session that has ports.
LEMMA KeptGrown ==
  ASSUME LinkInv, NEW p
  PROVE  /\ Kept(p).life = session.life /\ Kept(p).ports \subseteq session.ports
         /\ Kept(p).ports # {} => Kept(p).ops = session.ops /\ Grown(session, Kept(p))
<1>1. SessionOK(session)
  BY DEF LinkInv, TypeOK, SessionOK
<1> QED
  BY <1>1, DisconnectedGrown DEF Kept

\* A request that is refused, or only reads, or leaves.
LEMMA QuietServeFollows ==
  ASSUME ShareInv, SessionOK(session'), NEW p \in Ports,
         RefuseUnknown(p) \/ ServeRead(p) \/ ConflictOp(p) \/ StaleOp(p) \/ ServeClose(p),
         NEW q \in Ports
  PROVE  Follows(q, session, opened[q], link[q], join[q], toWorker[q], toPort[q])'
<1>1. Serve(p) /\ LinkInv
  BY DEF Serve, ShareInv
<1>2. /\ toWorker[p] # <<>> /\ SessionOK(session) /\ SessionOK(Kept(p))
      /\ Kept(p).life = session.life /\ Kept(p).ports \subseteq session.ports
      /\ Kept(p).ports # {} => Kept(p).ops = session.ops /\ Grown(session, Kept(p))
  BY <1>1, ServedOK, KeptOK, KeptGrown DEF LinkInv, TypeOK, SessionOK
<1>3. /\ opened' = opened /\ session'.life = session.life /\ session'.ports \subseteq session.ports
      /\ session'.ports # {} => session'.ops = session.ops /\ Grown(session, session')
  <2>1. CASE RefuseUnknown(p) \/ ServeRead(p) \/ ConflictOp(p) \/ StaleOp(p)
    BY <1>2, <2>1 DEF RefuseUnknown, ServeRead, ConflictOp, StaleOp, Prune
  <2>2. CASE ServeClose(p)
    <3>1. session' = Disconnected(Kept(p), {p}) /\ opened' = opened
      BY <2>2 DEF ServeClose
    <3>2. /\ session'.life = session.life /\ session'.ports \subseteq Kept(p).ports
          /\ session'.ports # {} => session'.ops = Kept(p).ops /\ Grown(Kept(p), session')
      BY <1>2, <3>1, DisconnectedGrown
    <3>3. session'.ports # {} => session'.ops = session.ops /\ Grown(session, session')
      BY <1>2, <3>2 DEF Grown
    <3> QED
      BY <1>2, <3>1, <3>2, <3>3
  <2> QED
    BY <2>1, <2>2
<1>4. PICK result \in Results, rev \in Nat, doc \in Docs \cup {None} :
        /\ Reply(p, result, rev, doc)
        /\ result \in {"error", "conflict", "stale-base", "ok"}
        /\ Head(toWorker[p]).kind # "open" /\ Head(toWorker[p]).kind \in Kinds
        /\ result = "ok" /\ Head(toWorker[p]).kind = "fetch-snapshot" /\ session'.ports # {} =>
             rev = Len(session'.ops) /\ doc = DocAt(session', rev)
  <2>1. Head(toWorker[p]).kind \in Kinds
    BY <1>1, <1>2, HeadOK DEF Request
  <2>2. Len(session.ops) \in Nat /\ Current(session) \in Docs \cup {None}
    <3>1. Len(session.ops) \in Nat /\ Len(session.ops) \in 0 .. Len(session.ops)
      BY <1>2 DEF SessionOK
    <3> QED
      BY <1>2, <3>1, DocAtOK DEF Current
  <2>3. {"error", "conflict", "stale-base", "ok"} \subseteq Results
    BY DEF Results
  <2>4. CASE RefuseUnknown(p)
    <3>1. Reply(p, "error", 0, None) /\ Head(toWorker[p]).kind # "open"
      BY <2>4 DEF RefuseUnknown, Serving
    <3> QED
      BY <2>1, <2>3, <3>1
  <2>5. CASE ConflictOp(p)
    <3>1. Reply(p, "conflict", 0, None) /\ Head(toWorker[p]).kind # "open"
      BY <2>5 DEF ConflictOp, Serving, Ops
    <3> QED
      BY <2>1, <2>3, <3>1
  <2>6. CASE StaleOp(p)
    <3>1. Reply(p, "stale-base", Len(session.ops), None) /\ Head(toWorker[p]).kind # "open"
      BY <2>6 DEF StaleOp, Serving, Ops
    <3> QED
      BY <2>1, <2>2, <2>3, <3>1
  <2>7. CASE ServeClose(p)
    <3>1. Reply(p, "ok", 0, None) /\ Head(toWorker[p]).kind = "close"
      BY <2>7 DEF ServeClose, Serving
    <3> QED
      BY <2>1, <2>3, <3>1
  <2>8. CASE ServeRead(p)
    <3>1. /\ Reply(p, "ok", Len(session.ops), Current(session))
          /\ Head(toWorker[p]).kind # "open" /\ session' = Kept(p)
      BY <2>8 DEF ServeRead, Serving, Prune
    <3>2. session'.ports # {} =>
            Len(session.ops) = Len(session'.ops) /\ Current(session) = DocAt(session', Len(session.ops))
      BY <1>2, <3>1, GrownFits, <2>2 DEF Current
    <3> QED
      BY <2>1, <2>2, <2>3, <3>1, <3>2
  <2> QED
    BY <2>4, <2>5, <2>6, <2>7, <2>8
<1> DEFINE m == Answer(p, result, rev, doc)
<1>5. /\ m \in Msg /\ m.kind = Head(toWorker[p]).kind /\ m.result = result
      /\ m.rev = rev /\ m.doc = doc
  BY <1>4 DEF Answer, Msg
<1>6. m.kind # "op"
  BY <1>4, <1>5 DEF Kinds
<1> HIDE DEF m
<1>7. Shaped(m) /\ ~Carries(m)
  BY <1>4, <1>5, <1>6 DEF Shaped, Carries
<1>8. session'.ports # {} => Fits(session', m) /\ ComesNext(m, Len(session.ops), Len(session'.ops))
  <2> HAVE session'.ports # {}
  <2>1. Len(session'.ops) = Len(session.ops) /\ Len(session.ops) \in Nat
    BY <1>2, <1>3 DEF SessionOK
  <2>2. Snapshot(m) => rev = Len(session'.ops) /\ doc = DocAt(session', rev)
    BY <1>4, <1>5 DEF Snapshot
  <2> QED
    BY <1>5, <1>7, <2>1, <2>2 DEF Fits, ComesNext
<1>9. \/ q # p /\ toPort'[q] = toPort[q] /\ (q \notin session'.ports \/ Len(session'.ops) = Len(session.ops))
      \/ q = p /\ toPort'[q] = Delivered(q, m)
  <2>1. toPort \in [Ports -> Seq(Msg)] /\ toPort' = [toPort EXCEPT ![p] = Delivered(p, m)]
    BY <1>1, <1>4 DEF Reply, m, LinkInv, TypeOK
  <2>2. q \in session'.ports => Len(session'.ops) = Len(session.ops)
    BY <1>3
  <2> QED
    BY <2>1, <2>2
<1> QED
  BY <1>1, <1>3, <1>5, <1>7, <1>8, <1>9, ServedFollows

\* An op that is accepted is the next one of every port of the session.
LEMMA AcceptFollows ==
  ASSUME ShareInv, SessionOK(session'), NEW p \in Ports, AcceptOp(p), NEW q \in Ports
  PROVE  Follows(q, session, opened[q], link[q], join[q], toWorker[q], toPort[q])'
<1> DEFINE k == Kept(p)
           kind == Head(toWorker[p]).kind
           doc == Head(toWorker[p]).doc
           op == [from |-> p, kind |-> kind, doc |-> doc]
           n == Len(session.ops)
<1>1. Serve(p) /\ LinkInv
  BY DEF Serve, ShareInv
<1>2. /\ toWorker[p] # <<>> /\ SessionOK(session) /\ SessionOK(k) /\ n \in Nat
      /\ k.ports # {} /\ k.ops = session.ops /\ Grown(session, k)
      /\ k.life = session.life /\ k.ports \subseteq session.ports
  <2>1. SessionOK(session)
    BY <1>1 DEF LinkInv, TypeOK, SessionOK
  <2>2. k.ports # {} /\ n \in Nat
    BY <2>1 DEF AcceptOp, IsOpen, SessionOK
  <2> QED
    BY <1>1, <2>1, <2>2, ServedOK, KeptOK, KeptGrown
<1>3. /\ session' = [k EXCEPT !.ops = Append(k.ops, op)] /\ opened' = opened
      /\ toPort' = Announced(p, session', doc)
      /\ kind \in Ops /\ doc \in Docs
  <2>1. /\ session' = [k EXCEPT !.ops = Append(k.ops, op)] /\ opened' = opened
        /\ toPort' = Announced(p, session', doc) /\ kind \in Ops
    BY DEF AcceptOp, Serving
  <2> QED
    BY <1>1, <1>2, <2>1, HeadOK
<1> DEFINE m == Answer(p, "accepted", n + 1, doc)
           event == [kind |-> "op", result |-> "op", rev |-> n + 1, doc |-> doc]
<1>4. /\ m \in Msg /\ m.kind = kind /\ m.result = "accepted" /\ m.rev = n + 1 /\ m.doc = doc
      /\ event \in Msg /\ event.kind = "op" /\ event.result = "op" /\ event.rev = n + 1
      /\ event.doc = doc
  BY <1>2, <1>3 DEF Answer, Msg, Ops, Kinds, Results
<1>5. /\ session'.life = session.life /\ session'.ports = k.ports
      /\ Grown(session, session') /\ Len(session'.ops) = n + 1
      /\ DocAt(session', n + 1) = doc
  <2>1. k.ops \in Seq(Op) /\ session'.ops = Append(k.ops, op) /\ op.doc = doc
    BY <1>2, <1>3 DEF SessionOK
  <2> HIDE DEF op
  <2>2. /\ Len(session'.ops) = n + 1 /\ session'.ops[n + 1] = op
        /\ \A i \in 1 .. n : session'.ops[i] = session.ops[i]
    BY <1>2, <2>1
  <2>3. DocAt(session', n + 1) = doc
    BY <1>2, <2>1, <2>2 DEF DocAt
  <2>4. session'.life = k.life /\ session'.ports = k.ports /\ session'.initial = k.initial
    BY <1>2, <1>3 DEF SessionOK
  <2>5. n <= n + 1
    BY <1>2
  <2> QED
    BY <1>2, <2>2, <2>3, <2>4, <2>5 DEF Grown
<1>6. \/ q = p /\ toPort'[q] = Delivered(q, m)
      \/ q # p /\ q \in session.ports /\ toPort'[q] = Delivered(q, event)
      \/ q # p /\ q \notin session'.ports /\ toPort'[q] = toPort[q]
  BY <1>2, <1>3, <1>5 DEF Announced
<1> HIDE DEF k, m, event, n
<1>7. \A a \in {m, event} :
        /\ Shaped(a) /\ Fits(session', a) /\ ComesNext(a, n, Len(session'.ops))
  BY <1>2, <1>3, <1>4, <1>5 DEF Shaped, Fits, ComesNext, Snapshot, Carries, Ops
<1> QED
  BY <1>1, <1>3, <1>4, <1>5, <1>6, <1>7, <1>2, ServedFollows DEF n

\* The window that opens is sent the document as it is.  If it is the first it
\* begins a life that no other port was opened in.
LEMMA OpenServeFollows ==
  ASSUME ShareInv, SessionOK(session'), NEW p \in Ports, ServeOpen(p), NEW q \in Ports
  PROVE  Follows(q, session, opened[q], link[q], join[q], toWorker[q], toPort[q])'
<1> DEFINE k == Kept(p)
           s == IF k.ports = {} THEN Fresh(session, Head(toWorker[p]).doc) ELSE k
           m == Answer(p, "opened", Len(s.ops), Current(s))
<1>1. Serve(p) /\ LinkInv
  BY DEF Serve, ShareInv
<1>2. /\ toWorker[p] # <<>> /\ SessionOK(session) /\ SessionOK(k)
      /\ k.life = session.life /\ k.ports \subseteq session.ports
      /\ k.ports # {} => k.ops = session.ops /\ Grown(session, k)
      /\ session.life \in Nat /\ Head(toWorker[p]).kind = "open"
  BY <1>1, ServedOK, KeptOK, KeptGrown DEF ServeOpen, Serving, LinkInv, TypeOK, SessionOK
<1>3. /\ session' = [s EXCEPT !.ports = s.ports \cup {p}]
      /\ opened' = [opened EXCEPT ![p] = s.life]
      /\ toPort' = [toPort EXCEPT ![p] = Delivered(p, m)]
  BY DEF ServeOpen, Reply
<1>4. /\ \/ s.life = session.life + 1 /\ s.ports = {}
         \/ s = k /\ k.ports # {} /\ Grown(session, k)
      /\ s.life \in Nat /\ session.life <= s.life
      /\ s = [life |-> s.life, initial |-> s.initial, ops |-> s.ops, ports |-> s.ports]
  <2>1. CASE k.ports = {}
    BY <1>2, <2>1 DEF Fresh
  <2>2. CASE k.ports # {}
    BY <1>2, <2>2 DEF SessionOK
  <2> QED
    BY <2>1, <2>2
<1>5. m.kind = "open" /\ m.result = "opened" /\ m.rev = Len(s.ops) /\ m.doc = Current(s)
  BY <1>2 DEF Answer
<1>6. m = [kind |-> m.kind, result |-> m.result, rev |-> m.rev, doc |-> m.doc]
  BY DEF Answer
<1> HIDE DEF s, m, k
<1>7. /\ session'.life = s.life /\ session'.initial = s.initial /\ session'.ops = s.ops
      /\ session'.ports = s.ports \cup {p}
  BY <1>3, <1>4
<1> DEFINE o == opened[q]  l == link[q]  j == join[q]  w == toWorker[q]  t == toPort[q]
           v == toWorker'[q]  u == toPort'[q]  x == session'
<1>8. /\ o \in Nat /\ j \in JoinState /\ w \in Seq(Request)
      /\ t \in Seq(Msg) /\ Follows(q, session, o, l, j, w, t)
      /\ SessionOK(x) /\ toPort \in [Ports -> Seq(Msg)] /\ opened \in [Ports -> Nat]
  BY <1>1, PortTypes DEF ShareInv, LinkInv, TypeOK
<1>9. /\ link'[q] = l /\ join'[q] = j
      /\ IF q = p THEN w # <<>> /\ v = Tail(w) ELSE v = w
  BY <1>1, ServedOK DEF LinkInv, TypeOK
<1>10. CASE q # p
  <2>1. u = t /\ v = w /\ opened'[q] = o /\ (q \in x.ports => q \in s.ports)
    BY <1>3, <1>7, <1>8, <1>9, <1>10
  <2>2. s.ports \subseteq session.ports
    BY <1>2, <1>4
  <2>3. Tidy(q, x, j, w, t)
    <3>1. (q \in x.ports => q \in session.ports) /\ Tidy(q, session, j, w, t)
      BY <1>8, <2>1, <2>2 DEF Follows
    <3> QED
      BY <1>8, <3>1, TidyServed
  <2>4. CASE s.life = session.life + 1 /\ s.ports = {}
    <3>1. o < x.life /\ q \notin x.ports /\ x.life \in Nat
      BY <1>2, <1>7, <1>8, <1>10, <2>4 DEF Follows
    <3>2. Follows(q, x, o, l, j, w, t)
      BY <1>8, <2>3, <3>1, CutOff
    <3> QED
      BY <1>9, <2>1, <3>2
  <2>5. CASE s = k /\ k.ports # {} /\ Grown(session, k)
    <3>1. Tidy(q, k, j, w, t)
      <4>1. (q \in k.ports => q \in session.ports) /\ Tidy(q, session, j, w, t)
        BY <1>2, <1>8 DEF Follows
      <4> QED
        BY <1>8, <4>1, TidyServed
    <3>2. Len(k.ops) = Len(session.ops)
      BY <1>2, <2>5
    <3>3. Follows(q, k, o, l, j, w, t)
      BY <1>2, <1>8, <2>5, <3>1, <3>2, Unheard
    <3>4. \A r : DocAt(x, r) = DocAt(k, r)
      BY <1>7, <2>5 DEF DocAt
    <3>5. x.ops = k.ops /\ x.life = k.life /\ x.ports # {}
      BY <1>7, <2>5
    <3>6. Shown(k, o, j, t) => Shown(x, o, j, t)
      BY <2>5, <3>4, <3>5 DEF Shown, Fits
    <3>7. Served(q, x, l, j) => Served(q, k, l, j)
      BY <2>1, <2>5 DEF Served
    <3>8. Follows(q, x, o, l, j, w, t)
      BY <2>3, <3>3, <3>5, <3>6, <3>7 DEF Follows
    <3> QED
      BY <1>9, <2>1, <3>8
  <2> QED
    BY <1>4, <2>4, <2>5
<1>11. CASE q = p
  <2>1. /\ t = <<>> /\ j.buffer = <<>> /\ j.stage \in {"opening", "failed"}
        /\ Tidy(q, session, j, w, t)
    <3>1. 1 \in 1 .. Len(w) /\ w[1] = Head(w) /\ Head(w).kind = "open"
      BY <1>2, <1>8, <1>9, <1>11
    <3> QED
      BY <1>8, <3>1 DEF Follows, Tidy
  <2>2. m \in Msg /\ Shaped(m) /\ Fits(x, m) /\ ~Carries(m) /\ m.rev = Len(x.ops)
    <3>1. Len(x.ops) \in Nat /\ Len(x.ops) \in 0 .. Len(x.ops)
      BY <1>8 DEF SessionOK
    <3>2. m.rev = Len(x.ops) /\ m.doc = DocAt(x, Len(x.ops))
      BY <1>5, <1>7 DEF Current, DocAt
    <3>3. m.doc \in Docs \cup {None}
      BY <1>8, <3>1, <3>2, DocAtOK
    <3> QED
      BY <1>5, <1>6, <3>1, <3>2, <3>3 DEF Msg, Kinds, Results, Shaped, Fits, Carries, Ops
  <2>3. u = IF l.state = "closed" THEN <<>> ELSE Append(t, m)
    BY <1>3, <1>8, <1>11 DEF Delivered
  <2>4. opened'[q] = x.life
    BY <1>3, <1>7, <1>8, <1>11
  <2> HIDE DEF o, l, j, w, t, v, u, x
  <2>5. Tidy(q, x, j, v, u)
    <3>1. u = <<>> \/ \E a \in Msg : u = Append(t, a) /\ Shaped(a) /\ (a.kind = "post" => j.stage \notin Joins)
      BY <1>5, <2>2, <2>3
    <3>2. w # <<>> /\ v = Tail(w)
      BY <1>9, <1>11
    <3> QED
      BY <1>8, <2>1, <3>1, <3>2, TidyServed
  <2>6. /\ u = <<>> \/ (Len(u) = 1 /\ u[1] = m)
        /\ l.state # "closed" => Len(j.buffer \o u) = 1 /\ (j.buffer \o u)[1] = m
    BY <2>1, <2>2, <2>3
  <2>7. Shown(x, x.life, j, u)
    <3>1. \A i \in 1 .. Len(u) : u[i] = m
      BY <2>6
    <3>2. \A i \in 1 .. Len(j.buffer) : FALSE
      BY <2>1
    <3>3. j.stage \notin Holding
      BY <2>1 DEF Holding
    <3> QED
      BY <2>2, <3>1, <3>2, <3>3 DEF Shown
  <2>8. l.state # "closed" => Continues(j, u, Len(x.ops))
    <3> HAVE l.state # "closed"
    <3>1. \A i \in 1 .. Len(j.buffer \o u) : i = 1 /\ (j.buffer \o u)[i] = m
      BY <2>6
    <3>2. \A i : Covers(j.buffer \o u, i, Len(x.ops), Len(x.ops))
      BY <1>8 DEF Covers, SessionOK
    <3>3. Orderly(j.buffer \o u, Len(x.ops))
      BY <2>2, <3>1, <3>2 DEF Orderly
    <3>4. j.stage \notin Holding /\ j.stage # "deciding"
      BY <2>1 DEF Holding
    <3> QED
      BY <3>3, <3>4 DEF Continues
  <2>9. Follows(q, x, x.life, l, j, v, u)
    <3>1. x.life \in Nat
      BY <1>8 DEF SessionOK
    <3> QED
      BY <2>5, <2>7, <2>8, <3>1 DEF Follows, Served
  <2> QED
    BY <1>9, <2>4, <2>9 DEF o, l, j, w, t, v, u, x
<1> QED
  BY <1>10, <1>11

-----------------------------------------------------------------------------
(* What windows do with what they were sent                                 *)

\* A step of one window that goes on following leaves all ports following.
LEMMA MovesShare ==
  ASSUME ShareInv, LinkInv', NEW p \in Ports, NEW l, NEW j, NEW w, NEW t, Moves(p, l, j, w, t),
         Follows(p, session, opened[p], l, j, w, t)
  PROVE  ShareInv'
<1>1. session' = session /\ opened' = opened
  BY DEF Moves, workerVars
<1>2. ASSUME NEW q \in Ports
      PROVE  Follows(q, session, opened[q], link'[q], join'[q], toWorker'[q], toPort'[q])
  BY DEF Moves, ShareInv
<1> QED
  BY <1>1, <1>2 DEF ShareInv

\* A window goes on with the document it has, and may ask for something.
LEMMA SameFollows ==
  ASSUME NEW p, NEW s, NEW o, NEW l, NEW j, NEW w \in Seq(Request), NEW t,
         Follows(p, s, o, l, j, w, t),
         NEW k, k.state = "open" => l.state = "open",
         NEW i, i.rev = j.rev, i.doc = j.doc, i.buffer = j.buffer,
         \/ i.stage = j.stage
         \/ j.stage \in Joins \cap Holding /\ i.stage \in (Joins \cap Holding) \ {"deciding"},
         NEW v,
         \/ v = w
         \/ \E m \in Request : /\ v = Append(w, m) /\ m.kind # "open"
                               /\ m.kind = "post" => i.stage \notin Joins
  PROVE  Follows(p, s, o, k, i, v, t)
<1>1. Tidy(p, s, i, v, t)
  <2>1. i.stage \in Joins <=> j.stage \in Joins
    OBVIOUS
  <2>2. i.stage = j.stage \/ j.stage \notin {"opening", "failed"}
    BY DEF Holding
  <2>3. CASE v = w
    BY <2>1, <2>2, <2>3 DEF Follows, Tidy
  <2>4. CASE \E m \in Request : /\ v = Append(w, m) /\ m.kind # "open"
                                /\ m.kind = "post" => i.stage \notin Joins
    <3>1. PICK m \in Request : /\ v = Append(w, m) /\ m.kind # "open"
                               /\ m.kind = "post" => i.stage \notin Joins
      BY <2>4
    <3>2. \A n \in 1 .. Len(v) : (n \in 1 .. Len(w) /\ v[n] = w[n]) \/ v[n] = m
      BY <3>1
    <3> QED
      BY <2>1, <2>2, <3>1, <3>2 DEF Follows, Tidy
  <2> QED
    BY <2>3, <2>4
<1>2. Shown(s, o, i, t)
  BY DEF Follows, Shown
<1>3. Served(p, s, k, i) => Continues(i, t, Len(s.ops))
  BY DEF Follows, Served, Continues
<1> QED
  BY <1>1, <1>2, <1>3 DEF Follows

\* The head of what was sent: no snapshot before it.
LEMMA HeadFollows ==
  ASSUME NEW p, NEW s, NEW o, NEW l, NEW j \in JoinState, NEW w \in Seq(Request),
         NEW t \in Seq(Msg), t # <<>>,
         Follows(p, s, o, l, j, w, t)
  PROVE  /\ Head(t) \in Msg /\ Tail(t) \in Seq(Msg) /\ Shaped(Head(t))
         /\ o = s.life /\ s.ports # {} => Fits(s, Head(t))
         /\ \A i \in 1 .. Len(j.buffer) : ~Snapshot(j.buffer[i])
         /\ \A i \in 1 .. Len(Tail(t)) : i + 1 \in 1 .. Len(t) /\ Tail(t)[i] = t[i + 1]
         /\ \A i \in 1 .. Len(w) : w[i].kind # "open"
<1>1. 1 \in 1 .. Len(t) /\ Head(t) = t[1] /\ Head(t) \in Msg /\ Tail(t) \in Seq(Msg)
      /\ \A i \in 1 .. Len(Tail(t)) : i + 1 \in 1 .. Len(t) /\ Tail(t)[i] = t[i + 1]
  OBVIOUS
<1>2. \A i \in 1 .. Len(j.buffer) : ~Snapshot(j.buffer[i])
  BY DEF Follows, Tidy, Snapshot
<1> QED
  BY <1>1, <1>2 DEF Follows, Tidy, Shown

\* A tidy port is tidy without its first message.
LEMMA TidyTail ==
  ASSUME NEW p, NEW s, NEW o, NEW l, NEW j \in JoinState, NEW w \in Seq(Request),
         NEW t \in Seq(Msg), t # <<>>,
         Follows(p, s, o, l, j, w, t)
  PROVE  Tidy(p, s, j, w, Tail(t))
BY HeadFollows DEF Follows, Tidy

\* A message is passed over that carries no op, or that nobody waits for.
LEMMA PoppedFollows ==
  ASSUME NEW p, NEW s, SessionOK(s), NEW o, NEW l, NEW j \in JoinState, NEW w \in Seq(Request),
         NEW t \in Seq(Msg), t # <<>>, Follows(p, s, o, l, j, w, t),
         ~Carries(Head(t)) \/ j.stage \in {"left", "failed"}
  PROVE  Follows(p, s, o, l, j, w, Tail(t))
<1> DEFINE h == Head(t)  u == Tail(t)  n == Len(s.ops)  b == j.buffer
<1>1. /\ \A i \in 1 .. Len(b) : ~Snapshot(b[i])
      /\ \A i \in 1 .. Len(u) : i + 1 \in 1 .. Len(t) /\ u[i] = t[i + 1]
  BY HeadFollows
<1>2. b \in Seq(Msg) /\ j.rev \in Nat /\ n \in Nat
  BY DEF JoinState, SessionOK
<1>3. Tidy(p, s, j, w, u)
  BY TidyTail
<1>4. Shown(s, o, j, u)
  <2> HIDE DEF u
  <2> QED
    BY <1>1 DEF Follows, Shown
<1>5. Served(p, s, l, j) => Continues(j, u, n)
  <2> HAVE Served(p, s, l, j)
  <2>1. Continues(j, t, n) /\ ~Carries(h)
    BY DEF Follows, Served, Holding
  <2>2. Orderly(b \o u, n)
    BY <1>1, <1>2, <2>1, PoppedOrder DEF Continues
  <2>3. j.stage \in Holding => Covers(b \o u, 0, j.rev, n)
    <3> HAVE j.stage \in Holding
    <3>1. Covers(b \o t, 0, j.rev, n) /\ j.rev <= j.rev
      BY <1>2, <2>1 DEF Continues
    <3> QED
      BY <1>2, <2>1, <3>1, PoppedCovers
  <2>4. j.stage \in Holding => \A i \in 1 .. Len(u) : Carries(u[i]) => j.rev < u[i].rev
    <3> HIDE DEF u
    <3> QED
      BY <1>1, <2>1 DEF Continues
  <2> HIDE DEF u
  <2> QED
    BY <2>1, <2>2, <2>3, <2>4 DEF Continues
<1> QED
  BY <1>3, <1>4, <1>5 DEF Follows

\* A window gives up: it shows and waits for nothing any more.
LEMMA OverFollows ==
  ASSUME NEW p, NEW s, NEW o, NEW l, NEW j \in JoinState, NEW w \in Seq(Request),
         NEW t \in Seq(Msg), Follows(p, s, o, l, j, w, t),
         NEW k, NEW i, i.buffer = <<>>, i.stage = "failed" \/ (i.stage = "left" /\ j.stage = "joined"),
         NEW v, v = w \/ v = Append(w, Request1("close", 0, None)),
         NEW u, u = t \/ u = <<>> \/ (t # <<>> /\ u = Tail(t))
  PROVE  Follows(p, s, o, k, i, v, u)
<1>1. \A n \in 1 .. Len(v) : (n \in 1 .. Len(w) /\ v[n] = w[n]) \/ v[n].kind = "close"
  <2>1. CASE v = w
    BY <2>1
  <2>2. CASE v = Append(w, Request1("close", 0, None))
    BY <2>2 DEF Request1
  <2> QED
    BY <2>1, <2>2
<1>2. \A n \in 1 .. Len(u) : \E m \in 1 .. Len(t) : u[n] = t[m]
  <2>1. CASE t # <<>> /\ u = Tail(t)
    BY <2>1
  <2>2. CASE u = t
    BY <2>2
  <2>3. CASE u = <<>>
    BY <2>3
  <2> QED
    BY <2>1, <2>2, <2>3
<1>3. /\ \A n \in 1 .. Len(u) : Shaped(u[n]) /\ (o = s.life /\ s.ports # {} => Fits(s, u[n]))
  BY <1>2 DEF Follows, Tidy, Shown
<1>4. i.stage \notin Joins /\ i.stage \notin Holding \cup {"opening"}
  BY DEF Joins, Holding
<1>5. \A n \in 1 .. Len(i.buffer) : FALSE
  OBVIOUS
<1>6. ASSUME NEW n \in 1 .. Len(v), v[n].kind = "open"
      PROVE  n = 1 /\ p \notin s.ports /\ u = <<>> /\ i.stage = "failed"
  <2>1. n \in 1 .. Len(w) /\ w[n].kind = "open"
    BY <1>1, <1>6
  <2>2. n = 1 /\ p \notin s.ports /\ t = <<>> /\ j.stage # "joined"
    BY <2>1 DEF Follows, Tidy
  <2> QED
    BY <2>2
<1>7. Tidy(p, s, i, v, u)
  BY <1>3, <1>4, <1>5, <1>6 DEF Tidy
<1> QED
  BY <1>3, <1>4, <1>5, <1>7 DEF Follows, Shown, Served

\* A connection is closed under a window that keeps what it shows.
LEMMA ClosedFollows ==
  ASSUME NEW p, NEW s, NEW o, NEW l, NEW j, NEW w, NEW t, Follows(p, s, o, l, j, w, t),
         NEW k, k.state = "closed"
  PROVE  Follows(p, s, o, k, j, w, <<>>)
<1>1. \A n \in 1 .. Len(<<>>) : FALSE
  OBVIOUS
<1>2. Tidy(p, s, j, w, <<>>) /\ Shown(s, o, j, <<>>)
  BY <1>1 DEF Follows, Tidy, Shown
<1> QED
  BY <1>2 DEF Follows, Served

\* An event that waits keeps its place in the line.
LEMMA Shifted ==
  ASSUME NEW b \in Seq(Msg), NEW t \in Seq(Msg), t # <<>>
  PROVE  Append(b, Head(t)) \o Tail(t) = b \o t
<1> DEFINE c == Append(b, Head(t))  u == Tail(t)
<1>1. /\ c \in Seq(Msg) /\ Len(c) = Len(b) + 1 /\ Len(b) \in Nat
      /\ \A i \in 1 .. Len(b) : c[i] = b[i]
      /\ c[Len(b) + 1] = t[1]
      /\ u \in Seq(Msg) /\ Len(u) = Len(t) - 1 /\ Len(t) \in Nat
      /\ \A i \in 1 .. Len(u) : u[i] = t[i + 1]
      /\ 1 \in 1 .. Len(t)
  OBVIOUS
<1> HIDE DEF c, u
<1>2. /\ c \o u \in Seq(Msg) /\ Len(c \o u) = Len(b) + Len(t)
      /\ b \o t \in Seq(Msg) /\ Len(b \o t) = Len(b) + Len(t)
  <2>1. c \o u \in Seq(Msg) /\ Len(c \o u) = Len(c) + Len(u)
    <3>1. c \in Seq(Msg) /\ u \in Seq(Msg)
      BY <1>1
    <3> QED
      BY <3>1
  <2>2. b \o t \in Seq(Msg) /\ Len(b \o t) = Len(b) + Len(t)
    OBVIOUS
  <2>3. Len(c) + Len(u) = Len(b) + Len(t)
    BY <1>1
  <2> QED
    BY <2>1, <2>2, <2>3
<1>3. ASSUME NEW i \in 1 .. Len(b) + Len(t)
      PROVE  (c \o u)[i] = (b \o t)[i]
  <2>1. CASE i <= Len(b)
    <3>1. i \in 1 .. Len(b) /\ i \in 1 .. Len(c)
      BY <1>1, <2>1
    <3> QED
      BY <1>1, <3>1, InLine
  <2>2. CASE i = Len(b) + 1
    <3>1. i \in 1 .. Len(c) /\ (b \o t)[Len(b) + 1] = t[1]
      BY <1>1, <2>2, InLine
    <3> QED
      BY <1>1, <2>2, <3>1, InLine
  <2>3. CASE i > Len(b) + 1
    <3> DEFINE k == i - (Len(b) + 1)
    <3>1. /\ k \in 1 .. Len(u) /\ k + 1 \in 1 .. Len(t)
          /\ Len(c) + k = i /\ Len(b) + (k + 1) = i
      BY <1>1, <1>3, <2>3
    <3> HIDE DEF k
    <3>2. (c \o u)[Len(c) + k] = u[k]
      BY <1>1, <3>1, InLine
    <3>3. (b \o t)[Len(b) + (k + 1)] = t[k + 1]
      BY <3>1, InLine
    <3> QED
      BY <1>1, <3>1, <3>2, <3>3
  <2> QED
    BY <1>1, <1>3, <2>1, <2>2, <2>3
<1>4. c \o u = b \o t
  <2>1. /\ c \o u = [i \in 1 .. Len(c \o u) |-> (c \o u)[i]]
        /\ b \o t = [i \in 1 .. Len(b \o t) |-> (b \o t)[i]]
    <3>1. \A x \in Seq(Msg) : x = [i \in 1 .. Len(x) |-> x[i]]
      OBVIOUS
    <3> QED
      BY <1>2, <3>1
  <2> QED
    BY <1>2, <1>3, <2>1
<1> QED
  BY <1>4 DEF c, u

\* An event waits for the session that is being made.
LEMMA BufferedFollows ==
  ASSUME NEW p, NEW s, SessionOK(s), NEW o, NEW l, NEW j \in JoinState, NEW w \in Seq(Request),
         NEW t \in Seq(Msg), t # <<>>, Follows(p, s, o, l, j, w, t), Head(t).kind = "op",
         j.stage \in Joins \ {"deciding"},
         NEW i, i.buffer = Append(j.buffer, Head(t)), i.stage = j.stage, i.rev = j.rev,
         i.doc = j.doc
  PROVE  Follows(p, s, o, l, i, w, Tail(t))
<1> DEFINE h == Head(t)  u == Tail(t)  b == j.buffer
<1>1. /\ h \in Msg /\ u \in Seq(Msg) /\ Shaped(h)
      /\ o = s.life /\ s.ports # {} => Fits(s, h)
      /\ \A n \in 1 .. Len(u) : n + 1 \in 1 .. Len(t) /\ u[n] = t[n + 1]
      /\ \A n \in 1 .. Len(w) : w[n].kind # "open"
  <2> HIDE DEF h, u
  <2>1. /\ Head(t) \in Msg /\ Tail(t) \in Seq(Msg) /\ Shaped(Head(t))
        /\ o = s.life /\ s.ports # {} => Fits(s, Head(t))
        /\ \A n \in 1 .. Len(Tail(t)) : n + 1 \in 1 .. Len(t) /\ Tail(t)[n] = t[n + 1]
        /\ \A n \in 1 .. Len(w) : w[n].kind # "open"
    <3>1. Shaped(Head(t)) /\ Head(t) \in Msg /\ Tail(t) \in Seq(Msg)
      BY HeadFollows
    <3>2. o = s.life /\ s.ports # {} => Fits(s, Head(t))
      BY HeadFollows
    <3>3. \A n \in 1 .. Len(Tail(t)) : n + 1 \in 1 .. Len(t) /\ Tail(t)[n] = t[n + 1]
      OBVIOUS
    <3>4. \A a \in 1 .. Len(w) : w[a].kind # "open"
      BY DEF Follows, Tidy
    <3> QED
      BY <3>1, <3>2, <3>3, <3>4
  <2> QED
    BY <2>1 DEF h, u
<1>2. /\ i.buffer = Append(b, h) /\ i.stage = j.stage /\ i.rev = j.rev /\ i.doc = j.doc
      /\ b \in Seq(Msg)
  BY DEF JoinState
<1>3. i.buffer \o u = b \o t
  BY <1>2, Shifted
<1> HIDE DEF h, u, b
<1>4. \A n \in 1 .. Len(i.buffer) : (n \in 1 .. Len(b) /\ i.buffer[n] = b[n]) \/ i.buffer[n] = h
  <2>1. \A n \in 1 .. Len(Append(b, h)) : (n \in 1 .. Len(b) /\ Append(b, h)[n] = b[n]) \/ Append(b, h)[n] = h
    BY <1>1, <1>2
  <2> QED
    BY <1>2, <2>1
<1>5. Tidy(p, s, i, w, u)
  <2>1. Tidy(p, s, j, w, u)
    BY TidyTail DEF u
  <2>2. h.kind = "op" /\ h.result = "op"
    BY <1>1 DEF Shaped, h
  <2> QED
    BY <1>1, <1>2, <1>4, <2>1, <2>2 DEF Tidy, b
<1>6. Shown(s, o, i, u)
  BY <1>1, <1>2, <1>4 DEF Follows, Shown, b
<1>7. Served(p, s, l, i) => Continues(i, u, Len(s.ops))
  <2> HAVE Served(p, s, l, i)
  <2>1. Continues(j, t, Len(s.ops))
    BY <1>2 DEF Follows, Served
  <2> QED
    BY <1>1, <1>2, <1>3, <2>1 DEF Continues, b
<1> QED
  BY <1>5, <1>6, <1>7 DEF Follows, u

\* The snapshot a join asked for, or its own op: it goes on from there.
LEMMA RenewedFollows ==
  ASSUME NEW p, NEW s, SessionOK(s), NEW o, NEW l, NEW j \in JoinState, NEW w \in Seq(Request),
         NEW t \in Seq(Msg), t # <<>>, Follows(p, s, o, l, j, w, t), j.stage \in Joins,
         Snapshot(Head(t)) \/ (Carries(Head(t)) /\ j.stage \in Holding),
         NEW k, k.state = "open" => l.state = "open",
         NEW i, i.stage = "deciding", i.rev = Head(t).rev, i.doc = Head(t).doc,
         i.buffer = j.buffer
  PROVE  Follows(p, s, o, k, i, w, Tail(t))
<1> DEFINE h == Head(t)  u == Tail(t)  b == j.buffer  n == Len(s.ops)
           y == b \o t  z == b \o u
<1>1. /\ h \in Msg /\ h.rev \in Nat /\ u \in Seq(Msg) /\ n \in Nat /\ j.rev \in Nat
      /\ o = s.life /\ s.ports # {} => Fits(s, h)
      /\ \A a \in 1 .. Len(u) : a + 1 \in 1 .. Len(t) /\ u[a] = t[a + 1]
      /\ \A a \in 1 .. Len(w) : w[a].kind # "open"
      /\ b \in Seq(Msg) /\ \A a \in 1 .. Len(b) : ~Snapshot(b[a]) /\ b[a] \in Msg
  <2>1. /\ Head(t) \in Msg /\ Tail(t) \in Seq(Msg) /\ Shaped(Head(t))
        /\ o = s.life /\ s.ports # {} => Fits(s, Head(t))
        /\ \A a \in 1 .. Len(Tail(t)) : a + 1 \in 1 .. Len(t) /\ Tail(t)[a] = t[a + 1]
        /\ \A a \in 1 .. Len(w) : w[a].kind # "open"
        /\ \A a \in 1 .. Len(j.buffer) : ~Snapshot(j.buffer[a])
    BY HeadFollows
  <2>2. b \in Seq(Msg) /\ j.rev \in Nat /\ n \in Nat
    BY DEF JoinState, SessionOK
  <2>3. \A m \in Msg : m.rev \in Nat
    BY DEF Msg
  <2> HIDE DEF n
  <2> QED
    BY <2>1, <2>2, <2>3
<1>2. Tidy(p, s, i, w, u)
  <2>1. Tidy(p, s, j, w, u)
    BY TidyTail
  <2> HIDE DEF u
  <2> QED
    BY <1>1, <2>1 DEF Tidy, Joins
<1>3. Shown(s, o, i, u)
  <2> HIDE DEF u
  <2> QED
    BY <1>1 DEF Follows, Shown, Fits
<1>4. Served(p, s, k, i) => Continues(i, u, n)
  <2> HAVE Served(p, s, k, i)
  <2>1. Continues(j, t, n)
    BY DEF Follows, Served, Joins, Holding
  <2>2. Orderly(y, n) /\ Orderly(z, n)
    BY <1>1, <2>1, PoppedOrder DEF Continues
  <2>3. /\ Len(b) + 1 \in 1 .. Len(y) /\ y[Len(b) + 1] = h /\ Len(b) \in Nat
        /\ Len(y) \in Nat /\ Len(z) \in Nat
        /\ \A a \in 1 .. Len(b) : a \in 1 .. Len(y) /\ y[a] = b[a]
        /\ \A a \in 1 .. Len(t) : Len(b) + a \in 1 .. Len(y) /\ y[Len(b) + a] = t[a]
        /\ \A a \in 1 .. Len(y) :
             a > Len(b) + 1 => a - 1 \in 1 .. Len(z) /\ z[a - 1] = y[a]
    <3>1. y \in Seq(Msg) /\ z \in Seq(Msg)
      BY <1>1, InLine
    <3>2. /\ Len(b) + 1 \in 1 .. Len(y) /\ y[Len(b) + 1] = h
          /\ \A a \in 1 .. Len(y) :
               a > Len(b) + 1 => a - 1 \in 1 .. Len(z) /\ z[a - 1] = y[a]
      BY <1>1, Popped
    <3>3. /\ \A a \in 1 .. Len(b) : a \in 1 .. Len(y) /\ y[a] = b[a]
          /\ \A a \in 1 .. Len(t) : Len(b) + a \in 1 .. Len(y) /\ y[Len(b) + a] = t[a]
      BY <1>1, InLine
    <3>4. Len(b) \in Nat /\ Len(y) \in Nat /\ Len(z) \in Nat
      BY <1>1, <3>1
    <3> HIDE DEF h, u, b, y, z
    <3> QED
      BY <3>2, <3>3, <3>4
  <2>4. Covers(z, 0, h.rev, n)
    <3>1. CASE Snapshot(h)
      <4> HIDE DEF h, u, b, n, y, z
      <4> SUFFICES ASSUME NEW x \in h.rev + 1 .. n
                   PROVE  \E a \in 0 + 1 .. Len(z) : Carries(z[a]) /\ z[a].rev = x
        BY DEF Covers
      <4>1. Covers(y, Len(b) + 1, h.rev, n)
        BY <2>2, <2>3, <3>1 DEF Orderly
      <4>2. PICK a \in (Len(b) + 1) + 1 .. Len(y) : Carries(y[a]) /\ y[a].rev = x
        BY <4>1 DEF Covers
      <4>3. a \in 1 .. Len(y) /\ a > Len(b) + 1
        BY <2>3, <4>2
      <4> QED
        BY <2>3, <4>2, <4>3
    <3>2. CASE Carries(h) /\ j.stage \in Holding
      <4>1. Covers(y, 0, j.rev, n) /\ j.rev <= h.rev
        <5>1. 1 \in 1 .. Len(t) /\ t[1] = h
          OBVIOUS
        <5>2. j.rev < h.rev
          BY <2>1, <3>2, <5>1 DEF Continues
        <5> QED
          BY <1>1, <2>1, <3>2, <5>2 DEF Continues
      <4> QED
        BY <1>1, <4>1, PoppedCovers
    <3> QED
      BY <3>1, <3>2
  <2>5. \A a \in 1 .. Len(u) : Carries(u[a]) => h.rev < u[a].rev
    <3> TAKE a \in 1 .. Len(u)
    <3> HAVE Carries(u[a])
    <3>1. a + 1 \in 1 .. Len(t) /\ u[a] = t[a + 1]
      BY <1>1
    <3>2. Len(b) + (a + 1) \in 1 .. Len(y) /\ y[Len(b) + (a + 1)] = u[a]
          /\ Len(b) + 1 < Len(b) + (a + 1)
      <4>1. a \in Nat /\ 0 < a
        OBVIOUS
      <4> HIDE DEF h, u, b, y, z
      <4> QED
        BY <2>3, <3>1, <4>1
    <3> HIDE DEF h, u, b, n, y, z
    <3> QED
      BY <2>2, <2>3, <3>2 DEF Orderly, h
  <2>6. \A a \in 1 .. Len(b) : b[a].rev <= h.rev
    <3> TAKE a \in 1 .. Len(b)
    <3>1. Carries(b[a]) /\ b[a].rev \in Nat
      <4>1. b[a].result = "op"
        BY DEF Follows, Tidy
      <4>2. b[a] \in Msg
        BY <1>1
      <4> QED
        BY <4>1, <4>2 DEF Carries, Msg
    <3>2. a \in 1 .. Len(y) /\ y[a] = b[a] /\ a < Len(b) + 1
      BY <2>3
    <3> HIDE DEF h, u, b, n, y, z
    <3>3. Carries(h) => b[a].rev < h.rev
      BY <2>2, <2>3, <3>1, <3>2 DEF Orderly
    <3>4. Snapshot(h) => b[a].rev <= h.rev
      BY <2>2, <2>3, <3>1, <3>2 DEF Orderly
    <3> QED
      BY <1>1, <3>1, <3>3, <3>4 DEF h
  <2> HIDE DEF h, u, n
  <2> QED
    BY <2>2, <2>4, <2>5, <2>6 DEF Continues, h
<1> QED
  BY <1>2, <1>3, <1>4 DEF Follows

\* The next op is ingested by a session that has joined.
LEMMA TakenFollows ==
  ASSUME NEW p, NEW s, SessionOK(s), NEW o, NEW l, NEW j \in JoinState,
         NEW w \in Seq(Request),
         NEW t \in Seq(Msg), t # <<>>,
         Follows(p, s, o, l, j, w, t), p \in s.ports => o = s.life,
         j.stage = "joined", Carries(Head(t)),
         NEW k, k.state = "open" => l.state = "open"
  PROVE  Follows(p, s, o, k, Ingest(j, Head(t)), w, Tail(t))
<1> DEFINE h == Head(t)  u == Tail(t)  n == Len(s.ops)  i == Ingest(j, h)
<1>1. /\ h \in Msg /\ h.rev \in Nat /\ u \in Seq(Msg) /\ n \in Nat /\ j.rev \in Nat
      /\ \A a \in 1 .. Len(u) : a + 1 \in 1 .. Len(t) /\ u[a] = t[a + 1]
      /\ 1 \in 1 .. Len(t) /\ t[1] = h
  <2>1. h \in Msg /\ u \in Seq(Msg)
        /\ \A a \in 1 .. Len(u) : a + 1 \in 1 .. Len(t) /\ u[a] = t[a + 1]
    OBVIOUS
  <2>2. j.rev \in Nat /\ n \in Nat /\ h.rev \in Nat
    BY <2>1 DEF JoinState, SessionOK, Msg
  <2> QED
    BY <2>1, <2>2
<1>2. o = s.life /\ s.ports # {} => Fits(s, h)
  BY HeadFollows
<1>3. /\ i.stage = "joined" /\ i.buffer = <<>> /\ j.buffer = <<>>
      /\ IF h.rev = j.rev + 1 THEN i.rev = h.rev /\ i.doc = h.doc ELSE i = j
  <2>1. j.buffer = <<>>
    BY DEF Follows, Tidy, Joins
  <2> QED
    BY <2>1 DEF Ingest, JoinState
<1>4. Tidy(p, s, i, w, u)
  <2>1. Tidy(p, s, j, w, u)
    BY TidyTail
  <2> HIDE DEF u, i
  <2> QED
    BY <1>3, <2>1 DEF Tidy, Joins
<1>5. Shown(s, o, i, u)
  <2> HIDE DEF u, i, h
  <2>1. \A a \in 1 .. Len(<<>>) : FALSE
    OBVIOUS
  <2> SUFFICES ASSUME o = s.life, s.ports # {} PROVE Shown(s, o, i, u)
    BY DEF Shown
  <2>2. /\ \A a \in 1 .. Len(t) : Fits(s, t[a])
        /\ j.rev <= Len(s.ops) /\ j.doc = DocAt(s, j.rev)
    BY DEF Follows, Shown, Holding
  <2>3. h.rev <= Len(s.ops) /\ h.doc = DocAt(s, h.rev)
    BY <1>2 DEF Fits, h
  <2>4. i.rev <= Len(s.ops) /\ i.doc = DocAt(s, i.rev)
    BY <1>3, <2>2, <2>3
  <2>5. \A a \in 1 .. Len(u) : Fits(s, u[a])
    BY <1>1, <2>2
  <2> QED
    BY <1>3, <2>1, <2>4, <2>5 DEF Shown
<1>6. Served(p, s, k, i) => Continues(i, u, n)
  <2> HAVE Served(p, s, k, i)
  <2>1. Continues(j, t, n) /\ Shown(s, o, j, t) /\ Fits(s, h)
    BY <1>2, <1>3 DEF Follows, Served, Holding
  <2>2. /\ j.buffer \o t = t /\ j.buffer \o u = u /\ <<>> \in Seq(Msg) /\ Len(<<>>) = 0
        /\ \A a \in 1 .. Len(<<>>) : FALSE
    BY <1>1, <1>3
  <2>3. Orderly(t, n) /\ Covers(t, 0, j.rev, n) /\ \A a \in 1 .. Len(t) : Carries(t[a]) => j.rev < t[a].rev
    BY <1>3, <2>1, <2>2 DEF Continues, Holding
  <2>4. h.rev \in j.rev + 1 .. n
    BY <1>1, <2>1, <2>3 DEF Fits
  <2>5. h.rev = j.rev + 1
    <3>1. j.rev + 1 \in j.rev + 1 .. n
      BY <1>1, <2>4
    <3>2. PICK a \in 1 .. Len(t) : Carries(t[a]) /\ t[a].rev = j.rev + 1
      BY <2>3, <3>1 DEF Covers
    <3>3. a = 1 \/ 1 < a
      OBVIOUS
    <3> HIDE DEF h, n
    <3>4. h.rev <= j.rev + 1
      BY <1>1, <2>3, <3>2, <3>3 DEF Orderly, h
    <3> QED
      BY <1>1, <2>4, <3>4
  <2>6. i.rev = h.rev
    BY <1>3, <2>5
  <2>7. Orderly(u, n)
    <3>1. \A a \in 1 .. Len(<<>>) : ~Snapshot(<<>>[a])
      BY <2>2
    <3>2. Orderly(<<>> \o t, n)
      BY <1>3, <2>2, <2>3
    <3>3. Orderly(<<>> \o u, n)
      BY <1>1, <2>2, <3>1, <3>2, PoppedOrder
    <3> QED
      BY <1>3, <2>2, <3>3
  <2>8. Covers(u, 0, h.rev, n)
    <3>1. Covers(<<>> \o t, 0, j.rev, n) /\ j.rev <= h.rev
      BY <1>1, <1>3, <2>2, <2>3, <2>4
    <3>2. Covers(<<>> \o u, 0, h.rev, n)
      <4>1. <<>> \in Seq(Msg) /\ n \in Nat /\ j.rev \in Nat /\ h.rev \in Nat
        BY <1>1, <2>2
      <4>2. Carries(h) => h.rev <= h.rev
        BY <4>1
      <4> HIDE DEF n
      <4> QED
        BY <3>1, <4>1, <4>2, PoppedCovers
    <3> QED
      BY <1>3, <2>2, <3>2
  <2>9. \A a \in 1 .. Len(u) : Carries(u[a]) => h.rev < u[a].rev
    <3> TAKE a \in 1 .. Len(u)
    <3>1. a + 1 \in 1 .. Len(t) /\ u[a] = t[a + 1] /\ 1 < a + 1
      BY <1>1
    <3> HIDE DEF h, u
    <3> QED
      BY <1>1, <2>3, <3>1 DEF Orderly, h
  <2> HIDE DEF h, u, n, i
  <2>10. i.buffer \o u = u
    BY <1>3, <2>2
  <2> QED
    BY <1>3, <2>2, <2>6, <2>7, <2>8, <2>9, <2>10 DEF Continues
<1> QED
  BY <1>4, <1>5, <1>6 DEF Follows

\* What the join has buffered is none of the session's business: all of it is
\* in the document the session begins with.
LEMMA JoinFollows ==
  ASSUME NEW p, NEW s, SessionOK(s), NEW o, NEW l, NEW j \in JoinState,
         NEW w \in Seq(Request), NEW t \in Seq(Msg), Follows(p, s, o, l, j, w, t),
         p \in s.ports => o = s.life,
         j.stage = "deciding"
  PROVE  Follows(p, s, o, l, IngestAll(Over(j, "joined"), j.buffer), w, t)
<1> DEFINE b == j.buffer  e == Over(j, "joined")  i == IngestAll(e, b)  n == Len(s.ops)
           y == b \o t
<1>1. /\ b \in Seq(Msg) /\ j.rev \in Nat /\ n \in Nat
      /\ e \in JoinState /\ e.stage = "joined" /\ e.buffer = <<>>
      /\ e.rev = j.rev /\ e.doc = j.doc
  <2>1. b \in Seq(Msg) /\ j.rev \in Nat /\ n \in Nat
    BY DEF JoinState, SessionOK
  <2>2. "joined" \in Stages
    BY DEF Stages
  <2> HIDE DEF b, n
  <2> QED
    BY <2>1, <2>2, JoinShapes
<1>2. i.stage = "joined" /\ i.buffer = <<>>
  <2> DEFINE H == Nat \X (Docs \cup {None})
  <2>1. <<e.rev, e.doc>> \in H
    BY <1>1 DEF JoinState
  <2>2. \A a \in 1 .. Len(b) : <<b[a].rev, b[a].doc>> \in H
    <3>1. \A a \in 1 .. Len(b) : b[a] \in Msg
      BY <1>1
    <3> QED
      BY <3>1 DEF Msg
  <2> HIDE DEF H, b, e
  <2>3. Ingested(H, e, b, i)
    BY <1>1, <2>1, <2>2, IngestAllOK
  <2> QED
    BY <1>1, <2>3 DEF Ingested
<1>3. Tidy(p, s, i, w, t)
  <2> HIDE DEF i
  <2>1. \A a \in 1 .. Len(<<>>) : FALSE
    OBVIOUS
  <2> QED
    BY <1>2, <2>1 DEF Follows, Tidy, Joins
<1>4. Shown(s, o, i, t)
  <2> SUFFICES ASSUME o = s.life, s.ports # {} PROVE Shown(s, o, i, t)
    BY DEF Shown
  <2> DEFINE H == {<<r, DocAt(s, r)>> : r \in 0 .. n}
  <2>1. Shown(s, o, j, t)
    BY DEF Follows
  <2>2. <<e.rev, e.doc>> \in H
    <3>1. j.rev <= n /\ j.doc = DocAt(s, j.rev)
      BY <2>1 DEF Shown, Holding
    <3> QED
      BY <1>1, <3>1
  <2>3. \A a \in 1 .. Len(b) : <<b[a].rev, b[a].doc>> \in H
    <3> TAKE a \in 1 .. Len(b)
    <3>1. Fits(s, b[a]) /\ b[a].result = "op" /\ b[a] \in Msg
      BY <1>1, <2>1 DEF Shown, Follows, Tidy
    <3>2. b[a].rev \in Nat /\ b[a].rev <= n /\ b[a].doc = DocAt(s, b[a].rev)
      BY <3>1 DEF Fits, Carries, Msg
    <3> QED
      BY <1>1, <3>2
  <2>4. Ingested(H, e, b, i)
    <3> HIDE DEF H, b, e
    <3> QED
      BY <1>1, <2>2, <2>3, IngestAllOK
  <2>5. i.rev <= n /\ i.doc = DocAt(s, i.rev)
    <3>1. <<i.rev, i.doc>> \in H
      <4> HIDE DEF H
      <4> QED
        BY <2>4 DEF Ingested
    <3>2. PICK r \in 0 .. n : <<i.rev, i.doc>> = <<r, DocAt(s, r)>>
      <4> HIDE DEF i, n
      <4> QED
        BY <3>1
    <3> HIDE DEF i
    <3> QED
      BY <1>1, <3>2
  <2>6. \A a \in 1 .. Len(<<>>) : FALSE
    OBVIOUS
  <2> HIDE DEF i
  <2> QED
    BY <1>2, <2>1, <2>5, <2>6 DEF Shown
<1>5. Served(p, s, l, i) => Continues(i, t, n)
  <2> HAVE Served(p, s, l, i)
  <2>1. Continues(j, t, n)
    BY DEF Follows, Served, Holding
  <2>2. /\ Orderly(y, n) /\ Covers(y, 0, j.rev, n)
        /\ \A a \in 1 .. Len(t) : Carries(t[a]) => j.rev < t[a].rev
        /\ \A a \in 1 .. Len(b) : b[a].rev <= j.rev
    BY <2>1 DEF Continues, Holding
  <2>3. i = e
    <3> DEFINE H == Nat \X (Docs \cup {None})
    <3>1. <<e.rev, e.doc>> \in H
      BY <1>1 DEF JoinState
    <3>2. \A a \in 1 .. Len(b) : <<b[a].rev, b[a].doc>> \in H
      <4>1. \A a \in 1 .. Len(b) : b[a] \in Msg
        BY <1>1
      <4> QED
        BY <4>1 DEF Msg
    <3> HIDE DEF H, b, e
    <3>3. Ingested(H, e, b, i)
      BY <1>1, <3>1, <3>2, IngestAllOK
    <3>4. \A a \in 1 .. Len(b) : b[a].rev <= e.rev
      BY <1>1, <2>2
    <3> QED
      BY <3>3, <3>4 DEF Ingested
  <2>4. /\ Len(b) \in Nat /\ Len(t) \in Nat /\ Len(y) = Len(b) + Len(t)
        /\ \A a \in 1 .. Len(t) : Len(b) + a \in 1 .. Len(y) /\ y[Len(b) + a] = t[a]
        /\ \A a \in 1 .. Len(y) :
             \/ a \in 1 .. Len(b) /\ y[a] = b[a]
             \/ a - Len(b) \in 1 .. Len(t) /\ y[a] = t[a - Len(b)]
    <3>1. \A a \in 1 .. Len(b) : y[a] = b[a]
      BY <1>1, InLine
    <3> QED
      BY <1>1, <3>1, InLine
  <2>5. <<>> \o t = t
    OBVIOUS
  <2> HIDE DEF b, e, i, n, y
  <2>6. Covers(t, 0, j.rev, n)
    <3> SUFFICES ASSUME NEW x \in j.rev + 1 .. n
                 PROVE  \E a \in 0 + 1 .. Len(t) : Carries(t[a]) /\ t[a].rev = x
      BY DEF Covers
    <3>1. PICK a \in 1 .. Len(y) : Carries(y[a]) /\ y[a].rev = x
      BY <2>2 DEF Covers
    <3>2. x > j.rev
      BY <1>1
    <3>3. ~(a \in 1 .. Len(b) /\ y[a] = b[a])
      BY <1>1, <2>2, <3>1, <3>2
    <3>4. a - Len(b) \in 1 .. Len(t) /\ y[a] = t[a - Len(b)]
      BY <2>4, <3>3
    <3> QED
      BY <3>1, <3>4
  <2>7. Orderly(t, n)
    <3>1. \A a, c \in 1 .. Len(t) : a < c /\ Carries(t[a]) /\ Carries(t[c]) => t[a].rev < t[c].rev
      <4> TAKE a, c \in 1 .. Len(t)
      <4>1. a < c => Len(b) + a < Len(b) + c
        BY <2>4
      <4> QED
        BY <2>2, <2>4, <4>1 DEF Orderly
    <3>2. ASSUME NEW a \in 1 .. Len(t), Snapshot(t[a])
          PROVE  /\ Covers(t, a, t[a].rev, n)
                 /\ \A c \in 1 .. Len(t) : Carries(t[c]) =>
                      (c < a => t[c].rev <= t[a].rev) /\ (a < c => t[a].rev < t[c].rev)
      <4>1. Covers(y, Len(b) + a, t[a].rev, n)
        BY <2>2, <2>4, <3>2 DEF Orderly
      <4>2. Covers(t, a, t[a].rev, n)
        <5> SUFFICES ASSUME NEW x \in t[a].rev + 1 .. n
                     PROVE  \E c \in a + 1 .. Len(t) : Carries(t[c]) /\ t[c].rev = x
          BY DEF Covers
        <5>1. PICK c \in (Len(b) + a) + 1 .. Len(y) : Carries(y[c]) /\ y[c].rev = x
          BY <4>1 DEF Covers
        <5>2. c \in 1 .. Len(y) /\ c > Len(b) /\ c - Len(b) \in a + 1 .. Len(t)
          BY <2>4, <5>1
        <5>3. y[c] = t[c - Len(b)]
          BY <2>4, <5>2, SMTT(30)
        <5> QED
          BY <5>1, <5>2, <5>3
      <4>3. ASSUME NEW c \in 1 .. Len(t), Carries(t[c])
            PROVE  (c < a => t[c].rev <= t[a].rev) /\ (a < c => t[a].rev < t[c].rev)
        <5>1. (c < a => Len(b) + c < Len(b) + a) /\ (a < c => Len(b) + a < Len(b) + c)
          BY <2>4
        <5> QED
          BY <2>2, <2>4, <3>2, <4>3, <5>1 DEF Orderly
      <4> QED
        BY <4>2, <4>3
    <3> QED
      BY <3>1, <3>2 DEF Orderly
  <2> QED
    BY <1>1, <2>2, <2>3, <2>5, <2>6, <2>7 DEF Continues
<1> QED
  BY <1>3, <1>4, <1>5 DEF Follows

\* What is known of a window's state.
LEMMA WindowState ==
  ASSUME ShareInv, NEW p \in Ports
  PROVE  /\ link[p] \in Link /\ join[p] \in JoinState
         /\ toWorker[p] \in Seq(Request) /\ toPort[p] \in Seq(Msg)
         /\ Dialogue(link[p], join[p], toWorker[p], toPort[p])
         /\ AreFunctions /\ SessionOK(session)
         /\ p \in session.ports => opened[p] = session.life
         /\ Follows(p, session, opened[p], link[p], join[p], toWorker[p], toPort[p])
<1>1. LinkInv
  BY DEF ShareInv
<1>2. SessionOK(session) /\ (p \in session.ports => opened[p] = session.life)
  BY <1>1 DEF LinkInv, TypeOK, SessionOK, LifeInv, LivesAgree
<1> QED
  BY <1>1, <1>2, PortTypes DEF ShareInv

\* A message that arrives, and the stage that it meets.
LEMMA MessageMeets ==
  ASSUME ShareInv, NEW p \in Ports, toPort[p] # <<>>, Listens(p)
  PROVE  /\ Head(toPort[p]) \in Msg /\ Shaped(Head(toPort[p])) /\ Tail(toPort[p]) \in Seq(Msg)
         /\ join[p].stage # "none"
         /\ Head(toPort[p]).kind = "open" => join[p].stage = "opening"
         /\ Head(toPort[p]).kind = "adopt" => join[p].stage = "adopting"
         /\ Head(toPort[p]).kind = "replace" => join[p].stage = "replacing"
         /\ Head(toPort[p]).kind = "fetch-snapshot" => join[p].stage = "refetching"
         /\ Head(toPort[p]).kind \in {"adopt", "replace"} /\ Head(toPort[p]).result = "accepted" =>
              Head(toPort[p]).doc = join[p].target
         /\ Head(toPort[p]).kind = "post" => join[p].stage \notin Joins
<1> DEFINE t == toPort[p]  j == join[p]  h == Head(t)
<1>1. /\ j \in JoinState /\ t \in Seq(Msg) /\ Dialogue(link[p], j, toWorker[p], t)
      /\ Follows(p, session, opened[p], link[p], j, toWorker[p], t)
  BY WindowState
<1>2. 1 \in 1 .. Len(t) /\ t[1] = h /\ h \in Msg /\ Tail(t) \in Seq(Msg) /\ t # <<>>
  BY <1>1
<1>3. link[p].state # "closed" /\ InTurn(j, toWorker[p], t) /\ j.stage # "none"
  BY <1>1, <1>2 DEF Listens, Dialogue
<1> HIDE DEF h, t, j
<1>4. /\ h.kind \in JoinKinds => /\ h.kind = Awaited(j.stage)
                                 /\ h.result = "accepted" => h.doc = j.target
      /\ Shaped(h) /\ (h.kind = "post" => j.stage \notin Joins)
  BY <1>1, <1>2, <1>3 DEF InTurn, Follows, Tidy
<1>5. /\ h.kind = "open" => j.stage = "opening"
      /\ h.kind = "adopt" => j.stage = "adopting"
      /\ h.kind = "replace" => j.stage = "replacing"
      /\ h.kind = "fetch-snapshot" => j.stage = "refetching"
  BY <1>1, <1>4, AwaitedStage DEF JoinKinds
<1>6. h.kind \in {"adopt", "replace"} /\ h.result = "accepted" => h.doc = j.target
  BY <1>4 DEF JoinKinds
<1> QED
  BY <1>2, <1>3, <1>4, <1>5, <1>6 DEF h, t, j

\* An event is buffered, applied, or known already.
LEMMA EventKeepsShare ==
  ASSUME ShareInv, LinkInv', NEW p \in Ports, EventArrives(p)
  PROVE  ShareInv'
<1> DEFINE l == link[p]  j == join[p]  w == toWorker[p]  t == toPort[p]  h == Head(t)
           s == session  o == opened[p]
<1>1. /\ j \in JoinState /\ w \in Seq(Request) /\ t \in Seq(Msg) /\ AreFunctions /\ SessionOK(s)
      /\ p \in s.ports => o = s.life
      /\ Follows(p, s, o, l, j, w, t)
  BY WindowState
<1>2. t # <<>> /\ Listens(p) /\ h.kind = "op" /\ j.stage # "deciding"
  BY DEF EventArrives, Receiving, Message, Runs
<1>3. h \in Msg /\ Carries(h) /\ j.stage # "none"
  BY <1>2, MessageMeets DEF Shaped, Carries
<1>4. Moves(p, l, Emit(j, h), w, Tail(t))
  BY <1>1, EventArrivesMoves DEF Message
<1> HIDE DEF l, j, w, t, s, o, h
<1>5. Follows(p, s, o, l, Emit(j, h), w, Tail(t))
  <2>1. CASE j.stage = "joined"
    <3>1. Emit(j, h) = Ingest(j, h)
      BY <2>1 DEF Emit
    <3>2. Follows(p, s, o, l, Ingest(j, h), w, Tail(t))
      BY <1>1, <1>2, <1>3, <2>1, TakenFollows DEF h
    <3> QED
      BY <3>1, <3>2
  <2>2. CASE j.stage \in {"left", "failed"}
    <3>1. Emit(j, h) = j
      BY <2>2 DEF Emit
    <3> QED
      BY <1>1, <1>2, <2>2, <3>1, PoppedFollows
  <2>3. CASE j.stage \in Joins
    <3> DEFINE i == [j EXCEPT !.buffer = Append(j.buffer, h)]
    <3>1. Emit(j, h) = i
      BY <2>3 DEF Emit, Joins
    <3>2. i.buffer = Append(j.buffer, h) /\ i.stage = j.stage /\ i.rev = j.rev /\ i.doc = j.doc
      BY <1>1 DEF JoinState
    <3> HIDE DEF i
    <3>3. Follows(p, s, o, l, i, w, Tail(t))
      BY <1>1, <1>2, <2>3, <3>2, BufferedFollows DEF h
    <3> QED
      BY <3>1, <3>3
  <2> QED
    BY <1>1, <1>3, <2>1, <2>2, <2>3 DEF JoinState, Stages, Joins
<1> QED
  BY <1>4, <1>5, MovesShare DEF s, o

\* A settled connection is the same to the line of messages.
LEMMA SettledSame ==
  ASSUME ShareInv, NEW p \in Ports
  PROVE  /\ Settled(link[p]).state = link[p].state
         /\ \A kind \in Kinds : /\ Asked(link[p], kind).state = link[p].state
                                /\ Asked(Settled(link[p]), kind).state = link[p].state
<1>1. link[p] \in Link
  BY WindowState
<1> QED
  BY <1>1 DEF Settled, Asked, Link

\* A heartbeat or a post answered, or a replacement found stale.
LEMMA AnswersKeepShare ==
  ASSUME ShareInv, LinkInv', NEW p \in Ports,
         HeartbeatAnswered(p) \/ PostAnswered(p) \/ ReplaceIsStale(p)
  PROVE  ShareInv'
<1> DEFINE l == link[p]  j == join[p]  w == toWorker[p]  t == toPort[p]  h == Head(t)
           s == session  o == opened[p]
<1>1. /\ j \in JoinState /\ w \in Seq(Request) /\ t \in Seq(Msg) /\ AreFunctions /\ SessionOK(s)
      /\ p \in s.ports => o = s.life
      /\ Follows(p, s, o, l, j, w, t)
  BY WindowState
<1>2. t # <<>> /\ Listens(p) /\ j.stage # "deciding"
  BY DEF HeartbeatAnswered, PostAnswered, ReplaceIsStale, Answered, Receiving, Runs
<1>3. /\ h \in Msg /\ Shaped(h) /\ j.stage # "none"
      /\ h.kind = "replace" => j.stage = "replacing"
      /\ h.kind = "post" => j.stage \notin Joins
  BY <1>2, MessageMeets
<1>4. /\ Settled(l).state = l.state
      /\ Asked(Settled(l), "fetch-snapshot").state = l.state
  BY SettledSame DEF Kinds
<1>5. CASE HeartbeatAnswered(p)
  <2>1. Moves(p, Settled(l), j, w, Tail(t)) /\ h.kind = "heartbeat"
    BY <1>1, <1>5, HeartbeatMoves DEF HeartbeatAnswered, Answered, Receiving, Message
  <2> HIDE DEF l, j, w, t, s, o, h
  <2>2. ~Carries(h)
    BY <1>3, <2>1 DEF Shaped, Carries, Ops
  <2>3. Follows(p, s, o, l, j, w, Tail(t))
    BY <1>1, <1>2, <2>2, PoppedFollows DEF h
  <2>4. Follows(p, s, o, Settled(l), j, w, Tail(t))
    BY <1>1, <1>4, <2>3, SameFollows
  <2> QED
    BY <2>1, <2>4, MovesShare DEF s, o
<1>6. CASE PostAnswered(p) /\ h.result = "accepted" /\ j.stage = "joined"
  <2>1. Moves(p, Settled(l), Ingest(j, h), w, Tail(t)) /\ Carries(h)
    BY <1>1, <1>6 DEF AreFunctions, PostAnswered, Answered, Receiving, Moves, Message, Carries
  <2> HIDE DEF l, j, w, t, s, o, h
  <2>2. Follows(p, s, o, Settled(l), Ingest(j, h), w, Tail(t))
    BY <1>1, <1>2, <1>4, <1>6, <2>1, TakenFollows DEF h
  <2> QED
    BY <2>1, <2>2, MovesShare DEF s, o
<1>7. CASE PostAnswered(p) /\ ~(h.result = "accepted" /\ j.stage = "joined")
  <2>1. Moves(p, Settled(l), j, w, Tail(t)) /\ h.kind = "post"
    BY <1>1, <1>7 DEF AreFunctions, PostAnswered, Answered, Receiving, Moves, Message
  <2> HIDE DEF l, j, w, t, s, o, h
  <2>2. ~Carries(h) \/ j.stage \in {"left", "failed"}
    BY <1>1, <1>3, <1>7, <2>1 DEF Shaped, Carries, JoinState, Stages, Joins
  <2>3. Follows(p, s, o, l, j, w, Tail(t))
    BY <1>1, <1>2, <2>2, PoppedFollows DEF h
  <2>4. Follows(p, s, o, Settled(l), j, w, Tail(t))
    BY <1>1, <1>4, <2>3, SameFollows
  <2> QED
    BY <2>1, <2>4, MovesShare DEF s, o
<1>8. CASE ReplaceIsStale(p)
  <2> DEFINE i == [j EXCEPT !.stage = "refetching"]
             m == Request1("fetch-snapshot", 0, None)
  <2>1. /\ Moves(p, Asked(Settled(l), "fetch-snapshot"), i, Append(w, m), Tail(t))
        /\ h.kind = "replace" /\ h.result = "stale-base"
    BY <1>1, <1>8, ReplaceIsStaleMoves DEF ReplaceIsStale, Receiving, Message
  <2>2. /\ i.stage = "refetching" /\ i.rev = j.rev /\ i.doc = j.doc /\ i.buffer = j.buffer
        /\ j.stage = "replacing"
    BY <1>1, <1>3, <2>1 DEF JoinState
  <2>3. m \in Request /\ m.kind = "fetch-snapshot"
    BY DEF Request1, Request, Kinds
  <2> HIDE DEF l, j, w, t, s, o, h, i, m
  <2>4. ~Carries(h)
    BY <2>1 DEF Carries
  <2>5. Follows(p, s, o, l, j, w, Tail(t))
    BY <1>1, <1>2, <2>4, PoppedFollows DEF h
  <2>6. /\ j.stage \in Joins \cap Holding /\ i.stage \in (Joins \cap Holding) \ {"deciding"}
    BY <2>2 DEF Joins, Holding
  <2>7. Follows(p, s, o, Asked(Settled(l), "fetch-snapshot"), i, Append(w, m), Tail(t))
    BY <1>1, <1>4, <2>2, <2>3, <2>5, <2>6, SameFollows
  <2> QED
    BY <2>1, <2>7, MovesShare DEF s, o
<1> QED
  BY <1>5, <1>6, <1>7, <1>8

\* The answers from which a join goes on.
LEMMA RenewalsKeepShare ==
  ASSUME ShareInv, LinkInv', NEW p \in Ports,
         \/ OpenAnswered(p) \/ NothingToReplace(p) \/ ReplaceAgain(p)
         \/ Accepted(p, "adopt") \/ Accepted(p, "replace")
  PROVE  ShareInv'
<1> DEFINE l == link[p]  j == join[p]  w == toWorker[p]  t == toPort[p]  h == Head(t)
           s == session  o == opened[p]
           i == [j EXCEPT !.stage = "deciding", !.rev = h.rev, !.doc = h.doc]
<1>1. /\ j \in JoinState /\ w \in Seq(Request) /\ t \in Seq(Msg) /\ AreFunctions /\ SessionOK(s)
      /\ p \in s.ports => o = s.life
      /\ Follows(p, s, o, l, j, w, t)
  BY WindowState
<1>2. t # <<>> /\ Listens(p)
  BY DEF OpenAnswered, NothingToReplace, ReplaceAgain, Accepted, Answered, Receiving
<1>3. /\ h \in Msg /\ Shaped(h) /\ Tail(t) \in Seq(Msg)
      /\ h.kind = "open" => j.stage = "opening"
      /\ h.kind = "adopt" => j.stage = "adopting"
      /\ h.kind = "replace" => j.stage = "replacing"
      /\ h.kind = "fetch-snapshot" => j.stage = "refetching"
      /\ h.kind \in {"adopt", "replace"} /\ h.result = "accepted" => h.doc = j.target
  BY <1>2, MessageMeets
<1>4. Settled(l).state = l.state /\ Asked(Settled(l), "replace").state = l.state
  BY SettledSame DEF Kinds
<1>5. /\ i.stage = "deciding" /\ i.rev = h.rev /\ i.doc = h.doc /\ i.buffer = j.buffer
      /\ i.target = j.target
  BY <1>1 DEF JoinState
\* Each brings the document at the revision that it names.
<1>6. /\ \/ Moves(p, Settled(l), i, w, Tail(t))
         \/ ReplaceAgain(p)
      /\ j.stage \in Joins
      /\ Snapshot(h) \/ (Carries(h) /\ j.stage \in Holding)
  <2>1. CASE OpenAnswered(p)
    <3>1. Moves(p, Settled(l), i, w, Tail(t)) /\ h.kind = "open"
      BY <1>1, <2>1, OpenAnsweredMoves DEF OpenAnswered, Answered, Receiving, Message
    <3> HIDE DEF i, l, j, w, t, h
    <3> QED
      BY <1>3, <3>1 DEF Shaped, Snapshot, Joins
  <2>2. CASE NothingToReplace(p)
    <3>1. Moves(p, Settled(l), i, w, Tail(t)) /\ h.kind = "fetch-snapshot" /\ h.result = "ok"
      BY <1>1, <2>2, NothingToReplaceMoves DEF NothingToReplace, Answered, Receiving, Message
    <3> HIDE DEF i, l, j, w, t, h
    <3> QED
      BY <1>3, <3>1 DEF Snapshot, Joins
  <2>3. CASE ReplaceAgain(p)
    <3>1. h.kind = "fetch-snapshot" /\ h.result = "ok"
      BY <2>3 DEF ReplaceAgain, Receiving, Message
    <3> HIDE DEF i, l, j, w, t, h
    <3> QED
      BY <1>3, <2>3, <3>1 DEF Snapshot, Joins
  <2>4. ASSUME NEW kind \in {"adopt", "replace"}, Accepted(p, kind)
        PROVE  /\ Moves(p, Settled(l), i, w, Tail(t))
               /\ j.stage \in Joins /\ Carries(h) /\ j.stage \in Holding
    <3>1. /\ Moves(p, Settled(l), [j EXCEPT !.stage = "deciding", !.rev = h.rev, !.doc = j.target],
                   w, Tail(t))
          /\ h.kind = kind /\ h.result = "accepted"
      BY <1>1, <2>4, AcceptedMoves DEF Accepted, Answered, Receiving, Message
    <3>2. h.doc = j.target
      BY <1>3, <3>1
    <3>3. Moves(p, Settled(l), i, w, Tail(t))
      BY <3>1, <3>2
    <3> HIDE DEF i, l, j, w, t, h
    <3> QED
      BY <1>3, <3>1, <3>3 DEF Carries, Joins, Holding
  <2> QED
    BY <2>1, <2>2, <2>3, <2>4
<1>7. Follows(p, s, o, Settled(l), i, w, Tail(t))
  <2> HIDE DEF l, j, w, t, s, o, i
  <2> QED
    BY <1>1, <1>2, <1>4, <1>5, <1>6, RenewedFollows
<1>8. CASE ReplaceAgain(p)
  <2> DEFINE k == [j EXCEPT !.stage = "replacing", !.rev = h.rev, !.doc = h.doc]
             m == Request1("replace", h.rev, j.target)
  <2>1. Moves(p, Asked(Settled(l), "replace"), k, Append(w, m), Tail(t))
    BY <1>1, <1>8, ReplaceAgainMoves DEF Message
  <2>2. k.stage = "replacing" /\ k.rev = i.rev /\ k.doc = i.doc /\ k.buffer = i.buffer
    BY <1>1 DEF JoinState
  <2>3. m \in Request /\ m.kind = "replace"
    <3>1. h.rev \in Nat /\ j.target \in Docs \cup {None}
      BY <1>1, <1>3 DEF Msg, JoinState
    <3> QED
      BY <3>1 DEF Request1, Request, Kinds
  <2>4. i.stage \in Joins \cap Holding /\ k.stage \in (Joins \cap Holding) \ {"deciding"}
    BY <1>5, <2>2 DEF Joins, Holding
  <2> HIDE DEF l, j, w, t, s, o, i, k, m, h
  <2>5. Follows(p, s, o, Asked(Settled(l), "replace"), k, Append(w, m), Tail(t))
    BY <1>1, <1>4, <1>7, <2>2, <2>3, <2>4, SameFollows
  <2> QED
    BY <2>1, <2>5, MovesShare DEF s, o
<1>9. CASE Moves(p, Settled(l), i, w, Tail(t))
  <2> HIDE DEF l, j, w, t, i
  <2> QED
    BY <1>7, <1>9, MovesShare
<1> QED
  BY <1>6, <1>8, <1>9

\* A join that fails, an answer to a close, a time-out, a close.
LEMMA EndingsKeepShare ==
  ASSUME ShareInv, LinkInv', NEW p \in Ports,
         \/ AdoptConflicts(p) \/ AdoptThrows(p) \/ ReplaceThrows(p)
         \/ CloseAnswered(p) \/ TimeOut(p) \/ Close(p)
  PROVE  ShareInv'
<1> DEFINE l == link[p]  j == join[p]  w == toWorker[p]  t == toPort[p]
           s == session  o == opened[p]
           closed == Append(w, Request1("close", 0, None))
<1>1. /\ j \in JoinState /\ w \in Seq(Request) /\ t \in Seq(Msg) /\ AreFunctions
      /\ l \in Link /\ Follows(p, s, o, l, j, w, t)
  BY WindowState
<1>2. /\ Gone(j, "failed").stage = "failed" /\ Gone(j, "left").stage = "left"
      /\ Gone(j, "failed").buffer = <<>> /\ Gone(j, "left").buffer = <<>>
  BY <1>1 DEF Gone, Over, JoinState
<1>3. Disposed(l).state = "closed"
  BY <1>1, LinkShapes
<1>4. CASE CloseAnswered(p)
  <2>1. Moves(p, Disposed(l), j, w, <<>>)
    BY <1>1, <1>4, CloseAnsweredMoves
  <2>2. Follows(p, s, o, Disposed(l), j, w, <<>>)
    BY <1>1, <1>3, ClosedFollows
  <2> QED
    BY <2>1, <2>2, MovesShare
<1>5. CASE TimeOut(p) /\ ~Waiting(p)
  <2>1. Moves(p, Disposed(l), j, w, <<>>)
    BY <1>1, <1>5, TimeOutMoves
  <2>2. Follows(p, s, o, Disposed(l), j, w, <<>>)
    BY <1>1, <1>3, ClosedFollows
  <2> QED
    BY <2>1, <2>2, MovesShare
\* Whatever else ends a join, or the session it made.
<1>6. ASSUME NEW k, NEW i \in {Gone(j, "failed"), Gone(j, "left")}, NEW v \in {w, closed}, NEW u,
             u = t \/ u = <<>> \/ (t # <<>> /\ u = Tail(t)),
             i = Gone(j, "failed") \/ j.stage = "joined",
             Moves(p, k, i, v, u)
      PROVE  ShareInv'
  <2> HIDE DEF l, j, w, t, s, o
  <2>1. i.buffer = <<>> /\ (i.stage = "failed" \/ (i.stage = "left" /\ j.stage = "joined"))
    BY <1>2, <1>6
  <2>2. Follows(p, s, o, k, i, v, u)
    BY <1>1, <1>6, <2>1, OverFollows
  <2> QED
    BY <1>6, <2>2, MovesShare DEF s, o
<1>7. CASE AdoptConflicts(p)
  <2>1. Moves(p, Closing(Settled(l)), Gone(j, "failed"), closed, Tail(t)) /\ t # <<>>
    BY <1>1, <1>7, AdoptConflictsMoves DEF AdoptConflicts, Receiving
  <2> QED
    BY <1>6, <2>1
<1>8. CASE AdoptThrows(p) \/ ReplaceThrows(p)
  <2>1. Moves(p, Settled(l), Gone(j, "failed"), w, Tail(t)) /\ t # <<>>
    BY <1>1, <1>8, ThrowsMoves DEF AdoptThrows, ReplaceThrows, Answered, Receiving
  <2> QED
    BY <1>6, <2>1
<1>9. CASE TimeOut(p) /\ Waiting(p)
  <2>1. Moves(p, Disposed(l), Gone(j, "failed"), w, <<>>)
    BY <1>1, <1>9, TimeOutMoves
  <2> QED
    BY <1>6, <2>1
<1>10. CASE Close(p)
  <2>1. j.stage = "joined"
    BY <1>10 DEF Close
  <2>2. \/ Moves(p, Closing(l), Gone(j, "left"), closed, t)
        \/ Moves(p, l, Gone(j, "left"), w, t)
    BY <1>1, <1>10, CloseMoves
  <2> HIDE DEF closed
  <2> QED
    BY <1>6, <2>1, <2>2
<1> QED
  BY <1>4, <1>5, <1>7, <1>8, <1>9, <1>10

\* A window asks, thinks, is edited or is frozen.
LEMMA OthersKeepShare ==
  ASSUME ShareInv, LinkInv', NEW p \in Ports,
         \/ Beat(p) \/ BringLocal(p) \/ NothingToBring(p) \/ Freeze(p) \/ Resume(p)
         \/ \E d \in Docs : LocalEdit(p, d) \/ Post(p, d)
  PROVE  ShareInv'
<1> DEFINE l == link[p]  j == join[p]  w == toWorker[p]  t == toPort[p]
           s == session  o == opened[p]
<1>1. /\ j \in JoinState /\ w \in Seq(Request) /\ t \in Seq(Msg) /\ AreFunctions
      /\ l \in Link /\ Follows(p, s, o, l, j, w, t)
  BY WindowState
<1>2. ASSUME NEW k, k.state = l.state, NEW i, i.rev = j.rev, i.doc = j.doc, i.buffer = j.buffer,
             \/ i.stage = j.stage
             \/ j.stage = "deciding" /\ i.stage \in {"adopting", "replacing"},
             NEW v,
             \/ v = w
             \/ \E m \in Request : /\ v = Append(w, m) /\ m.kind # "open"
                                   /\ m.kind = "post" => i.stage \notin Joins,
             Moves(p, k, i, v, t)
      PROVE  ShareInv'
  <2> HIDE DEF l, j, w, t, s, o
  <2>1. \/ i.stage = j.stage
        \/ j.stage \in Joins \cap Holding /\ i.stage \in (Joins \cap Holding) \ {"deciding"}
    BY <1>2 DEF Joins, Holding
  <2>2. Follows(p, s, o, k, i, v, t)
    BY <1>1, <1>2, <2>1, SameFollows
  <2> QED
    BY <1>2, <2>2, MovesShare DEF s, o
<1>3. CASE Beat(p)
  <2> DEFINE k == [Asked(l, "heartbeat") EXCEPT !.beat = 0]
             m == Request1("heartbeat", 0, None)
  <2>1. Moves(p, k, j, Append(w, m), t)
    BY <1>1, <1>3, BeatMoves
  <2>2. k.state = l.state
    BY <1>1 DEF Asked, Link
  <2>3. m \in Request /\ m.kind = "heartbeat"
    BY DEF Request1, Request, Kinds
  <2> HIDE DEF l, j, w, t, k, m
  <2> QED
    BY <1>2, <2>1, <2>2, <2>3
<1>4. CASE BringLocal(p)
  <2>1. PICK kind \in {"adopt", "replace"}, stage \in {"adopting", "replacing"} :
          Moves(p, Asked(l, kind),
                [j EXCEPT !.stage = stage, !.target = j.local, !.changed = FALSE],
                Append(w, Request1(kind, j.rev, j.local)), t)
    BY <1>1, <1>4, BringLocalMoves
  <2> DEFINE i == [j EXCEPT !.stage = stage, !.target = j.local, !.changed = FALSE]
             m == Request1(kind, j.rev, j.local)
  <2>2. i.stage = stage /\ i.rev = j.rev /\ i.doc = j.doc /\ i.buffer = j.buffer
    BY <1>1 DEF JoinState
  <2>3. m \in Request /\ m.kind = kind /\ Asked(l, kind).state = l.state
    <3>1. j.rev \in Nat /\ j.local \in Docs \cup {None} /\ kind \in Kinds
      BY <1>1 DEF JoinState, Kinds
    <3>2. Asked(l, kind).state = l.state
      BY <3>1, SettledSame
    <3> QED
      BY <3>1, <3>2 DEF Request1, Request
  <2>4. j.stage = "deciding"
    BY <1>4 DEF BringLocal
  <2>5. Moves(p, Asked(l, kind), i, Append(w, m), t)
    BY <2>1
  <2> HIDE DEF l, j, w, t, i, m
  <2> QED
    BY <1>2, <2>2, <2>3, <2>4, <2>5
<1>5. CASE NothingToBring(p)
  <2> DEFINE i == [j EXCEPT !.changed = FALSE]
  <2>1. Moves(p, l, i, w, t)
    BY <1>1, <1>5, NothingToBringMoves
  <2>2. i.stage = j.stage /\ i.rev = j.rev /\ i.doc = j.doc /\ i.buffer = j.buffer
    BY <1>1 DEF JoinState
  <2> HIDE DEF l, j, w, t, i
  <2> QED
    BY <1>2, <2>1, <2>2
<1>6. ASSUME NEW d \in Docs, LocalEdit(p, d) PROVE ShareInv'
  <2> DEFINE i == [j EXCEPT !.local = d, !.changed = TRUE, !.edits = @ + 1]
  <2>1. Moves(p, l, i, w, t)
    BY <1>1, <1>6, LocalEditMoves
  <2>2. i.stage = j.stage /\ i.rev = j.rev /\ i.doc = j.doc /\ i.buffer = j.buffer
    BY <1>1 DEF JoinState
  <2> HIDE DEF l, j, w, t, i
  <2> QED
    BY <1>2, <2>1, <2>2
<1>7. ASSUME NEW d \in Docs, Post(p, d) PROVE ShareInv'
  <2> DEFINE m == Request1("post", j.rev, d)
  <2>1. Moves(p, Asked(l, "post"), j, Append(w, m), t)
    BY <1>1, <1>7, PostMoves
  <2>2. m \in Request /\ m.kind = "post" /\ Asked(l, "post").state = l.state
    <3>1. j.rev \in Nat
      BY <1>1 DEF JoinState
    <3> QED
      BY <3>1, SettledSame DEF Request1, Request, Kinds
  <2>3. j.stage \notin Joins
    BY <1>7 DEF Post, Joins
  <2> HIDE DEF l, j, w, t, m
  <2> QED
    BY <1>2, <2>1, <2>2, <2>3
<1>8. CASE Freeze(p) \/ Resume(p)
  <2>1. PICK window \in {"frozen", "resumed"} : Moves(p, [l EXCEPT !.window = window], j, w, t)
    <3>1. IF "frozen" = "frozen" THEN Freeze(p) \/ Resume(p) ELSE FALSE
      BY <1>8
    <3>2. Freeze(p) => Moves(p, [l EXCEPT !.window = "frozen"], j, w, t)
      BY <1>1, FreezeMoves
    <3>3. Resume(p) => Moves(p, [l EXCEPT !.window = "resumed"], j, w, t)
      BY <1>1, FreezeMoves
    <3> QED
      BY <1>8, <3>2, <3>3
  <2>2. [l EXCEPT !.window = window].state = l.state
    BY <1>1 DEF Link
  <2> HIDE DEF l, j, w, t
  <2> QED
    BY <1>2, <2>1, <2>2
<1> QED
  BY <1>3, <1>4, <1>5, <1>6, <1>7, <1>8

\* A window subscribes, and replays what it has buffered.
LEMMA JoinKeepsShare ==
  ASSUME ShareInv, LinkInv', NEW p \in Ports, Join(p)
  PROVE  ShareInv'
<1>1. /\ join[p] \in JoinState /\ toWorker[p] \in Seq(Request) /\ toPort[p] \in Seq(Msg)
      /\ AreFunctions /\ SessionOK(session)
      /\ p \in session.ports => opened[p] = session.life
      /\ Follows(p, session, opened[p], link[p], join[p], toWorker[p], toPort[p])
  BY WindowState
<1>2. join[p].stage = "deciding"
  BY DEF Join
<1>3. Follows(p, session, opened[p], link[p],
              IngestAll(Over(join[p], "joined"), join[p].buffer), toWorker[p], toPort[p])
  BY <1>1, <1>2, JoinFollows
<1> QED
  BY <1>1, <1>3, JoinMoves, MovesShare

\* A port is opened by its first request, and only once.
LEMMA OpenKeepsShare ==
  ASSUME ShareInv, LinkInv', NEW p \in Ports, NEW d \in Docs, Open(p, d)
  PROVE  ShareInv'
<1> DEFINE l == link[p]  j == join[p]  w == toWorker[p]  t == toPort[p]
           s == session  o == opened[p]
           k == [Asked(l, "open") EXCEPT !.state = "open"]
           i == [j EXCEPT !.stage = "opening", !.local = d, !.changed = p \in Replacing]
           m == Request1("open", 0, d)
<1>1. /\ j \in JoinState /\ AreFunctions
      /\ Dialogue(l, j, w, t) /\ Follows(p, s, o, l, j, w, t)
  BY WindowState
<1>2. j.stage = "none" /\ w = <<>> /\ t = <<>> /\ p \notin s.ports
  BY <1>1 DEF Open, Dialogue, ShareInv, LinkInv
<1>3. j.buffer = <<>> /\ i.buffer = <<>> /\ i.stage = "opening"
  BY <1>1, <1>2 DEF Follows, Tidy, Joins, JoinState
<1>4. Moves(p, k, i, Append(w, m), t)
  BY <1>1, OpenMoves
<1>5. m.kind = "open"
  BY DEF Request1
<1> HIDE DEF l, j, w, t, s, o, k, i, m
<1>6. /\ \A n \in 1 .. Len(Append(w, m)) : n = 1 /\ Append(w, m)[n] = m
      /\ \A n \in 1 .. Len(<<>>) : FALSE
  BY <1>2
<1>7. Tidy(p, s, i, Append(w, m), t)
  BY <1>2, <1>3, <1>5, <1>6 DEF Tidy, Joins
<1>8. Shown(s, o, i, t)
  BY <1>2, <1>3, <1>6 DEF Shown, Holding
<1>9. Follows(p, s, o, k, i, Append(w, m), t)
  BY <1>1, <1>2, <1>7, <1>8 DEF Follows, Served
<1> QED
  BY <1>4, <1>9, MovesShare DEF s, o

\* Whatever a window does keeps the lines.
LEMMA WindowKeepsShare ==
  ASSUME ShareInv, LinkInv', NEW p \in Ports, Window(p) \/ User(p)
  PROVE  ShareInv'
BY EventKeepsShare, AnswersKeepShare, RenewalsKeepShare, EndingsKeepShare, OthersKeepShare,
   JoinKeepsShare, OpenKeepsShare
DEF Window, Handle, User

\* Whatever the worker serves keeps the lines.
LEMMA ServeKeepsShare ==
  ASSUME ShareInv, LinkInv', NEW p \in Ports, Serve(p)
  PROVE  ShareInv'
<1>1. SessionOK(session')
  BY DEF LinkInv, TypeOK, SessionOK
<1>2. ASSUME NEW q \in Ports
      PROVE  Follows(q, session, opened[q], link[q], join[q], toWorker[q], toPort[q])'
  BY <1>1, QuietServeFollows, AcceptFollows, OpenServeFollows DEF Serve
<1> QED
  BY <1>2 DEF ShareInv

\* Time changes no line.
LEMMA TickKeepsShare ==
  ASSUME ShareInv, LinkInv', Tick
  PROVE  ShareInv'
<1>1. /\ link' = [p \in Ports |-> Aged(link[p])]
      /\ UNCHANGED <<session, opened, toWorker, toPort, join>>
  BY DEF Tick
<1>2. ASSUME NEW p \in Ports
      PROVE  Follows(p, session, opened[p], link'[p], join[p], toWorker[p], toPort[p])
  <2>1. /\ link[p] \in Link /\ toWorker[p] \in Seq(Request)
        /\ Follows(p, session, opened[p], link[p], join[p], toWorker[p], toPort[p])
    BY WindowState
  <2>2. link'[p].state = link[p].state
    BY <1>1, <2>1, AgedOK
  <2> QED
    BY <2>1, <2>2, SameFollows
<1> QED
  BY <1>1, <1>2 DEF ShareInv

\* At first there are no lines.
LEMMA ShareStarts ==
  ASSUME Init
  PROVE  ShareInv
<1>1. LinkInv
  BY LinkStarts
<1>2. ASSUME NEW p \in Ports
      PROVE  Follows(p, session, opened[p], link[p], join[p], toWorker[p], toPort[p])
  <2>1. /\ session.ports = {} /\ session.life = 0 /\ opened[p] = 0
        /\ toWorker[p] = <<>> /\ toPort[p] = <<>>
        /\ join[p].buffer = <<>> /\ join[p].stage = "none"
    BY DEF Init
  <2>2. \A n \in 1 .. Len(<<>>) : FALSE
    OBVIOUS
  <2>3. Tidy(p, session, join[p], toWorker[p], toPort[p])
    BY <2>1, <2>2 DEF Tidy, Joins
  <2> QED
    BY <2>1, <2>3 DEF Follows, Shown, Served
<1> QED
  BY <1>1, <1>2 DEF ShareInv

\* Every step keeps the lines.
LEMMA ShareStep ==
  ASSUME ShareInv, [Next]_vars
  PROVE  ShareInv'
<1>1. LinkInv'
  BY LinkStep DEF ShareInv
<1>2. CASE UNCHANGED vars
  BY <1>1, <1>2 DEF vars, workerVars, ShareInv
<1>3. CASE \E p \in Ports : Serve(p)
  BY <1>1, <1>3, ServeKeepsShare
<1> QED
  BY <1>1, <1>2, <1>3, WindowKeepsShare, TickKeepsShare DEF Next

\* The document a window shows at its revision is the one the authority had
\* there, however it came by it: opening, adopting, replacing, a snapshot it
\* fetched again, ops from its buffer or live, and also once its lease is lost.
THEOREM HeldDocsAreShared == Spec => []HeldDocIsShared
<1>1. ShareInv => HeldDocIsShared
  <2> SUFFICES ASSUME ShareInv, NEW p \in Ports, Talks(p), session.ports # {},
                      opened[p] = session.life
               PROVE  join[p].rev <= Len(session.ops) /\ join[p].doc = DocAt(session, join[p].rev)
    BY DEF HeldDocIsShared
  <2>1. join[p].stage \in Holding
    BY WindowState DEF Talks, Holding, JoinState, Stages
  <2> QED
    BY <2>1 DEF ShareInv, Follows, Shown
<1> QED
  BY <1>1, ShareStarts, ShareStep, PTL DEF Spec

\* What a port with a lease has buffered and is still sent is every op above
\* its document, once and in order: its session never has to catch up.
THEOREM StreamsAreGapless == Spec => []StreamHasNoGap
<1>1. ASSUME ShareInv, NEW p \in Ports, Talks(p), p \in session.ports
      PROVE  /\ {Coming(p)[i].rev : i \in Ahead(p)} = join[p].rev + 1 .. Len(session.ops)
             /\ \A i, k \in Ahead(p) : i < k => Coming(p)[i].rev < Coming(p)[k].rev
  <2> DEFINE j == join[p]  t == toPort[p]  u == j.buffer \o t  n == Len(session.ops)
  <2>1. /\ j \in JoinState /\ t \in Seq(Msg) /\ SessionOK(session)
        /\ opened[p] = session.life
        /\ Follows(p, session, opened[p], link[p], j, toWorker[p], t)
    BY <1>1, WindowState
  <2>2. j.stage \in Holding /\ link[p].state = "open"
    BY <1>1, <2>1 DEF Talks, Holding, JoinState, Stages
  <2>3. Continues(j, t, n) /\ Shown(session, opened[p], j, t)
    BY <1>1, <2>1, <2>2 DEF Follows, Served
  <2>4. Coming(p) = u /\ Ahead(p) = {i \in 1 .. Len(u) : Carries(u[i]) /\ u[i].rev > j.rev}
    <3>1. u \in Seq(Msg)
      BY <2>1 DEF JoinState
    <3>2. Coming(p) = u
      BY DEF Coming
    <3>3. DOMAIN u = 1 .. Len(u)
      BY <3>1
    <3>4. j = join[p]
      OBVIOUS
    <3> HIDE DEF u
    <3>5. Ahead(p) = {i \in 1 .. Len(u) : Carries(u[i]) /\ u[i].rev > join[p].rev}
      BY <3>2, <3>3 DEF Ahead, Carries
    <3> QED
      BY <3>2, <3>4, <3>5
  <2>5. \A i \in 1 .. Len(u) : Carries(u[i]) => u[i].rev \in Nat /\ u[i].rev <= n
    <3>1. \A i \in 1 .. Len(u) : u[i] \in Msg /\ Fits(session, u[i])
      BY <1>1, <2>1, <2>3, LineFits
    <3> HIDE DEF u
    <3> QED
      BY <3>1 DEF Fits, Msg
  <2>6. j.rev \in Nat /\ n \in Nat
    BY <2>1 DEF JoinState, SessionOK
  <2>7. Orderly(u, n) /\ Covers(u, 0, j.rev, n)
    BY <2>2, <2>3 DEF Continues
  <2> HIDE DEF j, t, u, n
  <2>8. ASSUME NEW x \in j.rev + 1 .. n
        PROVE  \E i \in Ahead(p) : u[i].rev = x
    <3>1. PICK i \in 1 .. Len(u) : Carries(u[i]) /\ u[i].rev = x
      BY <2>7 DEF Covers
    <3>2. x > j.rev
      BY <2>6
    <3> QED
      BY <2>4, <3>1, <3>2
  <2>9. \A i \in Ahead(p) : u[i].rev \in j.rev + 1 .. n
    BY <2>4, <2>5, <2>6
  <2>10. {u[i].rev : i \in Ahead(p)} = j.rev + 1 .. n
    BY <2>8, <2>9
  <2>11. \A i, k \in Ahead(p) : i < k => u[i].rev < u[k].rev
    BY <2>4, <2>7 DEF Orderly
  <2> QED
    BY <2>4, <2>10, <2>11 DEF j, n
<1>2. ShareInv => StreamHasNoGap
  BY <1>1 DEF StreamHasNoGap
<1> QED
  BY <1>2, ShareStarts, ShareStep, PTL DEF Spec
=============================================================================
