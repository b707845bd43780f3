------------------------ MODULE WorkerLinkProperties ------------------------
(***************************************************************************)
(* What connections to the shared-worker authority guarantee the sessions   *)
(* above them.                                                              *)
(***************************************************************************)
EXTENDS WorkerLink

Results == {"opened", "ok", "error", "conflict", "stale-base", "accepted", "op"}
Kinds == {"open", "post", "adopt", "replace", "fetch-snapshot", "heartbeat", "close"}

Op == [from : Ports, kind : Kinds, doc : Docs]
Request == [kind : Kinds, base : Nat, doc : Docs \cup {None}]
Msg == [kind : Kinds \cup {"op"}, result : Results, rev : Nat, doc : Docs \cup {None}]
Link == [state : {"none", "open", "closing", "closed"},
         window : {"attentive", "frozen", "resumed"},
         pending : Seq([kind : Kinds, age : 0 .. Timeout]), beat : 0 .. Heartbeat]
Stages == {"none", "opening", "deciding", "adopting", "replacing", "refetching",
           "joined", "left", "failed"}
JoinState ==
  [stage : Stages, rev : Nat, doc : Docs \cup {None}, local : Docs \cup {None},
   target : Docs \cup {None}, changed : BOOLEAN, edits : Nat, buffer : Seq(Msg)]

\* Types.  A session without ports is forgotten, one with ports has a document.
TypeOK ==
  /\ session \in [life : Nat, initial : Docs \cup {None}, ops : Seq(Op), ports : SUBSET Ports]
  /\ session.initial \in Docs <=> session.ports # {}
  /\ portSessions \in SUBSET Ports /\ session.ports \subseteq portSessions
  /\ portSeen \in [Ports -> 0 .. Lease + 1] /\ opened \in [Ports -> Nat]
  /\ toWorker \in [Ports -> Seq(Request)] /\ toPort \in [Ports -> Seq(Msg)]
  /\ link \in [Ports -> Link] /\ join \in [Ports -> JoinState]

\* The connection is open and serves a session, or one that is being made.
Talks(p) ==
  /\ link[p].state = "open"
  /\ join[p].stage \notin {"none", "opening", "failed", "left"}

\* What a port still has to hand over, in the order in which its session will
\* see it: buffered events, then what is on its way.
Coming(p) == join[p].buffer \o toPort[p]
Ahead(p) ==
  {i \in DOMAIN Coming(p) :
     Coming(p)[i].result \in {"op", "accepted"} /\ Coming(p)[i].rev > join[p].rev}

\* While a port holds its lease its session sees every op above its document
\* once and in order, own ops in answers and others' in events, through the
\* buffer, adoption and refetched snapshots: it never has to catch up.
StreamHasNoGap ==
  \A p \in Ports :
    Talks(p) /\ p \in session.ports =>
      /\ {Coming(p)[i].rev : i \in Ahead(p)} = join[p].rev + 1 .. Len(session.ops)
      /\ \A i, k \in Ahead(p) : i < k => Coming(p)[i].rev < Coming(p)[k].rev

\* The document a window holds at its revision is the authority's, also after
\* it adopted, replaced, refetched or lost its lease.
HeldDocIsShared ==
  \A p \in Ports :
    Talks(p) /\ session.ports # {} /\ opened[p] = session.life =>
      /\ join[p].rev <= Len(session.ops)
      /\ join[p].doc = DocAt(session, join[p].rev)

\* An op is only committed into the session its port opened: a window that
\* wakes up after its session was forgotten cannot write into the next one,
\* whose revisions start over.
OpsOfThisLife ==
  \A i \in DOMAIN session.ops : opened[session.ops[i].from] = session.life

\* A window that was never frozen keeps its lease however slow the worker is:
\* it has given up its connection before the authority gives it up.
AttentiveKeepsLease ==
  \A p \in Ports : Talks(p) /\ link[p].window = "attentive" => p \in session.ports

\* adoptExclusive never commits beside another running window that has joined.
AdoptedNow(p) ==
  /\ session'.life = session.life /\ Len(session'.ops) = Len(session.ops) + 1
  /\ LET op == session'.ops[Len(session'.ops)] IN op.from = p /\ op.kind = "adopt"
AdoptionExcludesPeers ==
  [][\A p, q \in Ports :
       p # q /\ AdoptedNow(p) => ~(Talks(q) /\ link[q].window = "attentive")]_vars

\* A document edited while its window joined is what the window joins with,
\* whatever the edit raced with.
NoEditLostByJoining ==
  \A p \in Ports :
    /\ join[p].stage = "deciding" /\ ~join[p].changed
    /\ join[p].edits > 0 \/ p \in Replacing
    => join[p].doc = join[p].local

\* Joining ends, in a session or a failure, even if the worker never answers.
Joining(p) == Waiting(p) \/ join[p].stage = "deciding"
JoinEnds == \A p \in Ports : Joining(p) ~> (~Joining(p) \/ link[p].window = "frozen")

\* The type the connection asserts for the answer to adopt-exclusive.
AdoptAnswerIsExpected ==
  \A p \in Ports :
    toPort[p] # <<>> /\ Head(toPort[p]).kind = "adopt" =>
      Head(toPort[p]).result \in {"accepted", "conflict", "error"}
=============================================================================
