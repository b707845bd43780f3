-------------------------- MODULE CollabStreamProofs --------------------------
(***************************************************************************)
(* The connection of a shared session keeps its promises for any backend,   *)
(* any cap of the buffer and any amount of trouble.                         *)
(*                                                                          *)
(* The invariant is StreamInv.  Its parts: Way and Look (one way to a       *)
(* socket, or one look for the user), Wait and Asking (who waits, and for   *)
(* what), Ears and Drops (what the listener has and may believe), Wire      *)
(* (what a socket still has to say) and Told (what the listener or the      *)
(* buffer has of it).  A method of the two classes is one operator, so the  *)
(* module first says of each what it does to those parts (Disconnect,       *)
(* Close, Heard, Emit, StatusIs, ScheduleReconnect, ..., HeardAll), and     *)
(* then takes the actions of the model one by one.                          *)
(***************************************************************************)
EXTENDS CollabStreamProperties, FiniteSetTheorems, TLAPS

\* The values of the records.
FrameKinds == {"open", "session", "op", "session_closed", "close", "close-login", "close-revoked"}
FrameT == [kind : FrameKinds, rev : Nat]
EventT == [kind : {"connected", "op", "session-closed", "disconnected", "denial"}, rev : Nat]
RequestT == [kind : {"ticket", "probe", "call", "retry"},
             stage : {"waiting", "sent", "ok", "gone", "failed", "denied", "login"},
             stale : BOOLEAN]
LinkT ==
  [ticketed : BOOLEAN, ws : {"none", "asked", "up", "down"}, wire : Seq(FrameT),
   status : {"disconnected", "connecting", "connected", "reconnecting"}, handle : BOOLEAN,
   retrying : BOOLEAN, deliberate : BOOLEAN, timers : SUBSET {"current", "stale"},
   closed : BOOLEAN, denied : BOOLEAN, suspended : BOOLEAN, retryTimer : BOOLEAN,
   send : BOOLEAN, probe : {"idle", "asking", "sleeping"}, requests : SUBSET RequestT,
   buffered : Seq(EventT), flushed : BOOLEAN, on : BOOLEAN,
   known : Nat, connected : BOOLEAN, sessionOver : BOOLEAN,
   told : BOOLEAN, blind : BOOLEAN, crowded : BOOLEAN]

-----------------------------------------------------------------------------
(* One way up, one look for the user, one probe *)

Ended(s) == Over(s) \/ s.suspended
Tickets(s) == {r \in s.requests : r.kind = "ticket" /\ ~r.stale}
Looks(s) == {r \in s.requests : r.kind = "retry"}
Probes(s) == {r \in s.requests : r.kind = "probe"}

\* No way to a socket.
NoWay(s) == Tickets(s) = {} /\ s.ws = "none" /\ ~s.handle

Way(s) ==
  /\ s.deliberate <=> Ended(s)
  /\ s.handle <=> "current" \in s.timers
  /\ \/ NoWay(s) /\ Ended(s)
     \/ (\E r : Tickets(s) = {r}) /\ s.ws = "none" /\ ~s.handle /\ ~Ended(s)
     \/ Tickets(s) = {} /\ s.ws # "none" /\ ~s.handle /\ ~Ended(s)
     \/ Tickets(s) = {} /\ s.ws = "none" /\ s.handle /\ ~Ended(s)

\* Between two ways.
Between(s) ==
  /\ NoWay(s) /\ ~Ended(s) /\ ~s.deliberate /\ "current" \notin s.timers

Look(s) ==
  /\ s.suspended => ~Over(s)
  /\ s.suspended => \/ s.retryTimer /\ Looks(s) = {}
                    \/ ~s.retryTimer /\ \E r : Looks(s) = {r}
  /\ ~s.suspended => ~s.retryTimer
  /\ ~Ended(s) => Looks(s) = {}

Wait(s) ==
  /\ \A r \in s.requests : r.stage = "waiting" => s.suspended
  /\ \A r, x \in Probes(s) : r = x
  /\ Probes(s) # {} => s.probe = "asking"

\* Whoever asks has a request on its way.
Asking(s) == s.probe = "asking" => Probes(s) # {}

Control(s) == s \in LinkT /\ Way(s) /\ Look(s) /\ Wait(s)

\* What these read.
SameControl(s, t) ==
  /\ t.closed = s.closed /\ t.denied = s.denied /\ t.suspended = s.suspended
  /\ t.ws = s.ws /\ t.handle = s.handle /\ t.deliberate = s.deliberate /\ t.timers = s.timers
  /\ t.retryTimer = s.retryTimer /\ t.requests = s.requests /\ t.probe = s.probe

LEMMA ControlSame ==
  ASSUME NEW s, NEW t, SameControl(s, t)
  PROVE  /\ Way(s) <=> Way(t)
         /\ Look(s) <=> Look(t)
         /\ Wait(s) <=> Wait(t)
         /\ Asking(s) <=> Asking(t)
         /\ Between(s) <=> Between(t)
         /\ Ended(s) <=> Ended(t)
         /\ Over(s) <=> Over(t)
BY DEF SameControl, Way, Look, Wait, Asking, Between, NoWay, Ended, Over, Tickets, Looks, Probes

\* No answer says that the session is gone, unless one did before.
NoNews(s, t) ==
  \A r \in t.requests : r.stage = "gone" => \E x \in s.requests : x.stage = "gone"

LEMMA DisconnectDoes ==
  ASSUME NEW s \in LinkT
  PROVE  LET t == Disconnect(s) IN
         /\ t \in LinkT
         /\ t.deliberate /\ NoWay(t) /\ "current" \notin t.timers /\ t.wire = <<>>
         /\ t.status = "disconnected"
         /\ t.closed = s.closed /\ t.denied = s.denied /\ t.suspended = s.suspended
         /\ t.retryTimer = s.retryTimer /\ t.probe = s.probe /\ t.send = s.send
         /\ t.on = s.on /\ t.flushed = s.flushed /\ t.buffered = s.buffered /\ t.known = s.known
         /\ t.connected = s.connected /\ t.sessionOver = s.sessionOver /\ t.blind = s.blind
         /\ t.crowded = s.crowded
         /\ Looks(t) = Looks(s) /\ Probes(t) = Probes(s)
         /\ \A r \in t.requests : \E x \in s.requests : x.stage = r.stage
<1> DEFINE Q == {IF r.kind = "ticket" THEN [r EXCEPT !.stale = TRUE] ELSE r : r \in s.requests}
           T == IF s.timers = {} THEN {} ELSE {"stale"}
           t == Disconnect(s)
<1>1. <<>> \in Seq(FrameT)
  OBVIOUS
<1>2. \A r \in s.requests :
        /\ r \in RequestT
        /\ (IF r.kind = "ticket" THEN [r EXCEPT !.stale = TRUE] ELSE r) \in RequestT
        /\ r.kind = "ticket" => LET x == [r EXCEPT !.stale = TRUE] IN
                                  x.kind = "ticket" /\ x.stale = TRUE /\ x.stage = r.stage
  BY DEF LinkT, RequestT
<1>3. /\ Q \in SUBSET RequestT
      /\ {r \in Q : r.kind = "ticket" /\ ~r.stale} = {}
      /\ {r \in Q : r.kind = "retry"} = Looks(s) /\ {r \in Q : r.kind = "probe"} = Probes(s)
      /\ \A r \in Q : \E x \in s.requests : x.stage = r.stage
  BY <1>2 DEF Looks, Probes
<1>4. T \in SUBSET {"current", "stale"} /\ "current" \notin T
  OBVIOUS
<1>5. t = [s EXCEPT !.deliberate = TRUE, !.handle = FALSE, !.retrying = FALSE, !.timers = T,
                    !.requests = Q, !.ws = "none", !.wire = <<>>, !.status = "disconnected"]
  BY DEF Disconnect
<1> HIDE DEF FrameT, EventT, RequestT, Q, T, t
<1>6. t \in LinkT
  BY <1>1, <1>3, <1>4, <1>5 DEF LinkT
<1>7. /\ t.requests = Q /\ t.deliberate = TRUE /\ t.handle = FALSE /\ t.timers = T
      /\ t.ws = "none" /\ t.wire = <<>> /\ t.status = "disconnected"
      /\ t.closed = s.closed /\ t.denied = s.denied /\ t.suspended = s.suspended
      /\ t.retryTimer = s.retryTimer /\ t.probe = s.probe /\ t.send = s.send
      /\ t.on = s.on /\ t.flushed = s.flushed /\ t.buffered = s.buffered /\ t.known = s.known
      /\ t.connected = s.connected /\ t.sessionOver = s.sessionOver /\ t.blind = s.blind
      /\ t.crowded = s.crowded
  BY <1>5 DEF LinkT
<1> QED
  BY <1>3, <1>4, <1>6, <1>7 DEF NoWay, Tickets, Looks, Probes, t

LEMMA CloseDoes ==
  ASSUME NEW s \in LinkT, ~s.closed
  PROVE  LET t == Close(s) IN
         /\ t \in LinkT
         /\ t.deliberate /\ NoWay(t) /\ "current" \notin t.timers /\ t.wire = <<>>
         /\ t.status = "disconnected" /\ t.closed /\ ~t.suspended /\ ~t.retryTimer /\ ~t.send
         /\ ~t.on /\ t.flushed /\ t.buffered = <<>> /\ t.known = s.known
         /\ t.denied = s.denied
         /\ t.connected = s.connected /\ t.sessionOver = s.sessionOver /\ t.blind = s.blind
         /\ t.crowded = s.crowded
         /\ Wait(s) => Wait(t)
         /\ Asking(s) => Asking(t)
         /\ NoNews(s, t) /\ Probes(t) \subseteq Probes(s)
<1> DEFINE waiting == {r \in s.requests : r.stage = "waiting"}
           b == s.probe = "sleeping" \/ \E r \in waiting : r.kind = "probe"
           P == IF b THEN "idle" ELSE s.probe
           Q == s.requests \ waiting
           u == [s EXCEPT !.closed = TRUE, !.send = FALSE, !.buffered = <<>>, !.flushed = TRUE,
                          !.probe = P, !.requests = Q,
                          !.suspended = FALSE, !.retryTimer = FALSE, !.on = FALSE]
           t == Close(s)
<1>1. t = Disconnect(u)
  BY DEF Close
<1>2. P \in {"idle", "asking", "sleeping"} /\ Q \in SUBSET RequestT
  BY DEF LinkT
<1>3. <<>> \in Seq(EventT)
  OBVIOUS
<1> HIDE DEF FrameT, EventT, RequestT, P, Q, t
<1>4. u \in LinkT
  BY <1>2, <1>3 DEF LinkT
<1>5. /\ u.closed = TRUE /\ u.send = FALSE /\ u.buffered = <<>> /\ u.flushed = TRUE /\ u.probe = P
      /\ u.requests = Q /\ u.suspended = FALSE /\ u.retryTimer = FALSE /\ u.on = FALSE
      /\ u.known = s.known /\ u.denied = s.denied /\ u.connected = s.connected
      /\ u.sessionOver = s.sessionOver /\ u.blind = s.blind /\ u.crowded = s.crowded
  BY DEF LinkT
<1> HIDE DEF u
<1>6. /\ t \in LinkT
      /\ t.deliberate /\ NoWay(t) /\ "current" \notin t.timers /\ t.wire = <<>>
      /\ t.status = "disconnected"
      /\ t.closed = u.closed /\ t.denied = u.denied /\ t.suspended = u.suspended
      /\ t.retryTimer = u.retryTimer /\ t.probe = u.probe /\ t.send = u.send
      /\ t.on = u.on /\ t.flushed = u.flushed /\ t.buffered = u.buffered /\ t.known = u.known
      /\ t.connected = u.connected /\ t.sessionOver = u.sessionOver /\ t.blind = u.blind
      /\ t.crowded = u.crowded
      /\ Probes(t) = Probes(u)
      /\ \A r \in t.requests : \E x \in u.requests : x.stage = r.stage
  BY <1>1, <1>4, DisconnectDoes
<1>7. Wait(s) => Wait(t)
  BY <1>5, <1>6 DEF Wait, Probes, P, Q
<1>8. Asking(s) => Asking(t)
  BY <1>5, <1>6 DEF Asking, Probes, P, Q
<1>9. NoNews(s, t)
  BY <1>5, <1>6 DEF NoNews, Q
<1>10. Probes(t) \subseteq Probes(s)
  BY <1>5, <1>6 DEF Probes, Q
<1> QED
  BY <1>5, <1>6, <1>7, <1>8, <1>9, <1>10 DEF t

-----------------------------------------------------------------------------
(* Events *)

\* What an event that closes nothing may touch is left alone.
SameOutside(s, t) ==
  /\ SameControl(s, t) /\ t.wire = s.wire /\ t.status = s.status /\ t.send = s.send
  /\ t.on = s.on /\ t.flushed = s.flushed /\ t.sessionOver = s.sessionOver
  /\ t.ticketed = s.ticketed /\ t.retrying = s.retrying

LEMMA HeardQuiet ==
  ASSUME NEW s \in LinkT, NEW e \in EventT, e.kind # "session-closed"
  PROVE  LET t == Heard(s, e) IN
         /\ t \in LinkT /\ SameOutside(s, t)
         /\ t.buffered = s.buffered /\ t.crowded = s.crowded
         /\ t.known = IF ~s.sessionOver /\ e.kind \in {"connected", "op"} /\ e.rev > s.known
                      THEN e.rev ELSE s.known
         /\ s.sessionOver => t.connected = s.connected /\ t.blind = s.blind
         /\ ~s.sessionOver =>
              /\ t.connected <=> (e.kind = "connected" \/ (s.connected /\ e.kind # "disconnected"))
              /\ t.blind <=> (s.blind /\ e.kind \notin {"connected", "disconnected"})
<1> HIDE DEF FrameT, RequestT
<1>1. e.rev \in Nat /\ e.kind \in {"connected", "op", "disconnected", "denial"}
  BY DEF EventT
<1> HIDE DEF EventT
<1> DEFINE t == Heard(s, e)
<1>2. CASE s.sessionOver
  <2>1. t = s
    BY <1>2 DEF Heard
  <2> QED
    BY <1>2, <2>1 DEF SameOutside, SameControl
<1>3. CASE ~s.sessionOver /\ e.kind \in {"connected", "op"}
  <2> DEFINE c == s.connected \/ e.kind = "connected"
             b == s.blind /\ e.kind # "connected"
             k == IF e.rev > s.known THEN e.rev ELSE s.known
  <2>1. t = [s EXCEPT !.connected = c, !.blind = b, !.known = k]
    BY <1>3 DEF Heard
  <2>2. c \in BOOLEAN /\ b \in BOOLEAN /\ k \in Nat
    BY <1>1 DEF LinkT
  <2> HIDE DEF c, b, k, t
  <2>3. t \in LinkT
    <3> DEFINE x == [s EXCEPT !.connected = c, !.blind = b]
    <3>1. x \in LinkT
      BY <2>2 DEF LinkT
    <3>2. t = [x EXCEPT !.known = k]
      BY <2>1 DEF LinkT
    <3> HIDE DEF x
    <3> QED
      BY <2>2, <3>1, <3>2 DEF LinkT
  <2>4. t.connected = c /\ t.blind = b /\ t.known = k
    BY <2>1 DEF LinkT
  <2>5. SameOutside(s, t) /\ t.buffered = s.buffered /\ t.crowded = s.crowded
    BY <2>1 DEF LinkT, SameOutside, SameControl
  <2>6. /\ t.known = IF e.rev > s.known THEN e.rev ELSE s.known
        /\ t.connected <=> (e.kind = "connected" \/ s.connected)
        /\ t.blind <=> (s.blind /\ e.kind # "connected")
    BY <2>4 DEF c, b, k
  <2> QED
    BY <1>3, <2>3, <2>5, <2>6 DEF t
<1>4. CASE ~s.sessionOver /\ e.kind = "disconnected"
  <2>1. t = [s EXCEPT !.connected = FALSE, !.blind = FALSE]
    BY <1>4 DEF Heard
  <2> HIDE DEF t
  <2>2. t \in LinkT
    BY <2>1 DEF LinkT
  <2>3. t.connected = FALSE /\ t.blind = FALSE /\ t.known = s.known
    BY <2>1 DEF LinkT
  <2>4. SameOutside(s, t) /\ t.buffered = s.buffered /\ t.crowded = s.crowded
    BY <2>1 DEF LinkT, SameOutside, SameControl
  <2> QED
    BY <1>4, <2>2, <2>3, <2>4 DEF t
<1>5. CASE ~s.sessionOver /\ e.kind = "denial"
  <2>1. t = s
    BY <1>5 DEF Heard
  <2> QED
    BY <1>5, <2>1 DEF SameOutside, SameControl
<1> QED
  BY <1>1, <1>2, <1>3, <1>4, <1>5

\* A deleted session closes the connection, once.
LEMMA HeardClosed ==
  ASSUME NEW s \in LinkT, NEW e, e.kind = "session-closed", ~s.sessionOver, ~s.closed
  PROVE  LET t == Heard(s, e) IN
         /\ t \in LinkT
         /\ t.deliberate /\ NoWay(t) /\ "current" \notin t.timers /\ t.wire = <<>>
         /\ t.closed /\ ~t.suspended /\ ~t.retryTimer /\ ~t.send
         /\ ~t.on /\ t.flushed /\ t.buffered = <<>> /\ t.known = s.known
         /\ t.sessionOver /\ ~t.connected /\ ~t.blind /\ t.denied = s.denied
         /\ Wait(s) => Wait(t)
         /\ Asking(s) => Asking(t)
         /\ NoNews(s, t) /\ Probes(t) \subseteq Probes(s)
<1> HIDE DEF FrameT, RequestT, EventT
<1> DEFINE u == [s EXCEPT !.connected = FALSE, !.blind = FALSE, !.sessionOver = TRUE]
<1>1. Heard(s, e) = Close(u)
  BY DEF Heard
<1>2. u \in LinkT
  BY DEF LinkT
<1>3. /\ u.connected = FALSE /\ u.blind = FALSE /\ u.sessionOver = TRUE /\ u.known = s.known
      /\ u.denied = s.denied /\ SameControl(s, u)
  BY DEF LinkT, SameControl
<1> HIDE DEF u
<1>4. ~u.closed /\ (Wait(s) <=> Wait(u)) /\ (Asking(s) <=> Asking(u))
  BY <1>3, ControlSame DEF SameControl
<1>5. (NoNews(u, Close(u)) => NoNews(s, Close(u))) /\ Probes(u) = Probes(s)
  BY <1>3 DEF NoNews, SameControl, Probes
<1> QED
  BY <1>1, <1>2, <1>3, <1>4, <1>5, CloseDoes

LEMMA Least ==
  ASSUME NEW T, T \subseteq Nat, T # {}
  PROVE  \E m \in T : \A n \in T : m <= n
<1>1. PICK x \in T : TRUE
  OBVIOUS
<1> DEFINE U == {0 .. n : n \in {n \in T : n <= x}}
           R == StrictSubsetOrdering(0 .. x)
           F == FiniteSubsetsOf(0 .. x)
<1>2. IsWellFoundedOn(R, F)
  BY FS_StrictSubsetOrderingWellFounded
<1>3. U \subseteq F
  <2>1. ASSUME NEW n \in T, n <= x PROVE 0 .. n \in F
    <3>1. IsFiniteSet(0 .. n)
      BY FS_Interval
    <3>2. 0 .. n \subseteq 0 .. x
      BY <2>1
    <3> QED
      BY <3>1, <3>2 DEF FiniteSubsetsOf
  <2> HIDE DEF F
  <2> QED
    BY <2>1
<1>4. 0 .. x \in U
  OBVIOUS
<1> HIDE DEF R, F, U
<1>5. PICK u \in U : \A w \in U : ~(<<w, u>> \in R)
  BY <1>2, <1>3, <1>4, WFMin
<1>6. PICK m \in T : m <= x /\ u = 0 .. m
  BY DEF U
<1>7. ASSUME NEW n \in T, n < m PROVE FALSE
  <2>1. n <= x /\ 0 .. n \in U
    BY <1>6, <1>7 DEF U
  <2>2. 0 .. n \subseteq 0 .. m /\ 0 .. n # 0 .. m /\ 0 .. m \subseteq 0 .. x
    <3>1. m \in 0 .. m /\ m \notin 0 .. n
      BY <1>7
    <3> QED
      BY <3>1, <1>6, <1>7
  <2>3. <<0 .. n, u>> \in R
    BY <1>6, <2>2 DEF R, StrictSubsetOrdering
  <2> QED
    BY <1>5, <2>1, <2>3
<1> QED
  BY <1>6, <1>7

\* What the buffer becomes: an op gave way, or nothing did, or the buffer is
\* full of other events.
Made(es, k) ==
  /\ k \in Seq(EventT) /\ Len(k) <= BufferCap
  /\ \A i \in 1 .. Len(k) : \E x \in 1 .. Len(es) : k[i] = es[x]
  /\ \/ Cardinality({i \in DOMAIN k : k[i].kind # "op"}) = BufferCap
     \/ /\ \A i \in 1 .. Len(es) : es[i].kind # "op" => \E x \in 1 .. Len(k) : k[x] = es[i]
        /\ \E x \in 1 .. Len(k) : k[x] = es[Len(es)]

LEMMA EvictedOK ==
  ASSUME NEW es \in Seq(EventT), es # <<>>, Len(es) <= BufferCap + 1
  PROVE  Made(es, Evicted(es))
<1> DEFINE I == {i \in 1 .. Len(es) : es[i].kind = "op"}
           ops == SelectInSeq(es, LAMBDA e : e.kind = "op")
           g == IF ops = 0 THEN 1 ELSE ops
           k == Evicted(es)
           n == Len(es)
<1> HIDE DEF EventT
<1>1. BufferCap \in Nat \ {0} /\ n \in Nat /\ n >= 1
  BY CollabStreamAssumption
<1>2. CASE n <= BufferCap
  <2>1. k = es
    BY <1>2 DEF Evicted
  <2> QED
    BY <1>1, <1>2, <2>1 DEF Made
<1>3. CASE n = BufferCap + 1
  <2>1. k = RemoveAt(es, g)
    BY <1>1, <1>3 DEF Evicted
  <2>2. ops = IF I # {} THEN Min(I) ELSE 0
    BY DEF SelectInSeq
  <2>3. I = {} => g = 1 /\ \A i \in 1 .. n : es[i].kind # "op"
    BY <2>2
  <2>4. I # {} => g \in I /\ \A i \in I : g <= i
    <3> HIDE DEF I
    <3>1. ASSUME I # {}
          PROVE  Min(I) \in I /\ \A i \in I : Min(I) <= i
      <4>1. \E m \in I : \A i \in I : m <= i
        <5>1. I \subseteq Nat
          BY DEF I
        <5> QED
          BY <3>1, <5>1, Least
      <4> QED
        BY <4>1 DEF Min
    <3>2. I # {} => Min(I) # 0
      BY <3>1 DEF I
    <3> QED
      BY <2>2, <3>1, <3>2
  <2>5. g \in 1 .. n
    BY <1>1, <2>3, <2>4
  <2> HIDE DEF ops, g, k, I, n
  <2> DEFINE a == SubSeq(es, 1, g - 1)  b == SubSeq(es, g + 1, n)
  <2>6. /\ a \in Seq(EventT) /\ Len(a) = g - 1 /\ \A i \in 1 .. g - 1 : a[i] = es[i]
        /\ b \in Seq(EventT) /\ Len(b) = n - g /\ \A i \in 1 .. n - g : b[i] = es[g + i]
    BY <1>1, <2>5 DEF n
  <2>7. k = a \o b
    BY <2>1 DEF RemoveAt, n
  <2> HIDE DEF a, b
  <2>8. k \in Seq(EventT) /\ Len(k) = n - 1
    <3>1. Len(a) \in Nat /\ Len(b) \in Nat /\ Len(a) + Len(b) = n - 1
      BY <1>1, <2>5, <2>6
    <3>2. a \o b \in Seq(EventT) /\ Len(a \o b) = Len(a) + Len(b)
      <4>1. a \in Seq(EventT) /\ b \in Seq(EventT)
        BY <2>6
      <4> QED
        BY <4>1
    <3> QED
      BY <2>7, <3>1, <3>2
  <2>9. \A i \in 1 .. n - 1 : k[i] = IF i < g THEN es[i] ELSE es[i + 1]
    BY <1>1, <2>5, <2>6, <2>7
  <2>10. \A i \in 1 .. Len(k) : \E x \in 1 .. n : k[i] = es[x]
    BY <1>1, <2>5, <2>8, <2>9
  <2>11. \A i \in 1 .. n : i # g => \E x \in 1 .. Len(k) : k[x] = es[i]
    <3> TAKE i \in 1 .. n
    <3>1. i < g => i \in 1 .. n - 1 /\ k[i] = es[i]
      BY <1>1, <2>5, <2>9
    <3>2. i > g => i - 1 \in 1 .. n - 1 /\ k[i - 1] = es[i]
      BY <1>1, <2>5, <2>9
    <3> QED
      BY <2>5, <2>8, <3>1, <3>2
  <2>12. CASE \A i \in 1 .. Len(k) : k[i].kind # "op"
    <3>1. {i \in DOMAIN k : k[i].kind # "op"} = 1 .. BufferCap
      BY <1>1, <1>3, <2>8, <2>12 DEF n
    <3>2. Cardinality(1 .. BufferCap) = BufferCap
      BY <1>1, FS_Interval
    <3>3. Cardinality({i \in DOMAIN k : k[i].kind # "op"}) = BufferCap
      BY <3>1, <3>2
    <3>4. Made(es, k)
      BY <1>1, <1>3, <2>8, <2>10, <3>3 DEF Made, n
    <3> QED
      BY <3>4 DEF k
  <2>13. CASE \E i \in 1 .. Len(k) : k[i].kind = "op"
    <3>1. PICK y \in 1 .. n - 1 : k[y].kind = "op"
      BY <2>8, <2>13
    <3>2. I # {}
      BY <1>1, <2>5, <2>9, <3>1 DEF I, n
    <3>3. es[g].kind = "op"
      BY <2>4, <3>2 DEF I
    <3>4. g # n
      <4> SUFFICES ASSUME g = n
                   PROVE  FALSE
        OBVIOUS
      <4>1. k[y] = es[y] /\ y < g /\ y \in I
        BY <1>1, <2>9, <3>1 DEF I, n
      <4> QED
        BY <1>1, <2>4, <4>1 DEF n
    <3>5. \A i \in 1 .. n : es[i].kind # "op" => \E x \in 1 .. Len(k) : k[x] = es[i]
      BY <2>11, <3>3
    <3>6. \E x \in 1 .. Len(k) : k[x] = es[n]
      BY <1>1, <2>11, <3>4
    <3> QED
      BY <1>1, <1>3, <2>8, <2>10, <3>5, <3>6 DEF Made, n, k
  <2> QED
    BY <2>12, <2>13 DEF k
<1> QED
  BY <1>1, <1>2, <1>3 DEF n

\* What is told to a listener that is not there yet.
Buffers(s, t, e) ==
  /\ \A i \in 1 .. Len(t.buffered) :
       t.buffered[i] = e \/ \E x \in 1 .. Len(s.buffered) : t.buffered[i] = s.buffered[x]
  /\ s.crowded => t.crowded
  /\ ~t.crowded =>
       /\ \E x \in 1 .. Len(t.buffered) : t.buffered[x] = e
       /\ \A i \in 1 .. Len(s.buffered) : s.buffered[i].kind # "op" =>
            \E x \in 1 .. Len(t.buffered) : t.buffered[x] = s.buffered[i]

\* An event that finds no listener.
Unheard(s, t, e) ==
  /\ t \in LinkT /\ SameOutside(s, t) /\ Len(t.buffered) <= BufferCap
  /\ t.known = s.known /\ t.connected = s.connected /\ t.blind = s.blind
  /\ IF s.on \/ s.flushed \/ e.kind = "disconnected"
     THEN t.buffered = s.buffered /\ t.crowded = s.crowded
     ELSE Buffers(s, t, e)

LEMMA EmitUnheard ==
  ASSUME NEW s \in LinkT, NEW e \in EventT, ~s.on, Len(s.buffered) <= BufferCap
  PROVE  Unheard(s, Emit(s, e), e)
<1> DEFINE u == [s EXCEPT !.told = s.told \/ e.kind = "session-closed"]
           es == Append(s.buffered, e)
           k == Evicted(es)
           full == Cardinality({i \in DOMAIN k : k[i].kind # "op"}) = BufferCap
<1> HIDE DEF FrameT, RequestT, EventT
<1>1. u \in LinkT /\ SameOutside(s, u) /\ u.known = s.known /\ u.connected = s.connected
      /\ u.blind = s.blind /\ u.buffered = s.buffered /\ u.crowded = s.crowded
  BY DEF LinkT, SameOutside, SameControl
<1>2. CASE s.flushed \/ e.kind = "disconnected"
  <2>1. Emit(s, e) = u
    BY <1>2 DEF Emit
  <2> HIDE DEF u
  <2> QED
    BY <1>1, <1>2, <2>1 DEF Unheard
<1>3. CASE ~(s.flushed \/ e.kind = "disconnected")
  <2> DEFINE t == [u EXCEPT !.buffered = k, !.crowded = u.crowded \/ full]
  <2>1. Emit(s, e) = t
    BY <1>3 DEF Emit
  <2>2. s.buffered \in Seq(EventT)
    BY DEF LinkT
  <2>3. /\ es \in Seq(EventT) /\ es # <<>> /\ Len(es) = Len(s.buffered) + 1
        /\ es[Len(es)] = e /\ \A i \in 1 .. Len(s.buffered) : es[i] = s.buffered[i]
    BY <2>2
  <2> HIDE DEF es, k
  <2>4. Made(es, k)
    <3>1. Len(es) <= BufferCap + 1
      BY <2>2, <2>3, CollabStreamAssumption
    <3> QED
      BY <2>3, <3>1, EvictedOK DEF k
  <2>5. k \in Seq(EventT) /\ Len(k) <= BufferCap
    BY <2>4 DEF Made
  <2> HIDE DEF u, full
  <2>6. (u.crowded \/ full) \in BOOLEAN
    BY DEF full
  <2>7. t \in LinkT /\ t.buffered = k /\ (t.crowded <=> (u.crowded \/ full))
    <3> DEFINE c == u.crowded \/ full
    <3>1. c \in BOOLEAN /\ t = [u EXCEPT !.buffered = k, !.crowded = c]
      BY <1>1, <2>6
    <3> HIDE DEF FrameT, RequestT, EventT, c, t
    <3>2. t \in LinkT /\ t.buffered = k /\ t.crowded = c
      BY <1>1, <2>5, <3>1 DEF LinkT
    <3> QED
      BY <3>2 DEF c
  <2>8. SameOutside(u, t) /\ t.known = u.known /\ t.connected = u.connected /\ t.blind = u.blind
    <3> HIDE DEF FrameT, RequestT, EventT
    <3> QED
      BY <1>1 DEF LinkT, SameOutside, SameControl
  <2> HIDE DEF t
  <2>9. \A i \in 1 .. Len(k) :
          k[i] = e \/ \E x \in 1 .. Len(s.buffered) : k[i] = s.buffered[x]
    <3> TAKE i \in 1 .. Len(k)
    <3>1. PICK x \in 1 .. Len(es) : k[i] = es[x]
      BY <2>4 DEF Made
    <3>2. x = Len(es) \/ x \in 1 .. Len(s.buffered)
      BY <2>2, <2>3
    <3> QED
      BY <2>3, <3>1, <3>2
  <2>10. ~full =>
           /\ \E x \in 1 .. Len(k) : k[x] = e
           /\ \A i \in 1 .. Len(s.buffered) : s.buffered[i].kind # "op" =>
                \E x \in 1 .. Len(k) : k[x] = s.buffered[i]
    <3> SUFFICES ASSUME ~full
                 PROVE  /\ \E x \in 1 .. Len(k) : k[x] = e
                        /\ \A i \in 1 .. Len(s.buffered) : s.buffered[i].kind # "op" =>
                             \E x \in 1 .. Len(k) : k[x] = s.buffered[i]
      OBVIOUS
    <3>1. /\ \A i \in 1 .. Len(es) : es[i].kind # "op" => \E x \in 1 .. Len(k) : k[x] = es[i]
          /\ \E x \in 1 .. Len(k) : k[x] = es[Len(es)]
      BY <2>4 DEF Made, full
    <3>2. \A i \in 1 .. Len(s.buffered) : i \in 1 .. Len(es)
      BY <2>2, <2>3
    <3> QED
      BY <2>3, <3>1, <3>2
  <2>11. Buffers(s, t, e)
    BY <1>1, <2>7, <2>9, <2>10 DEF Buffers
  <2>12. SameOutside(s, t)
    BY <1>1, <2>8 DEF SameOutside, SameControl
  <2> QED
    BY <1>1, <1>3, <2>1, <2>5, <2>7, <2>8, <2>11, <2>12 DEF Unheard
<1> QED
  BY <1>2, <1>3

-----------------------------------------------------------------------------
(* What the listener has, or will have, and what it may believe *)

Ears(s, h) ==
  /\ Len(s.buffered) <= BufferCap
  /\ s.known <= h
  /\ \A i \in 1 .. Len(s.buffered) :
       s.buffered[i].rev <= h /\ s.buffered[i].kind # "disconnected"
  /\ s.closed => s.flushed /\ ~s.on
  /\ s.on => s.flushed
  /\ s.flushed /\ ~s.on => s.closed
  /\ s.sessionOver => s.closed
  /\ ~s.on => ~s.connected

\* A lost socket is known to be lost.
Drops(s) == s.connected /\ ~s.send => s.blind \/ s.denied

SameEars(s, t) ==
  /\ t.on = s.on /\ t.flushed = s.flushed /\ t.buffered = s.buffered /\ t.known = s.known
  /\ t.connected = s.connected /\ t.sessionOver = s.sessionOver /\ t.blind = s.blind
  /\ t.crowded = s.crowded

LEMMA EarsSame ==
  ASSUME NEW s, NEW t, NEW h, SameEars(s, t), t.closed = s.closed, Ears(s, h)
  PROVE  Ears(t, h)
BY DEF SameEars, Ears

\* The connection is closed for good.
Shut(s, t) ==
  /\ t.deliberate /\ NoWay(t) /\ "current" \notin t.timers /\ t.wire = <<>>
  /\ t.closed /\ ~t.suspended /\ ~t.retryTimer /\ ~t.send
  /\ ~t.on /\ t.flushed /\ t.buffered = <<>> /\ t.known = s.known
  /\ t.denied = s.denied
  /\ Wait(s) => Wait(t)
  /\ Asking(s) => Asking(t)
  /\ NoNews(s, t) /\ Probes(t) \subseteq Probes(s)

LEMMA ShutControl ==
  ASSUME NEW s, NEW t \in LinkT, Shut(s, t), Wait(s)
  PROVE  Control(t) /\ Ended(t)
BY DEF Shut, Control, Way, Look, Ended, Over, NoWay

LEMMA ShutEars ==
  ASSUME NEW s, NEW t \in LinkT, NEW h \in Nat, Shut(s, t), Ears(s, h), ~t.connected
  PROVE  Ears(t, h) /\ Drops(t)
<1>1. Len(<<>>) = 0 /\ 0 <= BufferCap /\ 1 .. 0 = {}
  BY CollabStreamAssumption
<1> QED
  BY <1>1 DEF Shut, Ears, Drops

\* What is emitted.
LEMMA EmitDoes ==
  ASSUME NEW s \in LinkT, NEW h \in Nat, Ears(s, h), NEW e \in EventT, e.rev <= h
  PROVE  LET t == Emit(s, e) IN
         /\ t \in LinkT /\ Ears(t, h)
         /\ s.on /\ e.kind = "session-closed" => Shut(s, t) /\ ~t.connected
         /\ ~(s.on /\ e.kind = "session-closed") => SameOutside(s, t)
         /\ s.on /\ e.kind # "session-closed" =>
              /\ t.buffered = s.buffered /\ t.crowded = s.crowded
              /\ t.known = IF e.kind \in {"connected", "op"} /\ e.rev > s.known THEN e.rev ELSE s.known
              /\ t.connected <=> (e.kind = "connected" \/ (s.connected /\ e.kind # "disconnected"))
              /\ t.blind <=> (s.blind /\ e.kind \notin {"connected", "disconnected"})
         /\ ~s.on => Unheard(s, t, e)
<1> DEFINE t == Emit(s, e)
<1>1. CASE ~s.on
  <2>1. Unheard(s, t, e)
    BY <1>1, EmitUnheard DEF Ears
  <2>2. SameOutside(s, t) /\ t \in LinkT
    BY <2>1 DEF Unheard
  <2>3. Ears(t, h)
    <3> HIDE DEF t
    <3>1. /\ t.on = s.on /\ t.flushed = s.flushed /\ t.sessionOver = s.sessionOver
          /\ t.closed = s.closed /\ t.known = s.known /\ t.connected = s.connected
          /\ Len(t.buffered) <= BufferCap
      BY <2>1, <2>2 DEF Unheard, SameOutside, SameControl
    <3>2. \A i \in 1 .. Len(t.buffered) :
            t.buffered[i].rev <= h /\ t.buffered[i].kind # "disconnected"
      BY <2>1 DEF Unheard, Buffers, Ears
    <3> QED
      BY <3>1, <3>2 DEF Ears
  <2> QED
    BY <1>1, <2>1, <2>2, <2>3
<1>2. CASE s.on
  <2> DEFINE u == [s EXCEPT !.told = s.told \/ e.kind = "session-closed"]
  <2>1. t = Heard(u, e)
    BY <1>2 DEF Emit
  <2>2. u \in LinkT /\ SameOutside(s, u) /\ SameEars(s, u)
    <3> HIDE DEF FrameT, RequestT, EventT
    <3> QED
      BY DEF LinkT, SameOutside, SameControl, SameEars
  <2> HIDE DEF u, t
  <2>3. ~u.sessionOver /\ ~u.closed
    BY <1>2, <2>2 DEF Ears, SameOutside, SameControl, SameEars
  <2>4. CASE e.kind = "session-closed"
    <3>1. /\ t \in LinkT /\ ~t.connected
          /\ t.deliberate /\ NoWay(t) /\ "current" \notin t.timers /\ t.wire = <<>>
          /\ t.closed /\ ~t.suspended /\ ~t.retryTimer /\ ~t.send
          /\ ~t.on /\ t.flushed /\ t.buffered = <<>> /\ t.known = u.known
          /\ t.denied = u.denied
          /\ Wait(u) => Wait(t)
          /\ Asking(u) => Asking(t)
          /\ NoNews(u, t) /\ Probes(t) \subseteq Probes(u)
      BY <2>1, <2>2, <2>3, <2>4, HeardClosed
    <3>2. (Wait(s) <=> Wait(u)) /\ (Asking(s) <=> Asking(u))
      BY <2>2, ControlSame DEF SameOutside
    <3>3. Shut(s, t)
      <4>1. NoNews(s, t) /\ Probes(t) \subseteq Probes(s)
        BY <2>2, <3>1 DEF NoNews, Probes, SameOutside, SameControl
      <4> QED
        BY <2>2, <3>1, <3>2, <4>1 DEF Shut, SameEars, SameOutside, SameControl
    <3>4. Ears(t, h)
      BY <3>1, <3>3, ShutEars
    <3> QED
      BY <1>2, <2>4, <3>1, <3>3, <3>4 DEF t
  <2>5. CASE e.kind # "session-closed"
    <3>1. /\ t \in LinkT /\ SameOutside(u, t) /\ t.buffered = u.buffered /\ t.crowded = u.crowded
          /\ t.known = IF e.kind \in {"connected", "op"} /\ e.rev > u.known
                      THEN e.rev ELSE u.known
          /\ t.connected <=> (e.kind = "connected" \/ (u.connected /\ e.kind # "disconnected"))
          /\ t.blind <=> (u.blind /\ e.kind \notin {"connected", "disconnected"})
      BY <2>1, <2>2, <2>3, <2>5, HeardQuiet
    <3>2. SameOutside(s, t)
      BY <2>2, <3>1 DEF SameOutside, SameControl
    <3>3. Ears(t, h)
      <4>1. t.known <= h
        BY <2>2, <3>1 DEF Ears, SameEars
      <4> QED
        BY <1>2, <2>2, <3>1, <3>2, <4>1 DEF Ears, SameEars, SameOutside, SameControl
    <3> QED
      BY <1>2, <2>2, <2>5, <3>1, <3>2, <3>3 DEF SameEars, t
  <2> QED
    BY <2>4, <2>5
<1> QED
  BY <1>1, <1>2

-----------------------------------------------------------------------------
(* The methods of the two classes *)

\* A way up is not touched.
SameWay(s, t) ==
  /\ t.closed = s.closed /\ t.denied = s.denied /\ t.suspended = s.suspended
  /\ t.ws = s.ws /\ t.wire = s.wire /\ t.handle = s.handle /\ t.deliberate = s.deliberate
  /\ t.timers = s.timers /\ t.retryTimer = s.retryTimer
  /\ Tickets(t) = Tickets(s) /\ Looks(t) = Looks(s)

LEMMA WaySame ==
  ASSUME NEW s, NEW t, SameWay(s, t)
  PROVE  /\ Way(s) <=> Way(t)
         /\ Look(s) <=> Look(t)
         /\ Between(s) <=> Between(t)
         /\ Ended(s) <=> Ended(t)
         /\ Over(s) <=> Over(t)
BY DEF SameWay, Way, Look, Between, NoWay, Ended, Over

LEMMA ProbeDoes ==
  ASSUME NEW s \in LinkT
  PROVE  LET t == Probe(s) IN
         /\ t \in LinkT /\ SameWay(s, t) /\ SameEars(s, t)
         /\ t.status = s.status /\ t.send = s.send /\ t.ticketed = s.ticketed /\ t.retrying = s.retrying
         /\ Wait(s) /\ Asking(s) => Wait(t) /\ Asking(t)
         /\ \A r \in t.requests : r \in s.requests \/ r.stage \in {"sent", "waiting"}
<1> DEFINE t == Probe(s)
           r == Request("probe", IF s.suspended THEN "waiting" ELSE "sent")
<1>1. CASE s.probe # "idle"
  BY <1>1 DEF Probe, SameWay, SameEars
<1>2. CASE s.probe = "idle"
  <2>1. t = [s EXCEPT !.probe = "asking", !.requests = s.requests \cup {r}]
    <3> HIDE DEF FrameT, RequestT, EventT
    <3> QED
      BY <1>2 DEF Probe, Issue, LinkT
  <2>2. r \in RequestT /\ r.kind = "probe" /\ r.stage = IF s.suspended THEN "waiting" ELSE "sent"
    BY DEF Request, RequestT
  <2> HIDE DEF t, r, FrameT, RequestT, EventT
  <2>3. t \in LinkT /\ t.probe = "asking" /\ t.requests = s.requests \cup {r}
    BY <2>1, <2>2 DEF LinkT
  <2>4. /\ SameEars(s, t) /\ t.status = s.status /\ t.send = s.send
        /\ t.ticketed = s.ticketed /\ t.retrying = s.retrying
    BY <2>1 DEF LinkT, SameEars
  <2>5. /\ t.closed = s.closed /\ t.denied = s.denied /\ t.suspended = s.suspended
        /\ t.ws = s.ws /\ t.wire = s.wire /\ t.handle = s.handle /\ t.deliberate = s.deliberate
        /\ t.timers = s.timers /\ t.retryTimer = s.retryTimer
    BY <2>1 DEF LinkT
  <2>6. SameWay(s, t)
    BY <2>2, <2>3, <2>5 DEF SameWay, Tickets, Looks
  <2>7. Wait(s) => Wait(t) /\ Asking(t)
    BY <1>2, <2>2, <2>3, <2>5 DEF Wait, Asking, Probes
  <2> QED
    BY <2>2, <2>3, <2>4, <2>6, <2>7 DEF t
<1> QED
  BY <1>1, <1>2

\* A change of the socket's status.
LEMMA StatusDoes ==
  ASSUME NEW s \in LinkT, NEW h \in Nat, Ears(s, h),
         NEW status \in {"connecting", "connected", "reconnecting"}
  PROVE  LET t == StatusIs(s, status) IN
         /\ t \in LinkT /\ Ears(t, h) /\ SameWay(s, t)
         /\ t.status = status /\ t.retrying = s.retrying /\ t.ticketed = s.ticketed
         /\ Drops(s) => Drops(t)
         /\ Wait(s) /\ Asking(s) => Wait(t) /\ Asking(t)
         /\ \A r \in t.requests : r \in s.requests \/ r.stage \in {"sent", "waiting"}
         /\ status # "reconnecting" => SameEars(s, t) /\ t.send = s.send
<1> DEFINE t == StatusIs(s, status)
           u == [s EXCEPT !.status = status]
<1>1. u \in LinkT /\ SameControl(s, u) /\ SameEars(s, u) /\ u.wire = s.wire /\ u.status = status
      /\ u.send = s.send /\ u.retrying = s.retrying /\ u.ticketed = s.ticketed
  <2> HIDE DEF FrameT, RequestT, EventT
  <2> QED
    BY DEF LinkT, SameControl, SameEars
<1>2. SameWay(s, u) /\ (Wait(s) <=> Wait(u)) /\ (Asking(s) <=> Asking(u)) /\ Ears(u, h)
  <2>1. SameWay(s, u) /\ u.closed = s.closed
    BY <1>1 DEF SameWay, SameControl, Tickets, Looks
  <2> QED
    BY <1>1, <2>1, ControlSame, EarsSame
<1> HIDE DEF u
<1>3. CASE s.status = status \/ status # "reconnecting" \/ Over(s) \/ s.suspended
  <2>1. t = u
    BY <1>3 DEF StatusIs, u
  <2>2. Drops(s) => Drops(u)
    BY <1>1 DEF Drops, SameEars, SameControl
  <2>3. u.requests = s.requests
    BY <1>1 DEF SameControl
  <2> QED
    BY <1>1, <1>2, <2>1, <2>2, <2>3
<1>4. CASE ~(s.status = status \/ status # "reconnecting" \/ Over(s) \/ s.suspended)
  <2> DEFINE v == [u EXCEPT !.send = FALSE]
             e == Event("disconnected", 0)
             w == IF s.send THEN Emit(v, e) ELSE u
  <2>1. t = Probe(w)
    BY <1>4 DEF StatusIs, u
  <2>2. v \in LinkT /\ SameControl(u, v) /\ SameEars(u, v) /\ v.wire = u.wire /\ v.status = status
        /\ ~v.send /\ v.retrying = u.retrying /\ v.ticketed = u.ticketed
    <3> HIDE DEF FrameT, RequestT, EventT
    <3> QED
      BY <1>1 DEF LinkT, SameControl, SameEars
  <2>3. e \in EventT /\ e.kind = "disconnected" /\ e.rev = 0 /\ e.rev <= h
    BY DEF Event, EventT
  <2> HIDE DEF v, e
  <2>4. Ears(v, h)
    BY <1>2, <2>2, EarsSame DEF SameControl
  <2>5. /\ w \in LinkT /\ Ears(w, h) /\ SameControl(s, w) /\ w.wire = s.wire /\ w.status = status
        /\ w.retrying = s.retrying /\ w.ticketed = s.ticketed
        /\ (Drops(s) => Drops(w))
    <3>1. CASE s.send
      <4> DEFINE x == Emit(v, e)
      <4>1. /\ x \in LinkT /\ Ears(x, h) /\ SameOutside(v, x)
            /\ v.on => ~x.connected
            /\ ~v.on => Unheard(v, x, e)
        BY <2>2, <2>3, <2>4, EmitDoes
      <4>2. w = x
        BY <3>1
      <4> HIDE DEF x, w
      <4>3. ~x.connected
        BY <2>4, <4>1 DEF Unheard, Ears
      <4>4. Drops(x)
        BY <4>3 DEF Drops
      <4> QED
        BY <1>1, <2>2, <4>1, <4>2, <4>4 DEF SameOutside, SameControl
    <3>2. CASE ~s.send
      <4>1. w = u
        BY <3>2
      <4>2. Drops(s) => Drops(u)
        BY <1>1 DEF Drops, SameEars, SameControl
      <4> HIDE DEF w
      <4> QED
        BY <1>1, <1>2, <4>1, <4>2
    <3> QED
      BY <3>1, <3>2
  <2> HIDE DEF w, t
  <2>6. /\ t \in LinkT /\ SameWay(w, t) /\ SameEars(w, t)
        /\ t.status = w.status /\ t.send = w.send /\ t.ticketed = w.ticketed /\ t.retrying = w.retrying
        /\ Wait(w) /\ Asking(w) => Wait(t) /\ Asking(t)
        /\ \A r \in t.requests : r \in w.requests \/ r.stage \in {"sent", "waiting"}
    BY <2>1, <2>5, ProbeDoes
  <2>7. SameWay(s, w) /\ (Wait(s) <=> Wait(w)) /\ (Asking(s) <=> Asking(w)) /\ w.requests = s.requests
    <3>1. SameWay(s, w) /\ w.requests = s.requests
      BY <2>5 DEF SameWay, SameControl, Tickets, Looks
    <3> QED
      BY <2>5, <3>1, ControlSame
  <2>8. SameWay(s, t)
    BY <2>6, <2>7 DEF SameWay
  <2>9. Ears(t, h)
    BY <2>5, <2>6, EarsSame DEF SameWay
  <2>10. Drops(s) => Drops(t)
    BY <2>5, <2>6 DEF Drops, SameEars, SameWay
  <2> QED
    BY <1>4, <2>5, <2>6, <2>7, <2>8, <2>9, <2>10 DEF t
<1> QED
  BY <1>3, <1>4

\* No socket has been accepted.
Down(t) == t.ws \in {"none", "asked"} /\ t.wire = <<>>
Ready(s, h) == s \in LinkT /\ Ears(s, h) /\ Drops(s)
Steady(s) == Look(s) /\ Wait(s) /\ Asking(s)
Settled(t, h) == Ready(t, h) /\ Way(t) /\ Steady(t) /\ Down(t)

LEMMA ScheduleDoes ==
  ASSUME NEW s, NEW h \in Nat, Ready(s, h), Between(s), Steady(s), s.wire = <<>>
  PROVE  Settled(ScheduleReconnect(s), h) /\ NoNews(s, ScheduleReconnect(s))
<1> DEFINE u == StatusIs(s, "reconnecting")
           t == ScheduleReconnect(s)
<1>1. t = [u EXCEPT !.retrying = TRUE, !.handle = TRUE, !.timers = u.timers \cup {"current"}]
  <2>1. ~s.handle
    BY DEF Between, NoWay
  <2>2. t = [u EXCEPT !.retrying = TRUE, !.handle = TRUE, !.timers = @ \cup {"current"}]
    BY <2>1 DEF ScheduleReconnect
  <2> HIDE DEF u, t
  <2> QED
    BY <2>2
<1>2. /\ u \in LinkT /\ Ears(u, h) /\ SameWay(s, u) /\ Drops(u) /\ Wait(u) /\ Asking(u)
      /\ \A r \in u.requests : r \in s.requests \/ r.stage \in {"sent", "waiting"}
  BY StatusDoes DEF Ready, Steady
<1> HIDE DEF u, t
<1>3. Between(u) /\ Look(u)
  BY <1>2, WaySame DEF Steady
<1>4. t \in LinkT /\ t.handle /\ t.timers = u.timers \cup {"current"} /\ SameEars(u, t)
  <2> HIDE DEF FrameT, RequestT, EventT
  <2>1. u.timers \cup {"current"} \in SUBSET {"current", "stale"}
    BY <1>2 DEF LinkT
  <2> QED
    BY <1>1, <1>2, <2>1 DEF LinkT, SameEars
<1>5. /\ t.closed = u.closed /\ t.denied = u.denied /\ t.suspended = u.suspended
      /\ t.ws = u.ws /\ t.wire = u.wire /\ t.deliberate = u.deliberate
      /\ t.retryTimer = u.retryTimer /\ t.requests = u.requests /\ t.probe = u.probe
      /\ t.send = u.send
  BY <1>1, <1>2 DEF LinkT
<1>6. Ears(t, h) /\ Drops(t)
  BY <1>2, <1>4, <1>5, EarsSame DEF Drops, SameEars
<1>7. Look(t) /\ Wait(t) /\ Asking(t)
  BY <1>2, <1>3, <1>5 DEF Look, Wait, Asking, Probes, Looks, Ended, Over
<1>8. Way(t)
  BY <1>3, <1>4, <1>5 DEF Way, Between, NoWay, Tickets, Ended, Over
<1>9. Down(t)
  BY <1>2, <1>3, <1>5 DEF Down, Between, NoWay, SameWay
<1>10. NoNews(s, t)
  BY <1>2, <1>5 DEF NoNews
<1> QED
  BY <1>4, <1>6, <1>7, <1>8, <1>9, <1>10 DEF Settled, Ready, Steady, t

LEMMA CreateDoes ==
  ASSUME NEW s, NEW h \in Nat, Ready(s, h), Between(s), Steady(s), s.wire = <<>>
  PROVE  Settled(CreateSocket(s), h) /\ NoNews(s, CreateSocket(s))
<1> DEFINE status == IF s.retrying THEN "reconnecting" ELSE "connecting"
           u == StatusIs(s, status)
           t == CreateSocket(s)
<1>1. t = [u EXCEPT !.ws = "asked", !.wire = <<>>]
  BY DEF Between, NoWay, CreateSocket
<1>2. status \in {"connecting", "connected", "reconnecting"}
  OBVIOUS
<1> HIDE DEF status
<1>3. /\ u \in LinkT /\ Ears(u, h) /\ SameWay(s, u) /\ Drops(u) /\ Wait(u) /\ Asking(u)
      /\ \A r \in u.requests : r \in s.requests \/ r.stage \in {"sent", "waiting"}
  BY <1>2, StatusDoes DEF Ready, Steady
<1> HIDE DEF u, t
<1>4. Between(u) /\ Look(u)
  BY <1>3, WaySame DEF Steady
<1>5. t \in LinkT /\ t.ws = "asked" /\ t.wire = <<>> /\ SameEars(u, t)
  <2>1. <<>> \in Seq(FrameT)
    OBVIOUS
  <2> HIDE DEF FrameT, RequestT, EventT
  <2> QED
    BY <1>1, <1>3, <2>1 DEF LinkT, SameEars
<1>6. /\ t.closed = u.closed /\ t.denied = u.denied /\ t.suspended = u.suspended
      /\ t.handle = u.handle /\ t.timers = u.timers /\ t.deliberate = u.deliberate
      /\ t.retryTimer = u.retryTimer /\ t.requests = u.requests /\ t.probe = u.probe
      /\ t.send = u.send
  BY <1>1, <1>3 DEF LinkT
<1>7. Ears(t, h) /\ Drops(t)
  BY <1>3, <1>5, <1>6, EarsSame DEF Drops, SameEars
<1>8. Look(t) /\ Wait(t) /\ Asking(t)
  BY <1>3, <1>4, <1>6 DEF Look, Wait, Asking, Probes, Looks, Ended, Over
<1>9. Way(t)
  BY <1>4, <1>5, <1>6 DEF Way, Between, NoWay, Tickets, Ended, Over
<1>10. NoNews(s, t)
  BY <1>3, <1>6 DEF NoNews
<1> QED
  BY <1>5, <1>7, <1>8, <1>9, <1>10 DEF Settled, Ready, Steady, Down, t

LEMMA OpenDoes ==
  ASSUME NEW s, NEW h \in Nat, Ready(s, h), Between(s), Steady(s), s.wire = <<>>
  PROVE  Settled(OpenSocket(s), h) /\ NoNews(s, OpenSocket(s))
<1>1. CASE ~s.ticketed
  <2>1. OpenSocket(s) = CreateSocket(s)
    BY <1>1 DEF OpenSocket, Between, NoWay
  <2> QED
    BY <2>1, CreateDoes
<1>2. CASE s.ticketed
  <2> DEFINE status == IF s.retrying THEN "reconnecting" ELSE "connecting"
             u == StatusIs(s, status)
             t == OpenSocket(s)
             q == Request("ticket", IF u.suspended THEN "waiting" ELSE "sent")
  <2>1. t = [u EXCEPT !.requests = u.requests \cup {q}]
    <3>1. t = Issue(u, "ticket")
      BY <1>2 DEF Between, NoWay, OpenSocket
    <3> HIDE DEF u, t
    <3> QED
      BY <3>1 DEF Issue
  <2>2. status \in {"connecting", "connected", "reconnecting"}
    OBVIOUS
  <2> HIDE DEF status
  <2>3. /\ u \in LinkT /\ Ears(u, h) /\ SameWay(s, u) /\ Drops(u) /\ Wait(u) /\ Asking(u)
        /\ \A r \in u.requests : r \in s.requests \/ r.stage \in {"sent", "waiting"}
    BY <2>2, StatusDoes DEF Ready, Steady
  <2> HIDE DEF u, t
  <2>4. Between(u) /\ Look(u) /\ ~u.suspended
    BY <2>3, WaySame DEF Steady, Between, Ended
  <2>5. q \in RequestT /\ q.kind = "ticket" /\ ~q.stale /\ q.stage = "sent"
    BY <2>4 DEF Request, RequestT
  <2> HIDE DEF q
  <2>6. t \in LinkT /\ t.requests = u.requests \cup {q} /\ SameEars(u, t)
    <3> HIDE DEF FrameT, RequestT, EventT
    <3> QED
      BY <2>1, <2>3, <2>5 DEF LinkT, SameEars
  <2>7. /\ t.closed = u.closed /\ t.denied = u.denied /\ t.suspended = u.suspended
        /\ t.handle = u.handle /\ t.timers = u.timers /\ t.deliberate = u.deliberate
        /\ t.retryTimer = u.retryTimer /\ t.probe = u.probe /\ t.ws = u.ws /\ t.wire = u.wire
        /\ t.send = u.send
    BY <2>1, <2>3 DEF LinkT
  <2>8. Ears(t, h) /\ Drops(t)
    BY <2>3, <2>6, <2>7, EarsSame DEF Drops, SameEars
  <2>9. Looks(t) = Looks(u) /\ Probes(t) = Probes(u) /\ Tickets(t) = Tickets(u) \cup {q}
    BY <2>5, <2>6 DEF Looks, Probes, Tickets
  <2>10. Look(t) /\ Wait(t) /\ Asking(t)
    BY <2>3, <2>4, <2>5, <2>6, <2>7, <2>9 DEF Look, Wait, Asking, Ended, Over
  <2>11. Way(t)
    <3>1. Tickets(t) = {q}
      BY <2>4, <2>9 DEF Between, NoWay
    <3> QED
      BY <2>4, <2>7, <3>1 DEF Way, Between, NoWay, Ended, Over
  <2>12. Down(t)
    BY <2>3, <2>4, <2>7 DEF Down, Between, NoWay, SameWay
  <2>13. NoNews(s, t)
    BY <2>3, <2>5, <2>6 DEF NoNews
  <2> QED
    BY <2>6, <2>8, <2>10, <2>11, <2>12, <2>13 DEF Settled, Ready, Steady, t
<1> QED
  BY <1>1, <1>2 DEF Ready, LinkT

LEMMA ConnectDoes ==
  ASSUME NEW s, NEW h \in Nat, Ready(s, h), NoWay(s), ~Ended(s), "current" \notin s.timers,
         Steady(s), s.wire = <<>>
  PROVE  Settled(Connect(s), h) /\ NoNews(s, Connect(s))
<1> DEFINE u == [s EXCEPT !.deliberate = FALSE]
<1>1. Connect(s) = OpenSocket(u)
  BY DEF Connect
<1>2. u \in LinkT /\ SameEars(s, u) /\ ~u.deliberate
  <2> HIDE DEF FrameT, RequestT, EventT
  <2> QED
    BY DEF Ready, LinkT, SameEars
<1>3. /\ u.closed = s.closed /\ u.denied = s.denied /\ u.suspended = s.suspended
      /\ u.handle = s.handle /\ u.timers = s.timers /\ u.retryTimer = s.retryTimer
      /\ u.requests = s.requests /\ u.probe = s.probe /\ u.ws = s.ws /\ u.wire = s.wire
      /\ u.send = s.send
  BY DEF Ready, LinkT
<1> HIDE DEF u
<1>4. Ready(u, h)
  BY <1>2, <1>3, EarsSame DEF Ready, Drops, SameEars
<1>5. Between(u) /\ Steady(u)
  BY <1>2, <1>3 DEF Between, NoWay, Steady, Look, Wait, Asking, Tickets, Looks, Probes, Ended, Over
<1>6. Settled(OpenSocket(u), h) /\ NoNews(u, OpenSocket(u))
  BY <1>3, <1>4, <1>5, OpenDoes
<1> QED
  BY <1>1, <1>3, <1>6 DEF NoNews

\* What is emitted while a socket is being given up.
LEMMA TellDoes ==
  ASSUME NEW s \in LinkT, NEW h \in Nat, Ears(s, h), NEW kind \in {"disconnected", "denial"}
  PROVE  LET t == Emit(s, Event(kind, 0)) IN
         /\ t \in LinkT /\ Ears(t, h) /\ SameOutside(s, t)
         /\ kind = "disconnected" \/ ~s.connected => ~t.connected
<1> DEFINE e == Event(kind, 0)
           t == Emit(s, e)
<1>1. e \in EventT /\ e.kind = kind /\ e.rev <= h
  BY DEF Event, EventT
<1> HIDE DEF e
<1>2. /\ t \in LinkT /\ Ears(t, h) /\ SameOutside(s, t)
      /\ s.on => (t.connected <=> (s.connected /\ kind # "disconnected"))
      /\ ~s.on => Unheard(s, t, e)
  BY <1>1, EmitDoes
<1>3. ~s.on => ~t.connected
  BY <1>2 DEF Unheard, Ears
<1> HIDE DEF t
<1> QED
  BY <1>2, <1>3 DEF t, e

\* Suspended, unless the connection is over or is suspended as it is.
LEMMA SuspendDoes ==
  ASSUME NEW s \in LinkT, NEW h \in Nat, Ears(s, h), Drops(s), Look(s), Wait(s),
         Ended(s) => Way(s) /\ s.wire = <<>>
  PROVE  LET t == Suspend(s) IN
         /\ Ready(t, h) /\ Way(t) /\ Look(t) /\ Wait(t) /\ Down(t) /\ NoNews(s, t)
         /\ Probes(t) = Probes(s) /\ (t.probe = "asking" <=> s.probe = "asking")
         /\ t.suspended \/ Over(t)
         /\ t.closed = s.closed /\ t.denied = s.denied
<1> DEFINE t == Suspend(s)
<1>1. CASE Over(s) \/ s.suspended
  <2>1. t = s /\ Ended(s)
    BY <1>1 DEF Suspend, Ended
  <2>2. s.ws = "none"
    BY <2>1 DEF Way, NoWay
  <2> QED
    BY <1>1, <2>1, <2>2 DEF Ready, Down, NoNews
<1>2. CASE ~Over(s) /\ ~s.suspended
  <2> DEFINE P == IF s.probe = "sleeping" THEN "idle" ELSE s.probe
             a == [s EXCEPT !.suspended = TRUE, !.send = FALSE, !.retryTimer = TRUE, !.probe = P]
             b == Disconnect(a)
             c == Emit(b, Event("disconnected", 0))
  <2>1. t = Emit(c, Event("denial", 0))
    BY <1>2 DEF Suspend
  <2>2. /\ a \in LinkT /\ SameEars(s, a) /\ a.suspended /\ a.retryTimer /\ a.probe = P
        /\ a.closed = s.closed /\ a.denied = s.denied /\ a.requests = s.requests
    <3> HIDE DEF FrameT, RequestT, EventT
    <3>1. P \in {"idle", "asking", "sleeping"}
      BY DEF LinkT
    <3> HIDE DEF P
    <3> QED
      BY <3>1 DEF LinkT, SameEars
  <2> HIDE DEF a
  <2>3. /\ b \in LinkT
        /\ b.deliberate /\ NoWay(b) /\ "current" \notin b.timers /\ b.wire = <<>>
        /\ b.closed = a.closed /\ b.denied = a.denied /\ b.suspended = a.suspended
        /\ b.retryTimer = a.retryTimer /\ b.probe = a.probe
        /\ SameEars(a, b)
        /\ Looks(b) = Looks(a) /\ Probes(b) = Probes(a)
        /\ \A r \in b.requests : \E x \in a.requests : x.stage = r.stage
    BY <2>2, DisconnectDoes DEF SameEars
  <2> HIDE DEF b
  <2>4. Ears(b, h)
    <3>1. Ears(a, h)
      BY <2>2, EarsSame
    <3> QED
      BY <2>3, <3>1, EarsSame
  <2>5. c \in LinkT /\ Ears(c, h) /\ SameOutside(b, c) /\ ~c.connected
    BY <2>3, <2>4, TellDoes
  <2> HIDE DEF c, t
  <2>6. t \in LinkT /\ Ears(t, h) /\ SameOutside(c, t) /\ ~t.connected
    BY <2>1, <2>5, TellDoes
  <2>7. SameControl(b, t) /\ t.wire = <<>>
    BY <2>3, <2>5, <2>6 DEF SameOutside, SameControl
  <2>8. /\ Looks(b) = {} /\ Probes(b) = Probes(s) /\ ~Over(b) /\ b.suspended /\ b.retryTimer
        /\ b.probe = P
    BY <1>2, <2>2, <2>3 DEF Look, Ended, Over, Looks, Probes
  <2>9. Way(b) /\ Look(b)
    BY <2>3, <2>8 DEF Way, Look, Ended, NoWay
  <2>10. Wait(b)
    BY <2>8 DEF Wait
  <2>11. NoNews(s, b)
    BY <2>2, <2>3 DEF NoNews
  <2>12. Way(t) /\ Look(t) /\ Wait(t)
    BY <2>7, <2>9, <2>10, ControlSame
  <2>13. Down(t) /\ NoNews(s, t) /\ Probes(t) = Probes(s) /\ t.probe = P
    BY <2>3, <2>7, <2>8, <2>11 DEF SameControl, Down, NoNews, Probes, NoWay
  <2>14. t.suspended /\ t.closed = s.closed /\ t.denied = s.denied
    BY <2>2, <2>3, <2>7 DEF SameControl
  <2>15. Ready(t, h)
    BY <2>6 DEF Ready, Drops
  <2> QED
    BY <2>12, <2>13, <2>14, <2>15 DEF t
<1> QED
  BY <1>1, <1>2

\* Denied, if it was not.
LEMMA DenyDoes ==
  ASSUME NEW s \in LinkT, NEW h \in Nat, Ears(s, h), Drops(s),
         s.denied => Way(s) /\ Look(s) /\ Wait(s) /\ s.wire = <<>>
  PROVE  LET t == Deny(s) IN
         /\ Ready(t, h) /\ Way(t) /\ Look(t) /\ Wait(t) /\ Down(t) /\ NoNews(s, t)
         /\ Asking(s) => Asking(t)
         /\ Probes(t) \subseteq Probes(s)
         /\ Ended(t)
<1> DEFINE t == Deny(s)
<1>1. CASE s.denied
  <2>1. t = s /\ Ended(s)
    BY <1>1 DEF Deny, Ended, Over
  <2>2. s.ws = "none"
    BY <1>1, <2>1 DEF Way, NoWay
  <2> QED
    BY <1>1, <2>1, <2>2 DEF Ready, Down, NoNews
<1>2. CASE ~s.denied
  <2> DEFINE a == [s EXCEPT !.denied = TRUE, !.send = FALSE, !.probe = "idle",
                            !.requests = {}, !.suspended = FALSE, !.retryTimer = FALSE]
             b == Disconnect(a)
  <2>1. t = IF s.closed THEN b ELSE Emit(b, Event("denial", 0))
    BY <1>2 DEF Deny
  <2>2. /\ a \in LinkT /\ SameEars(s, a) /\ ~a.suspended /\ ~a.retryTimer /\ a.probe = "idle"
        /\ a.closed = s.closed /\ a.denied /\ a.requests = {}
    <3> HIDE DEF FrameT, RequestT, EventT
    <3> QED
      BY DEF LinkT, SameEars
  <2> HIDE DEF a
  <2>3. /\ b \in LinkT
        /\ b.deliberate /\ NoWay(b) /\ "current" \notin b.timers /\ b.wire = <<>>
        /\ b.closed = a.closed /\ b.denied = a.denied /\ b.suspended = a.suspended
        /\ b.retryTimer = a.retryTimer /\ b.probe = a.probe
        /\ SameEars(a, b)
        /\ \A r \in b.requests : \E x \in a.requests : x.stage = r.stage
    BY <2>2, DisconnectDoes DEF SameEars
  <2> HIDE DEF b
  <2>4. Ears(b, h)
    <3>1. Ears(a, h)
      BY <2>2, EarsSame
    <3> QED
      BY <2>3, <3>1, EarsSame
  <2> HIDE DEF t
  <2>5. t \in LinkT /\ Ears(t, h) /\ SameOutside(b, t)
    <3>1. b \in LinkT /\ SameOutside(b, b)
      BY <2>3 DEF SameOutside, SameControl
    <3> QED
      BY <2>1, <2>4, <3>1, TellDoes
  <2>6. SameControl(b, t) /\ t.wire = <<>> /\ b.requests = {}
    BY <2>2, <2>3, <2>5 DEF SameOutside
  <2>7. Way(b) /\ Look(b) /\ Wait(b) /\ Asking(b) /\ Ended(b)
    BY <2>2, <2>3, <2>6 DEF Way, Look, Wait, Asking, Ended, Over, NoWay, Looks, Probes
  <2>8. Way(t) /\ Look(t) /\ Wait(t) /\ Asking(t) /\ Ended(t)
    BY <2>6, <2>7, ControlSame
  <2>9. Down(t) /\ NoNews(s, t) /\ Probes(t) = {}
    BY <2>3, <2>6 DEF SameControl, Down, NoNews, Probes, NoWay
  <2>10. Ready(t, h)
    BY <2>2, <2>3, <2>5, <2>6 DEF Ready, Drops, SameControl
  <2> QED
    BY <2>8, <2>9, <2>10 DEF t
<1> QED
  BY <1>1, <1>2

\* Those who wait for the user go on when the user is back.
LEMMA ResumeDoes ==
  ASSUME NEW s, NEW h \in Nat, Ready(s, h), s.suspended, ~Over(s), Way(s), Wait(s), Asking(s),
         Looks(s) = {}, ~s.retryTimer, s.wire = <<>>
  PROVE  Settled(ResumeUserSession(s), h) /\ NoNews(s, ResumeUserSession(s))
<1> DEFINE g(r) == IF r.stage = "waiting" THEN [r EXCEPT !.stage = "sent"] ELSE r
           Q == {g(r) : r \in s.requests}
           u == [s EXCEPT !.suspended = FALSE, !.requests = Q]
<1>1. ResumeUserSession(s) = Connect(u)
  BY DEF ResumeUserSession
<1>2. \A r \in s.requests :
        /\ g(r) \in RequestT /\ g(r).kind = r.kind /\ g(r).stale = r.stale
        /\ g(r).stage # "waiting"
        /\ g(r).stage = "gone" => g(r) = r
  <2>1. s.requests \subseteq RequestT
    BY DEF Ready, LinkT
  <2> TAKE r \in s.requests
  <2>2. r \in RequestT
    BY <2>1
  <2> QED
    BY <2>2 DEF RequestT
<1> HIDE DEF g
<1>3. /\ Q \in SUBSET RequestT
      /\ {r \in Q : r.kind = "ticket" /\ ~r.stale} = {}
      /\ {r \in Q : r.kind = "retry"} = {}
      /\ \A r \in Q : r.stage # "waiting"
      /\ \A r \in Q : r.stage = "gone" => r \in s.requests
  <2>1. /\ \A r \in s.requests : ~(r.kind = "ticket" /\ ~r.stale)
        /\ \A r \in s.requests : r.kind # "retry"
    BY DEF Way, NoWay, Ended, Tickets, Looks
  <2> QED
    BY <1>2, <2>1
<1>4. /\ \A r, x \in Q : r.kind = "probe" /\ x.kind = "probe" => r = x
      /\ (\E r \in Q : r.kind = "probe") <=> (\E r \in s.requests : r.kind = "probe")
  <2>1. \A r, x \in s.requests : r.kind = "probe" /\ x.kind = "probe" => r = x
    BY DEF Wait, Probes
  <2> QED
    BY <1>2, <2>1
<1> HIDE DEF Q
<1>5. u \in LinkT /\ SameEars(s, u) /\ u.requests = Q /\ ~u.suspended
  <2> HIDE DEF FrameT, RequestT, EventT
  <2> QED
    BY <1>3 DEF Ready, LinkT, SameEars
<1>6. /\ u.closed = s.closed /\ u.denied = s.denied /\ u.ws = s.ws /\ u.wire = s.wire
      /\ u.handle = s.handle /\ u.timers = s.timers /\ u.deliberate = s.deliberate
      /\ u.retryTimer = s.retryTimer /\ u.probe = s.probe /\ u.send = s.send
  BY DEF Ready, LinkT
<1> HIDE DEF u
<1>7. Ready(u, h)
  BY <1>5, <1>6, EarsSame DEF Ready, Drops, SameEars
<1>8. NoWay(s) /\ ~Over(s) /\ "current" \notin s.timers
  BY DEF Way, NoWay, Ended
<1>9. NoWay(u) /\ ~Ended(u) /\ "current" \notin u.timers
  BY <1>3, <1>5, <1>6, <1>8 DEF NoWay, Tickets, Ended, Over
<1>10. Steady(u)
  BY <1>3, <1>4, <1>5, <1>6, <1>9 DEF Steady, Look, Wait, Asking, Looks, Probes
<1>11. NoNews(s, u)
  BY <1>3, <1>5 DEF NoNews
<1>12. Settled(Connect(u), h) /\ NoNews(u, Connect(u))
  BY <1>6, <1>7, <1>9, <1>10, ConnectDoes
<1> QED
  BY <1>1, <1>11, <1>12 DEF NoNews

-----------------------------------------------------------------------------
(* What waited for the listener *)

\* The function that HeardAll is a value of.
Hears(s, es, n, f) ==
  f = [i \in 0 .. n |-> IF i = 0 THEN s ELSE Heard(f[i - 1], es[i])]

LEMMA HearsExist ==
  ASSUME NEW s, NEW es, NEW N \in Nat
  PROVE  \E f : Hears(s, es, N, f)
<1> DEFINE T == {n \in Nat : ~ \E f : Hears(s, es, n, f)}
<1>1. CASE T = {}
  BY <1>1
<1>2. CASE T # {}
  <2>1. PICK m \in T : \A n \in T : m <= n
    <3> HIDE DEF T
    <3>1. T \subseteq Nat
      BY DEF T
    <3> QED
      BY <1>2, <3>1, Least
  <2>2. CASE m = 0
    <3>1. Hears(s, es, 0, [i \in 0 .. 0 |-> s])
      BY DEF Hears
    <3> QED
      BY <2>1, <2>2, <3>1
  <2>3. CASE m > 0
    <3>1. m - 1 \in Nat /\ m - 1 \notin T
      BY <2>1, <2>3
    <3>2. PICK f : Hears(s, es, m - 1, f)
      BY <3>1
    <3> DEFINE x == Heard(f[m - 1], es[m])
               g == [i \in 0 .. m |-> IF i = m THEN x ELSE f[i]]
    <3>3. \A i \in 0 .. m - 1 : f[i] = IF i = 0 THEN s ELSE Heard(f[i - 1], es[i])
      BY <3>2, Zenon DEF Hears
    <3>4. \A i \in 0 .. m : g[i] = IF i = 0 THEN s ELSE Heard(g[i - 1], es[i])
      BY <2>3, <3>3
    <3> HIDE DEF x
    <3>5. Hears(s, es, m, g)
      BY <3>4 DEF Hears
    <3> QED
      BY <2>1, <3>5
  <2> QED
    BY <2>1, <2>2, <2>3
<1> QED
  BY <1>1, <1>2

\* The listener was told that the session is over.
Finished(s, t) ==
  /\ t.sessionOver /\ ~t.connected /\ Way(t) /\ Steady(t) /\ Down(t) /\ NoNews(s, t)

\* It was told of the first n events, none of which says so.
Informed(s, es, n, t) ==
  /\ SameOutside(s, t) /\ t.buffered = s.buffered /\ t.crowded = s.crowded
  /\ \A i \in 1 .. n : es[i].kind \in {"connected", "op"} => es[i].rev <= t.known
  /\ \A i \in 1 .. n : es[i].kind = "connected" => t.connected

Listening(s, h, es, n, t) ==
  t \in LinkT /\ Ears(t, h) /\ (Finished(s, t) \/ Informed(s, es, n, t))

\* One more event is heard.
LEMMA ListeningOn ==
  ASSUME NEW s \in LinkT, NEW h \in Nat, Ears(s, h), s.on, Wait(s), Asking(s), NEW es,
         NEW n \in Nat, NEW t, Listening(s, h, es, n, t), \A i \in 1 .. n : es[i].rev \in Nat,
         es[n + 1] \in EventT, es[n + 1].rev <= h, es[n + 1].kind # "disconnected"
  PROVE  Listening(s, h, es, n + 1, Heard(t, es[n + 1]))
<1> DEFINE e == es[n + 1]
           u == Heard(t, e)
<1>1. t \in LinkT /\ Ears(t, h)
  BY DEF Listening
<1>2. CASE Finished(s, t)
  <2>1. u = t
    BY <1>2 DEF Heard, Finished
  <2> QED
    BY <1>1, <1>2, <2>1 DEF Listening
<1>3. CASE Informed(s, es, n, t)
  <2>1. t.on /\ ~t.sessionOver /\ ~t.closed
    BY <1>1, <1>3 DEF Informed, SameOutside, Ears
  <2>2. (Wait(s) <=> Wait(t)) /\ (Asking(s) <=> Asking(t)) /\ t.requests = s.requests
    BY <1>3, ControlSame DEF Informed, SameOutside, SameControl
  <2> HIDE DEF e, u
  <2>3. e \in EventT /\ e.rev <= h /\ e.kind # "disconnected" /\ e.rev \in Nat
    BY DEF e, EventT
  <2>4. CASE e.kind = "session-closed"
    <3>1. /\ u \in LinkT
          /\ u.deliberate /\ NoWay(u) /\ "current" \notin u.timers /\ u.wire = <<>>
          /\ u.closed /\ ~u.suspended /\ ~u.retryTimer /\ ~u.send
          /\ ~u.on /\ u.flushed /\ u.buffered = <<>> /\ u.known = t.known
          /\ u.sessionOver /\ ~u.connected /\ ~u.blind /\ u.denied = t.denied
          /\ Wait(t) => Wait(u)
          /\ Asking(t) => Asking(u)
          /\ NoNews(t, u) /\ Probes(u) \subseteq Probes(t)
      BY <1>1, <2>1, <2>4, HeardClosed DEF u
    <3>2. Shut(t, u)
      BY <3>1 DEF Shut
    <3>3. Ears(u, h)
      BY <1>1, <3>1, <3>2, ShutEars
    <3>4. Way(u) /\ Look(u)
      BY <2>2, <3>1, <3>2, ShutControl DEF Control
    <3>5. Finished(s, u)
      BY <2>2, <3>1, <3>4 DEF Finished, Steady, Down, NoWay, NoNews
    <3> QED
      BY <3>1, <3>3, <3>5 DEF Listening, u, e
  <2>5. CASE e.kind # "session-closed"
    <3>1. /\ u \in LinkT /\ SameOutside(t, u)
          /\ u.buffered = t.buffered /\ u.crowded = t.crowded
          /\ u.known = IF e.kind \in {"connected", "op"} /\ e.rev > t.known
                       THEN e.rev ELSE t.known
          /\ u.connected <=> (e.kind = "connected" \/ (t.connected /\ e.kind # "disconnected"))
      BY <1>1, <2>1, <2>3, <2>5, HeardQuiet DEF u
    <3>2. t.known \in Nat /\ u.known \in Nat
      BY <1>1, <3>1 DEF LinkT
    <3>3. Ears(u, h)
      <4>1. u.known <= h
        BY <1>1, <2>3, <3>1 DEF Ears
      <4> QED
        BY <1>1, <2>1, <3>1, <4>1 DEF Ears, SameOutside, SameControl
    <3>4. \A i \in 1 .. n + 1 : i \in 1 .. n \/ i = n + 1
      OBVIOUS
    <3>5. t.known <= u.known /\ (e.kind \in {"connected", "op"} => e.rev <= u.known)
      BY <2>3, <3>1, <3>2
    <3>6. \A i \in 1 .. n + 1 : es[i].kind \in {"connected", "op"} => es[i].rev <= u.known
      <4> SUFFICES ASSUME NEW i \in 1 .. n + 1, es[i].kind \in {"connected", "op"}
                   PROVE  es[i].rev <= u.known
        OBVIOUS
      <4>1. CASE i = n + 1
        BY <3>5, <4>1 DEF e
      <4>2. CASE i \in 1 .. n
        <5>1. es[i].rev <= t.known
          BY <1>3, <4>2 DEF Informed
        <5>2. es[i].rev <= u.known
          BY <3>2, <3>5, <4>2, <5>1
        <5> QED
          BY <5>2
      <4> QED
        BY <3>4, <4>1, <4>2
    <3>7. \A i \in 1 .. n + 1 : es[i].kind = "connected" => u.connected
      BY <1>3, <2>3, <3>1, <3>4 DEF Informed, e
    <3>8. SameOutside(s, u) /\ u.buffered = s.buffered /\ u.crowded = s.crowded
      BY <1>3, <3>1 DEF Informed, SameOutside, SameControl
    <3>9. Informed(s, es, n + 1, u)
      BY <3>6, <3>7, <3>8 DEF Informed
    <3> QED
      BY <3>1, <3>3, <3>9 DEF Listening, u, e
  <2> QED
    BY <2>4, <2>5
<1> QED
  BY <1>2, <1>3 DEF Listening

LEMMA HeardAllDoes ==
  ASSUME NEW s \in LinkT, NEW h \in Nat, Ears(s, h), s.on, Wait(s), Asking(s),
         NEW es \in Seq(EventT),
         \A i \in 1 .. Len(es) : es[i].rev <= h /\ es[i].kind # "disconnected"
  PROVE  Listening(s, h, es, Len(es), HeardAll(s, es))
<1>1. PICK f : Hears(s, es, Len(es), f) /\ HeardAll(s, es) = f[Len(es)]
  <2>1. Len(es) \in Nat
    OBVIOUS
  <2>2. \E f : Hears(s, es, Len(es), f)
    BY <2>1, HearsExist
  <2> QED
    BY <2>2 DEF HeardAll, Hears
<1> DEFINE N == Len(es)
           Good(n) == Listening(s, h, es, n, f[n])
           T == {n \in 0 .. N : ~Good(n)}
<1>2. N \in Nat
  OBVIOUS
<1>3. f[0] = s /\ \A i \in 1 .. N : f[i] = Heard(f[i - 1], es[i])
  <2>1. f = [i \in 0 .. N |-> IF i = 0 THEN s ELSE Heard(f[i - 1], es[i])]
    BY <1>1 DEF Hears
  <2>2. \A i \in 0 .. N : f[i] = IF i = 0 THEN s ELSE Heard(f[i - 1], es[i])
    BY <2>1, Zenon
  <2> HIDE DEF N
  <2>3. f[0] = s
    BY <1>2, <2>2
  <2>4. \A i \in 1 .. N : i \in 0 .. N /\ i # 0
    BY <1>2
  <2> QED
    BY <2>2, <2>3, <2>4
<1>4. Good(0)
  <2>1. SameOutside(s, s)
    BY DEF SameOutside, SameControl
  <2> QED
    BY <1>3, <2>1 DEF Listening, Informed
<1>5. ASSUME NEW n \in 1 .. N, Good(n - 1)
      PROVE  Good(n)
  <2>1. es[n] \in EventT /\ es[n].rev <= h /\ es[n].kind # "disconnected"
    <3> HIDE DEF EventT
    <3> QED
      OBVIOUS
  <2>2. n - 1 \in Nat /\ (n - 1) + 1 = n
    BY <1>2
  <2> DEFINE m == n - 1
  <2>5. \A i \in 1 .. m : es[i].rev \in Nat
    <3>1. \A i \in 1 .. N : es[i] \in EventT
      <4> HIDE DEF EventT
      <4> QED
        OBVIOUS
    <3>2. \A i \in 1 .. m : i \in 1 .. N
      <4> HIDE DEF N
      <4> QED
        BY <1>2
    <3> HIDE DEF N, m
    <3> QED
      BY <3>1, <3>2 DEF EventT
  <2> HIDE DEF N, m
  <2>3. es[m + 1] = es[n] /\ f[n] = Heard(f[m], es[m + 1]) /\ m \in Nat
    BY <1>3, <2>2 DEF m
  <2>4. Listening(s, h, es, m + 1, Heard(f[m], es[m + 1]))
    BY <1>5, <2>1, <2>3, <2>5, ListeningOn DEF m
  <2> QED
    BY <2>2, <2>3, <2>4 DEF m
<1> HIDE DEF Good
<1>6. T = {}
  <2> SUFFICES ASSUME T # {}
               PROVE  FALSE
    OBVIOUS
  <2>1. T \subseteq Nat
    BY <1>2
  <2> HIDE DEF T
  <2>2. PICK m \in T : \A n \in T : m <= n
    BY <2>1, Least
  <2>3. m \in 0 .. N /\ ~Good(m)
    BY <2>2 DEF T
  <2>4. m # 0
    BY <1>4, <2>3
  <2> HIDE DEF N
  <2>5. m \in 1 .. N /\ m - 1 \in 0 .. N /\ ~(m <= m - 1)
    BY <1>2, <2>3, <2>4
  <2>6. Good(m - 1)
    BY <2>2, <2>5 DEF T
  <2> QED
    BY <1>5, <2>3, <2>5, <2>6
<1>7. Good(N)
  <2> HIDE DEF N
  <2>1. N \in 0 .. N
    BY <1>2
  <2> QED
    BY <1>6, <2>1 DEF T
<1> QED
  BY <1>1, <1>7 DEF Good

-----------------------------------------------------------------------------
(* The invariant *)

ServerT == [head : 0 .. MaxHead, there : BOOLEAN, user : BOOLEAN, granted : BOOLEAN]
Farewells == {"close", "close-login", "close-revoked"}

\* A socket's frames: it is open before it says anything, and says nothing
\* after a farewell.
Frames(w, send, h) ==
  \A i \in 1 .. Len(w) :
    /\ w[i].rev <= h
    /\ w[i].kind = "open" => i = 1
    /\ w[i].kind = "session" => send \/ w[1].kind = "open"
    /\ w[i].kind \in Farewells => i = Len(w)

\* What is on its way ends with the head.
Live(w, h) ==
  /\ \A i \in 1 .. Len(w) : w[i].kind \in {"open", "session", "op"}
  /\ w # <<>> => w[Len(w)].kind \in {"session", "op"} /\ w[Len(w)].rev = h

Wire(s, v) ==
  /\ s.ws \in {"none", "asked"} => s.wire = <<>>
  /\ Frames(s.wire, s.send, v.head)
  /\ s.ws = "up" => v.there /\ Live(s.wire, v.head)
  /\ \A r \in s.requests : r.stage = "gone" => ~v.there

\* The listener has the head, or will find it in the buffer.
HeadTold(s, h) ==
  \/ s.crowded
  \/ s.on /\ s.known = h
  \/ ~s.on /\ \E i \in 1 .. Len(s.buffered) :
                s.buffered[i].kind \in {"connected", "op"} /\ s.buffered[i].rev = h

\* The listener knows of the connection, or will find so in the buffer.
OpenTold(s) ==
  \/ s.crowded
  \/ s.on /\ s.connected
  \/ ~s.on /\ \E i \in 1 .. Len(s.buffered) : s.buffered[i].kind = "connected"

Told(s, h) == s.ws = "up" =>
  /\ s.wire = <<>> => HeadTold(s, h)
  /\ OpenTold(s) \/ \E i \in 1 .. Len(s.wire) : s.wire[i].kind = "session"

Sound(s, v) ==
  Ready(s, v.head) /\ Way(s) /\ Steady(s) /\ Wire(s, v) /\ Told(s, v.head)

StreamInv ==
  server \in ServerT /\ trouble \in 0 .. MaxTrouble /\ Sound(link, server)

-----------------------------------------------------------------------------

\* Without a socket the wire has nothing to say.
LEMMA DownSound ==
  ASSUME NEW s, NEW t, NEW v, v.head \in Nat, Wire(s, v), Ready(t, v.head), Way(t), Steady(t),
         Down(t), NoNews(s, t)
  PROVE  Sound(t, v)
<1>1. t.wire = <<>> /\ t.ws # "up" /\ Len(t.wire) = 0 /\ 1 .. 0 = {}
  BY DEF Down
<1>2. Frames(t.wire, t.send, v.head)
  BY <1>1 DEF Frames
<1>3. Wire(t, v)
  BY <1>1, <1>2 DEF Wire, NoNews
<1>4. Told(t, v.head)
  BY <1>1 DEF Told
<1> QED
  BY <1>3, <1>4 DEF Sound

\* Nothing is lost by a revision that is not heard of.
LEMMA EarsGrow ==
  ASSUME NEW s \in LinkT, NEW h \in Nat, NEW k \in Nat, h <= k, Ears(s, h)
  PROVE  Ears(s, k)
<1>1. s.known \in Nat /\ s.buffered \in Seq(EventT)
  <2> HIDE DEF FrameT, RequestT, EventT
  <2> QED
    BY DEF LinkT
<1>4. \A i \in 1 .. Len(s.buffered) : s.buffered[i].rev \in Nat
  <2>1. \A i \in 1 .. Len(s.buffered) : s.buffered[i] \in EventT
    <3> HIDE DEF EventT
    <3> QED
      BY <1>1
  <2> QED
    BY <2>1 DEF EventT
<1>2. s.known <= k
  BY <1>1 DEF Ears
<1>3. \A i \in 1 .. Len(s.buffered) : s.buffered[i].rev <= k
  BY <1>4 DEF Ears
<1> QED
  BY <1>2, <1>3 DEF Ears

\* Only the socket changes, between two of its stages.
Turned(s, t, w, x) ==
  (t = [s EXCEPT !.wire = w, !.ws = x]) \/ (t = [s EXCEPT !.ws = x, !.wire = w])

LEMMA SocketTurns ==
  ASSUME NEW s, NEW h \in Nat, Ready(s, h), Way(s), Steady(s), s.ws # "none",
         NEW w \in Seq(FrameT), NEW x \in {"asked", "up", "down"}, NEW t, Turned(s, t, w, x)
  PROVE  /\ Ready(t, h) /\ Way(t) /\ Steady(t) /\ SameEars(s, t)
         /\ t.wire = w /\ t.ws = x /\ t.send = s.send /\ t.requests = s.requests
<1> HIDE DEF FrameT, RequestT, EventT
<1>0. s \in LinkT
  BY DEF Ready
<1>1. t \in LinkT /\ t.wire = w /\ t.ws = x
  <2>1. CASE t = [s EXCEPT !.wire = w, !.ws = x]
    BY <1>0, <2>1 DEF LinkT
  <2>2. CASE t = [s EXCEPT !.ws = x, !.wire = w]
    BY <1>0, <2>2 DEF LinkT
  <2> QED
    BY <2>1, <2>2 DEF Turned
<1>2. /\ t.closed = s.closed /\ t.denied = s.denied /\ t.suspended = s.suspended
      /\ t.handle = s.handle /\ t.timers = s.timers /\ t.deliberate = s.deliberate
      /\ t.retryTimer = s.retryTimer /\ t.requests = s.requests /\ t.probe = s.probe
      /\ t.send = s.send
  BY <1>0 DEF LinkT, Turned
<1>3. SameEars(s, t)
  BY <1>0 DEF LinkT, SameEars, Turned
<1>4. Ready(t, h)
  BY <1>1, <1>2, <1>3, EarsSame DEF Ready, Drops, SameEars
<1>5. Way(t)
  BY <1>1, <1>2 DEF Way, NoWay, Tickets, Ended, Over
<1>6. Steady(t)
  BY <1>2 DEF Steady, Look, Wait, Asking, Looks, Probes, Ended, Over
<1> QED
  BY <1>1, <1>2, <1>3, <1>4, <1>5, <1>6

LEMMA ToldSame ==
  ASSUME NEW s, NEW t, SameEars(s, t)
  PROVE  OpenTold(s) <=> OpenTold(t)
BY DEF SameEars, OpenTold

\* What may be sent to an open socket.
Sendable(x, k) ==
  \A i \in 1 .. Len(x) :
    /\ x[i].rev <= k /\ x[i].kind \notin {"open", "session"}
    /\ x[i].kind \in Farewells => i = Len(x)

Joined(w, x, y) ==
  /\ \A i \in 1 .. Len(w) : i \in 1 .. Len(y) /\ y[i] = w[i]
  /\ \A i \in 1 .. Len(y) :
       (\E n \in 1 .. Len(w) : y[i] = w[n]) \/ \E n \in 1 .. Len(x) : y[i] = x[n]
  /\ y # <<>> /\ y[Len(y)] = x[Len(x)]

\* More is sent to a socket that had no farewell.
LEMMA FramesJoin ==
  ASSUME NEW w \in Seq(FrameT), NEW send, NEW h \in Nat, Frames(w, send, h),
         NEW x \in Seq(FrameT), x # <<>>, NEW k \in Nat, h <= k,
         \A i \in 1 .. Len(w) : w[i].kind \notin Farewells, Sendable(x, k)
  PROVE  LET y == w \o x IN
         y \in Seq(FrameT) /\ Frames(y, send, k) /\ Joined(w, x, y)
<1> DEFINE y == w \o x
<1> HIDE DEF FrameT
<1>0. \A i \in 1 .. Len(w) : w[i] \in FrameT /\ w[i].rev \in Nat
  <2>1. \A i \in 1 .. Len(w) : w[i] \in FrameT
    OBVIOUS
  <2> QED
    BY <2>1 DEF FrameT
<1>1. /\ y \in Seq(FrameT) /\ Len(y) = Len(w) + Len(x) /\ Len(w) \in Nat /\ Len(x) \in Nat
      /\ Len(x) >= 1
  OBVIOUS
<1>2. \A i \in 1 .. Len(y) : y[i] = IF i <= Len(w) THEN w[i] ELSE x[i - Len(w)]
  BY <1>1
<1> HIDE DEF y
<1>3. \A i \in 1 .. Len(y) : i > Len(w) => i - Len(w) \in 1 .. Len(x)
  BY <1>1
<1>4. \A i \in 1 .. Len(y) : i <= Len(w) => i \in 1 .. Len(w)
  BY <1>1
<1>5. \A i \in 1 .. Len(w) : i \in 1 .. Len(y) /\ y[i] = w[i]
  BY <1>1, <1>2
<1>6. Frames(y, send, k)
  <2> SUFFICES ASSUME NEW i \in 1 .. Len(y)
               PROVE  /\ y[i].rev <= k
                      /\ y[i].kind = "open" => i = 1
                      /\ y[i].kind = "session" => send \/ y[1].kind = "open"
                      /\ y[i].kind \in Farewells => i = Len(y)
    BY DEF Frames
  <2>1. CASE i <= Len(w)
    <3>1. i \in 1 .. Len(w) /\ y[i] = w[i] /\ 1 \in 1 .. Len(w) /\ y[1] = w[1]
      BY <1>1, <1>4, <1>5, <2>1
    <3>2. w[i].rev <= k
      <4>1. w[i].rev <= h /\ w[i].rev \in Nat
        BY <1>0, <3>1 DEF Frames
      <4> QED
        BY <4>1
    <3> QED
      BY <3>1, <3>2 DEF Frames
  <2>2. CASE i > Len(w)
    <3>1. i - Len(w) \in 1 .. Len(x) /\ y[i] = x[i - Len(w)]
      BY <1>1, <1>2, <1>3, <2>2
    <3>2. \A a, b, c, d \in Nat : c = a + b /\ d - a = b => d = c
      OBVIOUS
    <3>3. i \in Nat /\ Len(y) \in Nat
      BY <1>1
    <3>4. i - Len(w) = Len(x) => i = Len(y)
      BY <1>1, <3>2, <3>3
    <3>5. x[i - Len(w)].kind \notin {"open", "session"} /\ x[i - Len(w)].rev <= k
      BY <3>1 DEF Sendable
    <3>6. x[i - Len(w)].kind \in Farewells => i - Len(w) = Len(x)
      BY <3>1 DEF Sendable
    <3> QED
      BY <3>1, <3>4, <3>5, <3>6
  <2>3. i <= Len(w) \/ i > Len(w)
    BY <1>1
  <2> QED
    BY <2>1, <2>2, <2>3
<1>7. \A i \in 1 .. Len(y) :
        (\E n \in 1 .. Len(w) : y[i] = w[n]) \/ \E n \in 1 .. Len(x) : y[i] = x[n]
  BY <1>1, <1>2, <1>3, <1>4
<1>8. y[Len(y)] = x[Len(x)] /\ y # <<>>
  <2>1. Len(y) \in 1 .. Len(y) /\ ~(Len(y) <= Len(w)) /\ Len(y) - Len(w) = Len(x)
    BY <1>1
  <2>2. y[Len(y)] = x[Len(y) - Len(w)]
    BY <1>2, <2>1
  <2>3. y[Len(y)] = x[Len(x)]
    BY <2>1, <2>2
  <2>4. y # <<>>
    BY <1>1
  <2> QED
    BY <2>3, <2>4
<1>9. Joined(w, x, y)
  BY <1>5, <1>7, <1>8 DEF Joined
<1> QED
  BY <1>1, <1>6, <1>9 DEF y

\* The first frame has been read.
LEMMA FramesTail ==
  ASSUME NEW w \in Seq(FrameT), w # <<>>, NEW send, NEW h, Frames(w, send, h), NEW heard,
         send \/ w[1].kind = "open" => heard
  PROVE  /\ Tail(w) \in Seq(FrameT) /\ Len(Tail(w)) = Len(w) - 1
         /\ \A i \in 1 .. Len(Tail(w)) : i + 1 \in 1 .. Len(w) /\ Tail(w)[i] = w[i + 1]
         /\ Frames(Tail(w), heard, h)
         /\ Head(w) = w[1] /\ Head(w) \in FrameT /\ 1 \in 1 .. Len(w)
         /\ Head(w).kind \in Farewells => Tail(w) = <<>>
<1> DEFINE y == Tail(w)
<1> HIDE DEF FrameT
<1>1. /\ y \in Seq(FrameT) /\ Len(y) = Len(w) - 1 /\ Len(w) \in Nat /\ Len(w) >= 1
      /\ Head(w) = w[1] /\ w[1] \in FrameT
  OBVIOUS
<1>2. \A i \in 1 .. Len(y) : i + 1 \in 1 .. Len(w) /\ y[i] = w[i + 1]
  OBVIOUS
<1>3. 1 \in 1 .. Len(w)
  BY <1>1
<1>7. w[1].kind \in Farewells => 1 = Len(w)
  BY <1>3 DEF Frames
<1> HIDE DEF y
<1>4. w[1].kind \in Farewells => Len(y) = 0
  BY <1>1, <1>7
<1>5. Frames(y, heard, h)
  <2> SUFFICES ASSUME NEW i \in 1 .. Len(y)
               PROVE  /\ y[i].rev <= h
                      /\ y[i].kind = "open" => i = 1
                      /\ y[i].kind = "session" => heard \/ y[1].kind = "open"
                      /\ y[i].kind \in Farewells => i = Len(y)
    BY DEF Frames
  <2>1. i + 1 # 1 /\ (i + 1 = Len(w) => i = Len(y))
    BY <1>1
  <2> QED
    BY <1>2, <1>3, <2>1 DEF Frames
<1>6. Len(y) = 0 => y = <<>>
  BY <1>1
<1> QED
  BY <1>1, <1>2, <1>3, <1>4, <1>5, <1>6 DEF y

-----------------------------------------------------------------------------
(* The backend keeps the invariant *)

\* What Sound gives at once.
LEMMA SoundParts ==
  ASSUME StreamInv
  PROVE  /\ server \in ServerT /\ server.head \in Nat /\ trouble \in Nat
         /\ link \in LinkT /\ Ready(link, server.head) /\ Way(link) /\ Steady(link)
         /\ Wire(link, server) /\ Told(link, server.head) /\ Ears(link, server.head) /\ Drops(link)
         /\ Look(link) /\ Wait(link) /\ Asking(link) /\ link.wire \in Seq(FrameT)
<1>1. server.head \in 0 .. MaxHead /\ MaxHead \in Nat /\ MaxTrouble \in Nat
  BY CollabStreamAssumption DEF StreamInv, ServerT
<1>2. link \in LinkT
  BY DEF StreamInv, Sound, Ready
<1>3. link.wire \in Seq(FrameT)
  <2> HIDE DEF FrameT, RequestT, EventT
  <2> QED
    BY <1>2 DEF LinkT
<1> QED
  BY <1>1, <1>2, <1>3 DEF StreamInv, Sound, Ready, Steady

\* A farewell is sent, or the socket breaks.
LEMMA Broken ==
  ASSUME StreamInv, NEW v \in ServerT, v.head = server.head, server.there \/ ~v.there,
         link.ws # "none", NEW w \in Seq(FrameT), Frames(w, link.send, v.head), NEW t,
         Turned(link, t, w, "down")
  PROVE  Sound(t, v)
<1>1. /\ Ready(t, v.head) /\ Way(t) /\ Steady(t)
      /\ t.wire = w /\ t.ws = "down" /\ t.send = link.send /\ t.requests = link.requests
  <2>1. /\ server.head \in Nat /\ Ready(link, server.head) /\ Way(link) /\ Steady(link)
        /\ "down" \in {"asked", "up", "down"}
    BY SoundParts
  <2>2. /\ Ready(t, server.head) /\ Way(t) /\ Steady(t)
        /\ t.wire = w /\ t.ws = "down" /\ t.send = link.send /\ t.requests = link.requests
    BY <2>1, SocketTurns
  <2> QED
    BY <2>2
<1>2. Wire(t, v)
  BY <1>1, SoundParts DEF Wire
<1>3. Told(t, v.head)
  BY <1>1 DEF Told
<1> QED
  BY <1>1, <1>2, <1>3 DEF Sound

\* Another backend, of the same head, with no fewer absences.
LEMMA ServerTurns ==
  ASSUME StreamInv, NEW v \in ServerT, v.head = server.head,
         v.there = server.there \/ (~v.there /\ link.ws # "up")
  PROVE  Sound(link, v)
BY SoundParts DEF Sound, Wire

LEMMA FrameOK ==
  ASSUME NEW kind \in FrameKinds, NEW rev \in Nat
  PROVE  Frame(kind, rev) \in FrameT /\ Frame(kind, rev).kind = kind /\ Frame(kind, rev).rev = rev
BY DEF Frame, FrameT

\* To a socket that is open a farewell is sent.
LEMMA SendsFarewell ==
  ASSUME StreamInv, NEW v \in ServerT, v.head = server.head, server.there \/ ~v.there,
         NEW x \in Seq(FrameT), x # <<>>, Sendable(x, v.head), Sends(x, "down")
  PROVE  Sound(link', v)
<1>1. CASE link.ws = "up"
  <2> DEFINE w == link.wire \o x
  <2>1. link' = [link EXCEPT !.wire = w, !.ws = "down"]
    BY <1>1 DEF Sends
  <2>2. \A i \in 1 .. Len(link.wire) : link.wire[i].kind \notin Farewells
    BY <1>1, SoundParts DEF Wire, Live, Farewells
  <2>3. Frames(link.wire, link.send, server.head)
    BY SoundParts DEF Wire
  <2>4. w \in Seq(FrameT) /\ Frames(w, link.send, v.head)
    <3>1. v.head \in Nat /\ server.head <= v.head
      BY SoundParts
    <3> QED
      BY <2>2, <2>3, <3>1, SoundParts, FramesJoin
  <2> HIDE DEF w
  <2> QED
    BY <1>1, <2>1, <2>4, Broken DEF Turned
<1>2. CASE link.ws # "up"
  <2>1. link' = link
    BY <1>2 DEF Sends
  <2>2. v.there = server.there \/ ~v.there
    BY DEF ServerT, StreamInv
  <2> QED
    BY <1>2, <2>1, <2>2, ServerTurns
<1> QED
  BY <1>1, <1>2

LEMMA OneFrame ==
  ASSUME NEW kind \in Farewells \cup {"session_closed"}
  PROVE  /\ <<Frame(kind, 0)>> \in Seq(FrameT) /\ <<Frame(kind, 0)>> # <<>>
         /\ \A h \in Nat : Sendable(<<Frame(kind, 0)>>, h)
<1> DEFINE f == Frame(kind, 0)
<1>1. f \in FrameT /\ f.kind = kind /\ f.rev = 0
  BY FrameOK DEF FrameKinds, Farewells
<1> HIDE DEF f
<1>2. kind \notin {"open", "session"}
  BY DEF Farewells
<1>3. <<f>> \in Seq(FrameT) /\ <<f>> # <<>> /\ Len(<<f>>) = 1 /\ <<f>>[1] = f
  BY <1>1
<1>4. \A i \in 1 .. 1 : i = 1
  OBVIOUS
<1>5. \A h \in Nat : Sendable(<<f>>, h)
  BY <1>1, <1>2, <1>3, <1>4 DEF Sendable
<1> QED
  BY <1>3, <1>5 DEF f

LEMMA BackendStep ==
  ASSUME StreamInv, Backend
  PROVE  StreamInv'
<1>0. /\ server \in ServerT /\ server.head \in 0 .. MaxHead /\ MaxHead \in Nat
      /\ trouble \in 0 .. MaxTrouble /\ MaxTrouble \in Nat
  BY CollabStreamAssumption DEF StreamInv, ServerT
<1>1. ASSUME NEW what, Happens(what)
      PROVE  trouble' \in 0 .. MaxTrouble
  BY <1>0, <1>1 DEF Happens
<1>2. CASE Commit
  <2> DEFINE h == server.head
             f == Frame("op", h + 1)
  <2>1. server' \in ServerT /\ server'.head = h + 1 /\ server'.there = server.there /\ server.there
    <3>1. /\ server.there /\ server.head < MaxHead
          /\ server' = [server EXCEPT !.head = server.head + 1]
      BY <1>2 DEF Commit
    <3>2. server.head + 1 \in 0 .. MaxHead
      BY <1>0, <3>1
    <3> QED
      BY <1>0, <3>1, <3>2 DEF ServerT
  <2>2. trouble' = trouble /\ Sends(<<f>>, "up")
    BY <1>2 DEF Commit
  <2>3. h \in Nat /\ h + 1 \in Nat /\ h <= h + 1
    BY <1>0
  <2>4. f \in FrameT /\ f.kind = "op" /\ f.rev = h + 1
    BY <2>3, FrameOK DEF FrameKinds
  <2> HIDE DEF f
  <2>5. Ears(link, h + 1) /\ Ready(link, h + 1)
    BY <2>3, SoundParts, EarsGrow DEF h, Ready
  <2>6. CASE link.ws = "up"
    <3> DEFINE w == link.wire \o <<f>>
    <3>1. link' = [link EXCEPT !.wire = w, !.ws = "up"]
      BY <2>2, <2>6 DEF Sends
    <3>2. /\ <<f>> \in Seq(FrameT) /\ <<f>> # <<>> /\ Len(<<f>>) = 1 /\ <<f>>[1] = f
          /\ \A i \in 1 .. 1 : i = 1
      BY <2>4
    <3>3. Sendable(<<f>>, h + 1)
      BY <2>3, <2>4, <3>2 DEF Sendable, Farewells
    <3>4. Live(link.wire, h) /\ Frames(link.wire, link.send, h)
      BY <2>6, SoundParts DEF Wire
    <3>5. \A i \in 1 .. Len(link.wire) : link.wire[i].kind \notin Farewells
      BY <3>4 DEF Live, Farewells
    <3> HIDE DEF h
    <3>6. w \in Seq(FrameT) /\ Frames(w, link.send, h + 1) /\ Joined(link.wire, <<f>>, w)
      <4>1. link.wire \in Seq(FrameT)
        BY SoundParts
      <4> QED
        BY <2>3, <3>2, <3>3, <3>4, <3>5, <4>1, FramesJoin
    <3> HIDE DEF w
    <3>7. w[Len(w)] = f
      BY <3>2, <3>6 DEF Joined
    <3>8. Live(w, h + 1)
      <4>1. \A i \in 1 .. Len(w) :
              w[i] = f \/ \E n \in 1 .. Len(link.wire) : w[i] = link.wire[n]
        BY <3>2, <3>6 DEF Joined
      <4> QED
        BY <2>4, <3>4, <3>7, <4>1 DEF Live
    <3>9. /\ Ready(link', h + 1) /\ Way(link') /\ Steady(link') /\ SameEars(link, link')
          /\ link'.wire = w /\ link'.ws = "up" /\ link'.send = link.send
          /\ link'.requests = link.requests
      <4> DEFINE k == h + 1  x == "up"
      <4>1. /\ k \in Nat /\ Ready(link, k) /\ Way(link) /\ Steady(link) /\ link.ws # "none"
            /\ x \in {"asked", "up", "down"} /\ w \in Seq(FrameT)
            /\ Turned(link, link', w, x)
        BY <2>3, <2>5, <2>6, <3>1, <3>6, SoundParts DEF Turned
      <4> HIDE DEF k, x
      <4>2. /\ Ready(link', k) /\ Way(link') /\ Steady(link') /\ SameEars(link, link')
            /\ link'.wire = w /\ link'.ws = x /\ link'.send = link.send
            /\ link'.requests = link.requests
        BY <4>1, SocketTurns
      <4> QED
        BY <4>2 DEF k, x
    <3>10. Wire(link', server')
      BY <2>1, <3>6, <3>8, <3>9, SoundParts DEF Wire
    <3>11. Told(link', h + 1)
      <4>1. OpenTold(link) \/ \E i \in 1 .. Len(link.wire) : link.wire[i].kind = "session"
        BY <2>6, SoundParts DEF Told
      <4>2. OpenTold(link') \/ \E i \in 1 .. Len(w) : w[i].kind = "session"
        BY <3>6, <3>9, <4>1, ToldSame DEF Joined
      <4> QED
        BY <3>6, <3>9, <4>2 DEF Told, Joined
    <3> QED
      BY <1>0, <2>1, <2>2, <3>9, <3>10, <3>11 DEF StreamInv, Sound
  <2>7. CASE link.ws # "up"
    <3>1. link' = link
      BY <2>2, <2>7 DEF Sends
    <3>2. Frames(link.wire, link.send, h + 1)
      <4>1. Frames(link.wire, link.send, h)
        BY SoundParts DEF Wire
      <4>2. \A i \in 1 .. Len(link.wire) : link.wire[i].rev \in Nat
        <5>1. \A i \in 1 .. Len(link.wire) : link.wire[i] \in FrameT
          <6> HIDE DEF FrameT
          <6> QED
            BY SoundParts
        <5> QED
          BY <5>1 DEF FrameT
      <4>3. \A i \in 1 .. Len(link.wire) : link.wire[i].rev <= h + 1
        <5> TAKE i \in 1 .. Len(link.wire)
        <5>1. link.wire[i].rev <= h /\ link.wire[i].rev \in Nat
          BY <4>1, <4>2 DEF Frames
        <5> HIDE DEF h
        <5> QED
          BY <2>3, <5>1
      <4> HIDE DEF h
      <4> QED
        BY <4>1, <4>3 DEF Frames
    <3>3. Wire(link, server')
      BY <2>1, <2>7, <3>2, SoundParts DEF Wire
    <3>4. Told(link, h + 1)
      BY <2>7 DEF Told
    <3> HIDE DEF h
    <3> QED
      BY <1>0, <2>1, <2>2, <2>5, <3>1, <3>3, <3>4, SoundParts DEF StreamInv, Sound
  <2> QED
    BY <2>6, <2>7
<1>3. CASE Drop
  <2>1. /\ link.ws # "none" /\ server' = server
        /\ link' = [link EXCEPT !.ws = "down", !.wire = <<Frame("close", 0)>>]
    BY <1>3 DEF Drop
  <2>2. /\ <<Frame("close", 0)>> \in Seq(FrameT)
        /\ Frames(<<Frame("close", 0)>>, link.send, server.head)
    <3>1. "close" \in Farewells \cup {"session_closed"}
      BY DEF Farewells
    <3> DEFINE x == <<Frame("close", 0)>>
    <3>2. x \in Seq(FrameT) /\ Sendable(x, server.head)
      BY <3>1, OneFrame, SoundParts
    <3> HIDE DEF x
    <3>3. Frames(x, link.send, server.head)
      BY <3>2 DEF Frames, Sendable
    <3> QED
      BY <3>2, <3>3 DEF x
  <2>3. Sound(link', server)
    BY <1>0, <2>1, <2>2, Broken DEF Turned
  <2>4. trouble' \in 0 .. MaxTrouble
    BY <1>1, <1>3 DEF Drop
  <2> QED
    BY <1>0, <2>1, <2>3, <2>4 DEF StreamInv
<1>4. CASE Delete
  <2>1. /\ server' \in ServerT /\ server'.head = server.head /\ ~server'.there
    BY <1>0, <1>4 DEF Delete, ServerT
  <2>2. PICK told \in {<<>>, <<Frame("session_closed", 0)>>} : Sends(told \o <<Frame("close", 0)>>, "down")
    BY <1>4 DEF Delete
  <2> DEFINE c == Frame("close", 0)  d == Frame("session_closed", 0)
             x == told \o <<c>>
  <2>3. /\ c \in FrameT /\ c.kind = "close" /\ c.rev = 0
        /\ d \in FrameT /\ d.kind = "session_closed" /\ d.rev = 0
    BY FrameOK DEF FrameKinds
  <2> HIDE DEF c, d
  <2>4. told \in Seq(FrameT) /\ Len(told) \in Nat /\ \A i \in 1 .. Len(told) : told[i] = d
    <3>1. CASE told = <<>>
      BY <3>1
    <3>2. CASE told = <<d>>
      BY <2>3, <3>2
    <3> QED
      BY <2>2, <3>1, <3>2 DEF d
  <2>5. /\ x \in Seq(FrameT) /\ x # <<>> /\ Len(x) = Len(told) + 1
        /\ \A i \in 1 .. Len(told) : x[i] = told[i]
        /\ x[Len(x)] = c
    BY <2>3, <2>4
  <2> HIDE DEF x
  <2>6. server.head \in Nat /\ "close" \in Farewells /\ "session_closed" \notin Farewells
    BY SoundParts DEF Farewells
  <2>7. Sendable(x, server'.head)
    <3> SUFFICES ASSUME NEW i \in 1 .. Len(x)
                 PROVE  /\ x[i].rev <= server'.head /\ x[i].kind \notin {"open", "session"}
                        /\ x[i].kind \in Farewells => i = Len(x)
      BY DEF Sendable
    <3>1. i = Len(x) \/ i \in 1 .. Len(told)
      BY <2>4, <2>5
    <3>2. (x[i] = c /\ i = Len(x)) \/ x[i] = d
      BY <2>4, <2>5, <3>1
    <3> QED
      BY <2>1, <2>3, <2>6, <3>2
  <2>8. Sends(x, "down")
    BY <2>2 DEF x, c
  <2>9. Sound(link', server')
    BY <2>1, <2>5, <2>7, <2>8, SendsFarewell
  <2>10. trouble' = trouble
    BY <1>4 DEF Delete
  <2> QED
    BY <1>0, <2>1, <2>9, <2>10 DEF StreamInv
<1>5. CASE LogOut
  <2>1. /\ server' \in ServerT /\ server'.head = server.head /\ server'.there = server.there
        /\ Sends(<<Frame("close-login", 0)>>, "down")
    BY <1>0, <1>5 DEF LogOut, ServerT
  <2>2. "close-login" \in Farewells \cup {"session_closed"}
    BY DEF Farewells
  <2>3. server.there \/ ~server'.there
    BY <1>0, <2>1 DEF ServerT
  <2>4. Sound(link', server')
    BY <2>1, <2>2, <2>3, OneFrame, SoundParts, SendsFarewell
  <2>5. trouble' \in 0 .. MaxTrouble
    BY <1>1, <1>5 DEF LogOut
  <2> QED
    BY <2>1, <2>4, <2>5 DEF StreamInv
<1>6. CASE LogIn
  <2>1. /\ server' \in ServerT /\ server'.head = server.head /\ server'.there = server.there
        /\ link' = link /\ trouble' = trouble
    BY <1>0, <1>6 DEF LogIn, ServerT
  <2>2. Sound(link, server')
    BY <2>1, ServerTurns
  <2> QED
    BY <1>0, <2>1, <2>2 DEF StreamInv
<1>7. CASE Revoke
  <2>1. /\ server' \in ServerT /\ server'.head = server.head /\ server'.there = server.there
        /\ Sends(<<Frame("close-revoked", 0)>>, "down")
    BY <1>0, <1>7 DEF Revoke, ServerT
  <2>2. "close-revoked" \in Farewells \cup {"session_closed"}
    BY DEF Farewells
  <2>3. server.there \/ ~server'.there
    BY <1>0, <2>1 DEF ServerT
  <2>4. Sound(link', server')
    BY <2>1, <2>2, <2>3, OneFrame, SoundParts, SendsFarewell
  <2>5. trouble' \in 0 .. MaxTrouble
    BY <1>1, <1>7 DEF Revoke
  <2> QED
    BY <2>1, <2>4, <2>5 DEF StreamInv
<1> QED
  BY <1>2, <1>3, <1>4, <1>5, <1>6, <1>7 DEF Backend

-----------------------------------------------------------------------------
(* The socket's callbacks keep it *)

LEMMA SoundSame ==
  ASSUME NEW s, NEW t, NEW v, Sound(s, v), Ready(t, v.head), Way(t), Steady(t), SameEars(s, t),
         t.ws = s.ws, t.wire = s.wire, s.send => t.send,
         \A r \in t.requests : r.stage = "gone" => ~v.there
  PROVE  Sound(t, v)
<1>1. Frames(t.wire, t.send, v.head)
  BY DEF Sound, Wire, Frames
<1>2. Wire(t, v)
  BY <1>1 DEF Sound, Wire
<1>3. Told(t, v.head)
  BY ToldSame DEF Sound, Told, HeadTold, SameEars
<1> QED
  BY <1>2, <1>3 DEF Sound

LEMMA ClientInv ==
  ASSUME StreamInv, NEW t, Client(t), Sound(t, server)
  PROVE  StreamInv'
BY DEF StreamInv, Client

\* A frame is read.
LEMMA RestDoes ==
  ASSUME StreamInv, link.wire # <<>>
  PROVE  /\ Rest \in LinkT /\ Ready(Rest, server.head) /\ Way(Rest) /\ Steady(Rest)
         /\ SameEars(link, Rest)
         /\ link.ws \in {"up", "down"} /\ ~Ended(link) /\ ~Ended(Rest)
         /\ Rest.wire = Tail(link.wire) /\ Rest.ws = link.ws /\ Rest.send = link.send
         /\ Rest.requests = link.requests /\ NoNews(link, Rest)
         /\ Tickets(Rest) = {} /\ ~Rest.handle /\ ~Rest.deliberate /\ "current" \notin Rest.timers
         /\ ~Rest.closed
<1>1. Tail(link.wire) \in Seq(FrameT)
  BY SoundParts, FramesTail DEF Wire
<1> DEFINE s == Rest
<1>2. s = [link EXCEPT !.wire = Tail(link.wire)]
  BY DEF Rest
<1> HIDE DEF s, FrameT, RequestT, EventT
<1>3. s \in LinkT /\ s.wire = Tail(link.wire) /\ SameEars(link, s) /\ SameControl(link, s) /\ s.send = link.send
  BY <1>1, <1>2, SoundParts DEF LinkT, SameEars, SameControl
<1>4. /\ Way(s) /\ Look(s) /\ Wait(s) /\ Asking(s) /\ (Ended(s) <=> Ended(link))
  BY <1>3, SoundParts, ControlSame
<1>5. Ready(s, server.head)
  BY <1>3, SoundParts, EarsSame DEF Ready, Drops, SameEars, SameControl
<1>6. link.ws \notin {"none", "asked"} /\ link.ws \in {"none", "asked", "up", "down"}
  BY SoundParts DEF Wire, LinkT
<1>7. ~Ended(link) /\ ~link.closed /\ Tickets(link) = {} /\ ~link.handle
  BY <1>6, SoundParts DEF Way, NoWay, Ended, Over
<1>8. Tickets(s) = {} /\ ~s.handle /\ ~s.deliberate /\ "current" \notin s.timers /\ ~s.closed
  BY <1>3, <1>4, <1>7 DEF SameControl, Tickets, Way
<1>9. NoNews(link, s)
  BY <1>3 DEF NoNews, SameControl
<1> QED
  BY <1>3, <1>4, <1>5, <1>6, <1>7, <1>8, <1>9 DEF s, Steady, SameControl

\* What was on its way still ends with the head.
LEMMA LiveTail ==
  ASSUME NEW w \in Seq(FrameT), w # <<>>, NEW h, Live(w, h)
  PROVE  /\ Live(Tail(w), h) /\ w[1].kind \in {"open", "session", "op"}
         /\ Tail(w) = <<>> => w[1].kind \in {"session", "op"} /\ w[1].rev = h
<1> DEFINE y == Tail(w)
<1> HIDE DEF FrameT
<1>1. /\ y \in Seq(FrameT) /\ Len(y) = Len(w) - 1 /\ Len(w) \in Nat /\ Len(w) >= 1
      /\ \A i \in 1 .. Len(y) : i + 1 \in 1 .. Len(w) /\ y[i] = w[i + 1]
  OBVIOUS
<1> HIDE DEF y
<1>2. y = <<>> => Len(w) = 1
  BY <1>1
<1>3. y # <<>> => Len(y) \in 1 .. Len(y) /\ Len(y) + 1 = Len(w)
  BY <1>1
<1>4. y # <<>> => y[Len(y)] = w[Len(w)]
  BY <1>1, <1>3
<1>5. 1 \in 1 .. Len(w)
  BY <1>1
<1>6. Live(y, h)
  BY <1>1, <1>4 DEF Live
<1> QED
  BY <1>2, <1>5, <1>6 DEF Live, y

LEMMA OpenedStep ==
  ASSUME StreamInv, Opened
  PROVE  StreamInv'
<1> DEFINE w == link.wire
           u == [Rest EXCEPT !.send = TRUE, !.retrying = FALSE]
           t == StatusIs(u, "connected")
           h == server.head
<1>1. w # <<>> /\ Head(w).kind = "open" /\ Client(t)
  BY DEF Opened, Reads
<1>2. /\ w \in Seq(FrameT) /\ Frames(w, link.send, h) /\ h \in Nat
  BY SoundParts DEF Wire
<1>3. /\ Frames(Tail(w), TRUE, h) /\ w[1].kind = "open" /\ Len(Tail(w)) = Len(w) - 1
      /\ \A i \in 1 .. Len(Tail(w)) : i + 1 \in 1 .. Len(w) /\ Tail(w)[i] = w[i + 1]
  BY <1>1, <1>2, FramesTail
<1>4. /\ u \in LinkT /\ SameEars(Rest, u) /\ SameControl(Rest, u) /\ u.wire = Rest.wire
      /\ u.send = TRUE
  <2> HIDE DEF FrameT, RequestT, EventT
  <2> DEFINE s == Rest
  <2>1. s \in LinkT
    BY <1>1, RestDoes
  <2> HIDE DEF s
  <2> DEFINE x == [s EXCEPT !.send = TRUE, !.retrying = FALSE]
  <2>2. /\ x \in LinkT /\ SameEars(s, x) /\ SameControl(s, x) /\ x.wire = s.wire /\ x.send = TRUE
    BY <2>1 DEF LinkT, SameEars, SameControl
  <2> QED
    BY <2>2 DEF s
<1> HIDE DEF u, h
<1>5. Ready(u, h) /\ Way(u) /\ Steady(u)
  <2>1. Ears(u, h)
    BY <1>1, <1>4, RestDoes, EarsSame DEF Ready, SameControl, h
  <2>2. Way(u) /\ Steady(u)
    BY <1>1, <1>4, RestDoes, ControlSame DEF Steady
  <2> QED
    BY <1>4, <2>1, <2>2 DEF Ready, Drops
<1>6. /\ t \in LinkT /\ Ears(t, h) /\ SameWay(u, t) /\ Drops(t) /\ Wait(t) /\ Asking(t)
      /\ \A r \in t.requests : r \in u.requests \/ r.stage \in {"sent", "waiting"}
      /\ SameEars(u, t) /\ t.send = u.send
  BY <1>2, <1>5, StatusDoes DEF Ready, Steady
<1> HIDE DEF t
<1>7. Ready(t, h) /\ Way(t) /\ Steady(t)
  BY <1>5, <1>6, WaySame DEF Ready, Steady
<1>8. /\ t.wire = Tail(w) /\ t.ws = link.ws /\ t.send = TRUE /\ SameEars(link, t)
  BY <1>1, <1>4, <1>6, RestDoes DEF SameWay, SameControl, SameEars
<1>9. \A r \in t.requests : r.stage = "gone" => ~server.there
  BY <1>1, <1>4, <1>6, RestDoes, SoundParts DEF SameControl, Wire
<1>10. link.ws = "up" => Live(w, h)
  BY SoundParts DEF Wire, h
<1>11. link.ws = "up" => Live(Tail(w), h) /\ Tail(w) # <<>>
  BY <1>1, <1>2, <1>3, <1>10, LiveTail
<1>12. Wire(t, server)
  BY <1>1, <1>3, <1>8, <1>9, <1>11, RestDoes, SoundParts DEF Wire, h
<1>13. Told(t, h)
  <2> SUFFICES ASSUME link.ws = "up"
               PROVE  OpenTold(t) \/ \E i \in 1 .. Len(Tail(w)) : Tail(w)[i].kind = "session"
    BY <1>8, <1>11 DEF Told
  <2>1. OpenTold(link) \/ \E i \in 1 .. Len(w) : w[i].kind = "session"
    BY SoundParts DEF Told
  <2>2. CASE OpenTold(link)
    BY <1>8, <2>2, ToldSame
  <2>3. CASE \E i \in 1 .. Len(w) : w[i].kind = "session"
    <3>1. PICK i \in 1 .. Len(w) : w[i].kind = "session"
      BY <2>3
    <3>2. i # 1
      BY <1>3, <3>1
    <3>3. i - 1 \in 1 .. Len(Tail(w)) /\ (i - 1) + 1 = i
      <4>1. Len(w) \in Nat
        BY <1>2
      <4> QED
        BY <1>3, <3>2, <4>1
    <3>4. Tail(w)[i - 1].kind = "session"
      BY <1>3, <3>1, <3>3
    <3> QED
      BY <3>3, <3>4
  <2> QED
    BY <2>1, <2>2, <2>3
<1> QED
  BY <1>1, <1>7, <1>12, <1>13, ClientInv DEF Sound, h

LEMMA ReceivedStep ==
  ASSUME StreamInv, Received
  PROVE  StreamInv'
<1> DEFINE w == link.wire
           m == Head(w)
           h == server.head
           kind == CASE m.kind = "session" -> "connected" [] m.kind = "op" -> "op"
                     [] OTHER -> "session-closed"
           e == Event(kind, m.rev)
           s == Rest
           t == Emit(s, e)
<1>1. w # <<>> /\ m.kind \in {"session", "op", "session_closed"} /\ Client(t)
  <2>1. link.wire # <<>>
    BY DEF Received, Reads
  <2>2. ~Over(link)
    BY <2>1, RestDoes DEF Ended
  <2> QED
    BY <2>1, <2>2 DEF Received, Reads
<1>2. w \in Seq(FrameT) /\ Frames(w, link.send, h) /\ h \in Nat
  BY SoundParts DEF Wire
<1>3. /\ m = w[1] /\ m \in FrameT /\ 1 \in 1 .. Len(w) /\ Len(Tail(w)) = Len(w) - 1
      /\ Tail(w) \in Seq(FrameT)
      /\ \A i \in 1 .. Len(Tail(w)) : i + 1 \in 1 .. Len(w) /\ Tail(w)[i] = w[i + 1]
      /\ Frames(Tail(w), link.send, h)
  <2>1. w[1].kind # "open"
    BY <1>1, <1>2
  <2> QED
    BY <1>1, <1>2, <2>1, FramesTail
<1>4. /\ e \in EventT /\ e.rev = m.rev /\ e.rev <= h /\ e.kind = kind
      /\ m.kind = "session" <=> kind = "connected"
      /\ m.kind = "op" <=> kind = "op"
      /\ kind \in {"connected", "op", "session-closed"}
      /\ kind = "connected" => link.send
  <2>1. m.rev \in Nat /\ m.rev <= h
    BY <1>2, <1>3 DEF FrameT, Frames
  <2>2. /\ m.kind = "session" <=> kind = "connected"
        /\ m.kind = "op" <=> kind = "op"
        /\ kind \in {"connected", "op", "session-closed"}
    BY <1>1
  <2> HIDE DEF kind
  <2>3. e \in EventT /\ e.rev = m.rev /\ e.kind = kind
    BY <2>1, <2>2 DEF Event, EventT
  <2>4. kind = "connected" => link.send
    BY <1>1, <1>2, <1>3, <2>2 DEF Frames
  <2> QED
    BY <2>1, <2>2, <2>3, <2>4
<1>5. /\ s \in LinkT /\ Ready(s, h) /\ Way(s) /\ Steady(s) /\ SameEars(link, s)
      /\ s.wire = Tail(w) /\ s.ws = link.ws /\ s.send = link.send /\ s.requests = link.requests
      /\ NoNews(link, s) /\ ~s.closed
  BY <1>1, RestDoes
<1> HIDE DEF e, s
<1>6. /\ t \in LinkT /\ Ears(t, h)
      /\ s.on /\ e.kind = "session-closed" => Shut(s, t) /\ ~t.connected
      /\ ~(s.on /\ e.kind = "session-closed") => SameOutside(s, t)
      /\ s.on /\ e.kind # "session-closed" =>
           /\ t.buffered = s.buffered /\ t.crowded = s.crowded
           /\ t.known = IF e.kind \in {"connected", "op"} /\ e.rev > s.known THEN e.rev ELSE s.known
           /\ t.connected <=> (e.kind = "connected" \/ (s.connected /\ e.kind # "disconnected"))
           /\ t.blind <=> (s.blind /\ e.kind \notin {"connected", "disconnected"})
      /\ ~s.on => Unheard(s, t, e)
  BY <1>2, <1>4, <1>5, EmitDoes DEF Ready
<1> HIDE DEF t, kind
<1>7. CASE s.on /\ e.kind = "session-closed"
  <2>1. Shut(s, t) /\ ~t.connected
    BY <1>6, <1>7
  <2>2. Way(t) /\ Steady(t)
    BY <1>5, <1>6, <2>1, ShutControl DEF Steady, Control, Shut
  <2>3. Down(t) /\ NoNews(link, t)
    BY <1>5, <2>1 DEF Shut, Down, NoWay, NoNews
  <2>4. Ready(t, h)
    BY <1>6, <2>1 DEF Ready, Drops
  <2>5. Sound(t, server)
    BY <1>2, <2>2, <2>3, <2>4, SoundParts, DownSound DEF h
  <2> QED
    BY <1>1, <2>5, ClientInv
<1>8. CASE ~(s.on /\ e.kind = "session-closed")
  <2>1. SameOutside(s, t)
    BY <1>6, <1>8
  <2>2. Way(t) /\ Steady(t)
    BY <1>5, <2>1, ControlSame DEF Steady, SameOutside
  <2>3. Drops(t)
    <3>1. CASE s.on
      BY <1>4, <1>5, <1>6, <1>8, <2>1, <3>1 DEF Drops, Ready, SameOutside, SameControl
    <3>2. CASE ~s.on
      BY <1>6, <2>1, <3>2 DEF Drops, Ears, SameOutside
    <3> QED
      BY <3>1, <3>2
  <2>4. t.wire = Tail(w) /\ t.ws = link.ws /\ t.send = link.send /\ t.requests = link.requests
    BY <1>5, <2>1 DEF SameOutside, SameControl
  <2>5. link.ws = "up" => Live(w, h)
    BY SoundParts DEF Wire, h
  <2>6. Wire(t, server)
    <3>1. link.ws = "up" => Live(Tail(w), h)
      BY <1>1, <1>2, <2>5, LiveTail
    <3> QED
      BY <1>1, <1>3, <2>4, <3>1, RestDoes, SoundParts DEF Wire, h
  <2>7. Told(t, h)
    <3> SUFFICES ASSUME link.ws = "up"
                 PROVE  /\ Tail(w) = <<>> => HeadTold(t, h)
                        /\ OpenTold(t) \/ \E i \in 1 .. Len(Tail(w)) : Tail(w)[i].kind = "session"
      BY <2>4 DEF Told
    <3>1. /\ m.kind \in {"session", "op"}
          /\ Tail(w) = <<>> => m.rev = h
      BY <1>1, <1>2, <1>3, <2>5, LiveTail
    <3>2. kind \in {"connected", "op"} /\ e.kind = kind
      BY <1>4, <3>1
    <3>3. ~s.on => /\ ~t.on
                   /\ s.crowded => t.crowded
                   /\ ~t.crowded =>
                        /\ \E x \in 1 .. Len(t.buffered) : t.buffered[x] = e
                        /\ \A i \in 1 .. Len(s.buffered) : s.buffered[i].kind # "op" =>
                             \E x \in 1 .. Len(t.buffered) : t.buffered[x] = s.buffered[i]
      <4>1. ~s.on => ~s.flushed
        BY <1>5 DEF Ready, Ears
      <4> QED
        BY <1>6, <2>1, <3>2, <4>1 DEF Unheard, Buffers, SameOutside
    <3>4. Tail(w) = <<>> => HeadTold(t, h)
      <4> SUFFICES ASSUME e.rev = h
                   PROVE  HeadTold(t, h)
        BY <1>4, <3>1
      <4>1. CASE s.on
        <5>1. s.known \in Nat /\ s.known <= h
          BY <1>5 DEF LinkT, Ready, Ears
        <5>2. t.known = h /\ t.on
          BY <1>2, <1>6, <2>1, <3>2, <4>1, <5>1 DEF SameOutside
        <5> QED
          BY <5>2 DEF HeadTold
      <4>2. CASE ~s.on
        BY <3>2, <3>3, <4>2 DEF HeadTold
      <4> QED
        BY <4>1, <4>2
    <3>5. e.kind = "connected" => OpenTold(t)
      <4>1. CASE s.on
        BY <1>6, <2>1, <4>1 DEF OpenTold, SameOutside
      <4>2. CASE ~s.on
        BY <3>3, <4>2 DEF OpenTold
      <4> QED
        BY <4>1, <4>2
    <3>6. OpenTold(s) => OpenTold(t)
      <4>1. CASE s.on
        BY <1>6, <2>1, <3>2, <4>1 DEF OpenTold, SameOutside
      <4>2. CASE ~s.on
        BY <3>3, <4>2 DEF OpenTold
      <4> QED
        BY <4>1, <4>2
    <3>7. OpenTold(s) \/ \E i \in 1 .. Len(w) : w[i].kind = "session"
      BY <1>5, SoundParts, ToldSame DEF Told
    <3>8. ASSUME NEW i \in 1 .. Len(w), w[i].kind = "session", i # 1
          PROVE  \E n \in 1 .. Len(Tail(w)) : Tail(w)[n].kind = "session"
      <4>1. Len(w) \in Nat
        BY <1>2
      <4>2. i - 1 \in 1 .. Len(Tail(w)) /\ (i - 1) + 1 = i
        BY <1>3, <3>8, <4>1
      <4>3. Tail(w)[i - 1].kind = "session"
        BY <1>3, <3>8, <4>2
      <4> QED
        BY <4>2, <4>3
    <3> QED
      BY <1>3, <1>4, <3>4, <3>5, <3>6, <3>7, <3>8
  <2> QED
    BY <1>1, <1>6, <2>2, <2>3, <2>6, <2>7, ClientInv DEF Sound, Ready, h
<1> QED
  BY <1>7, <1>8

\* A step of the client after which no socket is open.
LEMMA DownInv ==
  ASSUME StreamInv, NEW t, Client(t), Ready(t, server.head), Way(t), Steady(t), Down(t),
         NoNews(link, t)
  PROVE  StreamInv'
<1>1. Sound(t, server)
  BY SoundParts, DownSound
<1> QED
  BY <1>1, ClientInv

\* Fewer or as many news.
LEMMA NewsOf ==
  ASSUME NEW s, NEW t, NEW u, NoNews(s, t), NoNews(t, u)
  PROVE  NoNews(s, u)
BY DEF NoNews

LEMMA ClosedStep ==
  ASSUME StreamInv, Closed
  PROVE  StreamInv'
<1> DEFINE w == link.wire
           h == server.head
           s == [Rest EXCEPT !.ws = "none"]
           t == CASE Head(w).kind = "close-login" -> Suspend(s)
                  [] Head(w).kind = "close-revoked" -> Deny(s)
                  [] OTHER -> s
<1>1. /\ w # <<>> /\ Head(w).kind \in Farewells
      /\ Client(IF t.deliberate THEN t ELSE ScheduleReconnect(t))
  BY DEF Closed, Reads, Farewells
<1>2. Tail(w) = <<>> /\ h \in Nat
  BY <1>1, SoundParts, FramesTail DEF Wire
<1>3. /\ s \in LinkT /\ SameEars(Rest, s) /\ s.ws = "none" /\ s.wire = Rest.wire /\ s.send = Rest.send
      /\ s.closed = Rest.closed /\ s.denied = Rest.denied /\ s.suspended = Rest.suspended
      /\ s.handle = Rest.handle /\ s.deliberate = Rest.deliberate /\ s.timers = Rest.timers
      /\ s.retryTimer = Rest.retryTimer /\ s.requests = Rest.requests /\ s.probe = Rest.probe
  <2> DEFINE r == Rest
  <2>1. r \in LinkT
    BY <1>1, RestDoes
  <2> HIDE DEF r, FrameT, RequestT, EventT
  <2> DEFINE x == [r EXCEPT !.ws = "none"]
  <2>2. /\ x \in LinkT /\ SameEars(r, x) /\ x.ws = "none" /\ x.wire = r.wire /\ x.send = r.send
        /\ x.closed = r.closed /\ x.denied = r.denied /\ x.suspended = r.suspended
        /\ x.handle = r.handle /\ x.deliberate = r.deliberate /\ x.timers = r.timers
        /\ x.retryTimer = r.retryTimer /\ x.requests = r.requests /\ x.probe = r.probe
    BY <2>1 DEF LinkT, SameEars
  <2> QED
    BY <2>2 DEF r
<1> HIDE DEF s
<1>4. Ready(s, h)
  BY <1>1, <1>3, RestDoes, EarsSame DEF Ready, Drops, SameEars
<1>5. Between(s) /\ Steady(s) /\ s.wire = <<>> /\ ~Ended(s)
  BY <1>1, <1>2, <1>3, RestDoes
  DEF Between, NoWay, Steady, Look, Wait, Asking, Tickets, Looks, Probes, Ended, Over
<1>6. NoNews(link, s)
  BY <1>1, <1>3, RestDoes DEF NoNews
<1>7. CASE Head(w).kind = "close-login"
  <2>1. t = Suspend(s)
    BY <1>7
  <2> HIDE DEF t
  <2>2. /\ Ready(t, h) /\ Way(t) /\ Look(t) /\ Wait(t) /\ Down(t) /\ NoNews(s, t)
        /\ Probes(t) = Probes(s) /\ (t.probe = "asking" <=> s.probe = "asking")
        /\ t.suspended \/ Over(t)
    BY <1>2, <1>4, <1>5, <2>1, SuspendDoes DEF Ready, Steady
  <2>3. t.deliberate /\ Steady(t)
    BY <1>5, <2>2 DEF Way, Ended, Steady, Asking
  <2> QED
    BY <1>1, <1>6, <2>2, <2>3, NewsOf, DownInv DEF h
<1>8. CASE Head(w).kind = "close-revoked"
  <2>1. t = Deny(s)
    BY <1>8
  <2> HIDE DEF t
  <2>2. /\ Ready(t, h) /\ Way(t) /\ Look(t) /\ Wait(t) /\ Down(t) /\ NoNews(s, t)
        /\ Asking(s) => Asking(t)
        /\ Ended(t)
    BY <1>2, <1>4, <1>5, <2>1, DenyDoes DEF Ready, Steady, Ended, Over
  <2>3. t.deliberate /\ Steady(t)
    BY <1>5, <2>2 DEF Way, Steady
  <2> QED
    BY <1>1, <1>6, <2>2, <2>3, NewsOf, DownInv DEF h
<1>9. CASE Head(w).kind \notin {"close-login", "close-revoked"}
  <2>1. t = s
    BY <1>9
  <2> HIDE DEF t
  <2>2. Settled(ScheduleReconnect(s), h) /\ NoNews(s, ScheduleReconnect(s))
    BY <1>2, <1>4, <1>5, ScheduleDoes
  <2>3. Client(ScheduleReconnect(s))
    BY <1>1, <1>5, <2>1 DEF Between
  <2> QED
    BY <1>6, <2>2, <2>3, NewsOf, DownInv DEF Settled, h
<1> QED
  BY <1>7, <1>8, <1>9

LEMMA TimerStep ==
  ASSUME StreamInv, NEW age \in link.timers, ReconnectTimer(age)
  PROVE  StreamInv'
<1> DEFINE h == server.head
           s == [link EXCEPT !.timers = link.timers \ {age}]
           u == [s EXCEPT !.handle = FALSE]
<1>1. Client(IF age = "stale" \/ s.deliberate THEN s ELSE OpenSocket(u))
  BY DEF ReconnectTimer
<1>2. age \in {"current", "stale"}
  BY SoundParts DEF LinkT
<1>3. /\ s \in LinkT /\ SameEars(link, s) /\ s.timers = link.timers \ {age}
      /\ s.ws = link.ws /\ s.wire = link.wire /\ s.send = link.send
      /\ s.closed = link.closed /\ s.denied = link.denied /\ s.suspended = link.suspended
      /\ s.handle = link.handle /\ s.deliberate = link.deliberate
      /\ s.retryTimer = link.retryTimer /\ s.requests = link.requests /\ s.probe = link.probe
  <2> HIDE DEF FrameT, RequestT, EventT
  <2>1. link \in LinkT /\ link.timers \ {age} \in SUBSET {"current", "stale"}
    BY SoundParts DEF LinkT
  <2> QED
    BY <2>1 DEF LinkT, SameEars
<1> HIDE DEF s
<1>4. /\ u \in LinkT /\ SameEars(s, u) /\ u.timers = s.timers /\ ~u.handle
      /\ u.ws = s.ws /\ u.wire = s.wire /\ u.send = s.send
      /\ u.closed = s.closed /\ u.denied = s.denied /\ u.suspended = s.suspended
      /\ u.deliberate = s.deliberate
      /\ u.retryTimer = s.retryTimer /\ u.requests = s.requests /\ u.probe = s.probe
  <2> HIDE DEF FrameT, RequestT, EventT
  <2> QED
    BY <1>3 DEF LinkT, SameEars
<1> HIDE DEF u
<1>5. Ready(s, h) /\ Steady(s)
  BY <1>3, SoundParts, EarsSame
  DEF Ready, Drops, SameEars, Steady, Look, Wait, Asking, Looks, Probes, Ended, Over
<1>6. CASE age = "stale" \/ s.deliberate
  <2>1. age = "stale"
    BY <1>2, <1>3, <1>6, SoundParts DEF Way, NoWay
  <2>2. Way(s)
    BY <1>3, <2>1, SoundParts DEF Way, NoWay, Tickets, Ended, Over
  <2>3. Sound(s, server)
    BY <1>3, <1>5, <2>2, SoundParts, SoundSame DEF StreamInv, Wire, h
  <2> QED
    BY <1>1, <1>6, <2>3, ClientInv
<1>7. CASE ~(age = "stale" \/ s.deliberate)
  <2>1. age = "current" /\ link.handle /\ ~link.deliberate
    BY <1>2, <1>3, <1>7, SoundParts DEF Way
  <2>2. Tickets(link) = {} /\ link.ws = "none" /\ ~Ended(link) /\ link.wire = <<>>
    BY <2>1, SoundParts DEF Way, NoWay, Wire
  <2>3. Between(u) /\ u.wire = <<>>
    BY <1>3, <1>4, <2>1, <2>2 DEF Between, NoWay, Tickets, Ended, Over
  <2>4. Ready(u, h) /\ Steady(u)
    BY <1>4, <1>5, EarsSame
    DEF Ready, Drops, SameEars, Steady, Look, Wait, Asking, Looks, Probes, Ended, Over
  <2>5. h \in Nat
    BY SoundParts
  <2>6. Settled(OpenSocket(u), h) /\ NoNews(u, OpenSocket(u))
    BY <2>3, <2>4, <2>5, OpenDoes
  <2>7. NoNews(link, OpenSocket(u))
    BY <1>3, <1>4, <2>6 DEF NoNews
  <2> QED
    BY <1>1, <1>7, <2>6, <2>7, DownInv DEF Settled, h
<1> QED
  BY <1>6, <1>7

-----------------------------------------------------------------------------
(* The requests keep it *)

\* Only requests, the probe and the timer of the look for the user differ.
SameBody(s, t) ==
  /\ SameEars(s, t) /\ t.ws = s.ws /\ t.wire = s.wire /\ t.send = s.send
  /\ t.closed = s.closed /\ t.denied = s.denied /\ t.suspended = s.suspended
  /\ t.handle = s.handle /\ t.deliberate = s.deliberate /\ t.timers = s.timers

LEMMA BodyReady ==
  ASSUME NEW s, NEW t \in LinkT, NEW h, Ready(s, h), SameBody(s, t)
  PROVE  Ready(t, h)
BY EarsSame DEF Ready, SameBody, Drops, SameEars

LEMMA BodyInv ==
  ASSUME StreamInv, NEW t \in LinkT, SameBody(link, t), Way(t), Steady(t),
         \A r \in t.requests : r.stage = "gone" => ~server.there
  PROVE  Sound(t, server)
<1>1. Ready(t, server.head)
  BY SoundParts, BodyReady
<1> QED
  BY <1>1, SoundSame DEF StreamInv, SameBody

\* One of the requests is another.
LEMMA Swapped ==
  ASSUME NEW A, NEW r, NEW q, NEW B, B = IF r \in A THEN (A \ {r}) \cup {q} ELSE A
  PROVE  /\ A = {} <=> B = {}
         /\ (\E x : A = {x}) => \E x : B = {x}
         /\ (\A x, y \in A : x = y) => \A x, y \in B : x = y
<1>1. A = {} <=> B = {}
  OBVIOUS
<1>2. ASSUME NEW x, A = {x} PROVE \E z : B = {z}
  <2>1. CASE r \in A
    BY <1>2, <2>1
  <2>2. CASE r \notin A
    BY <1>2, <2>2
  <2> QED
    BY <2>1, <2>2
<1>3. ASSUME \A x, y \in A : x = y PROVE \A x, y \in B : x = y
  BY <1>3
<1> QED
  BY <1>1, <1>2, <1>3

LEMMA AnswerStep ==
  ASSUME StreamInv, NEW r \in link.requests, r.stage = "sent",
         NEW answer \in {"ok", "gone", "failed", "denied", "login"},
         answer = "gone" => ~server.there, Answers(r, answer)
  PROVE  Sound(link', server)
<1> DEFINE q == [r EXCEPT !.stage = answer]
           Q == (link.requests \ {r}) \cup {q}
           t == [link EXCEPT !.requests = Q]
<1>1. link' = t
  BY DEF Answers
<1>2. r \in RequestT /\ link.requests \subseteq RequestT
  BY SoundParts DEF LinkT
<1>3. q \in RequestT /\ q.kind = r.kind /\ q.stale = r.stale /\ q.stage = answer
  BY <1>2 DEF RequestT
<1> HIDE DEF q
<1>4. Q \in SUBSET RequestT
  BY <1>2, <1>3
<1>5. t \in LinkT /\ SameBody(link, t) /\ t.requests = Q /\ t.probe = link.probe
      /\ t.retryTimer = link.retryTimer
  <2> HIDE DEF FrameT, RequestT, EventT, Q
  <2> QED
    BY <1>4, SoundParts DEF LinkT, SameBody, SameEars
<1> HIDE DEF t
<1>6. /\ Tickets(t) = IF r \in Tickets(link) THEN (Tickets(link) \ {r}) \cup {q} ELSE Tickets(link)
      /\ Looks(t) = IF r \in Looks(link) THEN (Looks(link) \ {r}) \cup {q} ELSE Looks(link)
      /\ Probes(t) = IF r \in Probes(link) THEN (Probes(link) \ {r}) \cup {q} ELSE Probes(link)
  BY <1>3, <1>5 DEF Tickets, Looks, Probes
<1> HIDE DEF Q
<1>7. /\ Tickets(link) = {} <=> Tickets(t) = {}
      /\ (\E x : Tickets(link) = {x}) => \E x : Tickets(t) = {x}
  <2>1. Tickets(t) = IF r \in Tickets(link) THEN (Tickets(link) \ {r}) \cup {q} ELSE Tickets(link)
    BY <1>6
  <2> QED
    BY <2>1, Swapped
<1>8. /\ Looks(link) = {} <=> Looks(t) = {}
      /\ (\E x : Looks(link) = {x}) => \E x : Looks(t) = {x}
  <2>1. Looks(t) = IF r \in Looks(link) THEN (Looks(link) \ {r}) \cup {q} ELSE Looks(link)
    BY <1>6
  <2> QED
    BY <2>1, Swapped
<1>9. /\ Probes(link) = {} <=> Probes(t) = {}
      /\ (\A x, y \in Probes(link) : x = y) => \A x, y \in Probes(t) : x = y
  <2>1. Probes(t) = IF r \in Probes(link) THEN (Probes(link) \ {r}) \cup {q} ELSE Probes(link)
    BY <1>6
  <2> QED
    BY <2>1, Swapped
<1>10. Way(t)
  BY <1>5, <1>7, SoundParts DEF Way, NoWay, SameBody, Ended, Over
<1>11. Look(t)
  BY <1>5, <1>8, SoundParts DEF Look, SameBody, Ended, Over
<1>12. Wait(t) /\ Asking(t)
  <2>1. \A x \in Q : x.stage = "waiting" => x \in link.requests
    BY <1>3 DEF Q
  <2> QED
    BY <1>5, <1>9, <2>1, SoundParts DEF Wait, Asking, SameBody
<1>13. \A x \in Q : x.stage = "gone" => ~server.there
  BY <1>3, SoundParts DEF Q, Wire
<1> QED
  BY <1>1, <1>5, <1>10, <1>11, <1>12, <1>13, BodyInv DEF Steady

LEMMA ServeStep ==
  ASSUME StreamInv, NEW r \in link.requests, Serve(r) \/ Fail(r)
  PROVE  StreamInv'
<1>1. CASE Serve(r)
  <2>1. Verdict(r) \in {"ok", "gone", "failed", "denied", "login"}
        /\ (Verdict(r) = "gone" => ~server.there)
    BY DEF Verdict
  <2>2. Sound(link', server)
    BY <1>1, <2>1, AnswerStep DEF Serve
  <2> QED
    BY <1>1, <2>2 DEF Serve, StreamInv
<1>2. CASE Fail(r)
  <2>1. Sound(link', server)
    BY <1>2, AnswerStep DEF Fail
  <2>2. trouble' \in 0 .. MaxTrouble
    <3>1. trouble \in 0 .. MaxTrouble /\ MaxTrouble \in Nat
      BY CollabStreamAssumption DEF StreamInv
    <3> QED
      BY <1>2, <3>1 DEF Fail, Happens
  <2> QED
    BY <1>2, <2>1, <2>2 DEF Fail, StreamInv
<1> QED
  BY <1>1, <1>2

\* An answer is taken.
LEMMA WithoutDoes ==
  ASSUME StreamInv, NEW r \in link.requests
  PROVE  LET s == Without(r) IN
         /\ s \in LinkT /\ SameBody(link, s) /\ s.requests = link.requests \ {r}
         /\ s.probe = link.probe /\ s.retryTimer = link.retryTimer
         /\ s.status = link.status
         /\ Ready(s, server.head) /\ Wait(s) /\ NoNews(link, s)
         /\ Tickets(s) = Tickets(link) \ {r} /\ Looks(s) = Looks(link) \ {r}
         /\ Probes(s) = Probes(link) \ {r}
         /\ r.kind # "retry" => Look(s)
         /\ r.kind # "probe" => Asking(s)
         /\ r \notin Tickets(link) => Way(s)
         /\ Ended(s) => Way(s) /\ s.wire = <<>> /\ s.ws = "none"
         /\ (Ended(s) <=> Ended(link)) /\ (Over(s) <=> Over(link))
<1> DEFINE s == Without(r)
           Q == link.requests \ {r}
<1>1. s = [link EXCEPT !.requests = Q]
  BY DEF Without
<1> HIDE DEF s
<1>2. /\ s \in LinkT /\ SameBody(link, s) /\ s.requests = Q
      /\ s.probe = link.probe /\ s.retryTimer = link.retryTimer /\ s.status = link.status
  <2>1. Q \in SUBSET RequestT
    BY SoundParts DEF LinkT
  <2> HIDE DEF FrameT, RequestT, EventT, Q
  <2> QED
    BY <1>1, <2>1, SoundParts DEF LinkT, SameBody, SameEars
<1>3. /\ Tickets(s) = Tickets(link) \ {r} /\ Looks(s) = Looks(link) \ {r}
      /\ Probes(s) = Probes(link) \ {r}
  BY <1>2 DEF Tickets, Looks, Probes
<1>4. (Ended(s) <=> Ended(link)) /\ (Over(s) <=> Over(link))
  BY <1>2 DEF SameBody, Ended, Over
<1>5. Ready(s, server.head)
  BY <1>2, SoundParts, BodyReady
<1>6. Wait(s) /\ NoNews(link, s)
  BY <1>2, <1>3, SoundParts DEF Wait, NoNews, SameBody
<1>7. r.kind # "retry" => Look(s)
  <2>1. r.kind # "retry" => Looks(s) = Looks(link)
    BY <1>3 DEF Looks
  <2> QED
    BY <1>2, <1>4, <2>1, SoundParts DEF Look, SameBody
<1>8. r.kind # "probe" => Asking(s)
  <2>1. r.kind # "probe" => Probes(s) = Probes(link)
    BY <1>3 DEF Probes
  <2> QED
    BY <1>2, <2>1, SoundParts DEF Asking
<1>9. r \notin Tickets(link) => Way(s)
  <2>1. r \notin Tickets(link) => Tickets(s) = Tickets(link)
    BY <1>3
  <2> QED
    BY <1>2, <1>4, <2>1, SoundParts DEF Way, NoWay, SameBody
<1>10. Ended(s) => Way(s) /\ s.wire = <<>> /\ s.ws = "none"
  BY <1>2, <1>4, <1>9, SoundParts DEF Way, NoWay, Wire, SameBody
<1> QED
  BY <1>2, <1>3, <1>4, <1>5, <1>6, <1>7, <1>8, <1>9, <1>10 DEF s

\* A request that is no way up and no look for the user is done with.
LEMMA WithoutSound ==
  ASSUME StreamInv, NEW r \in link.requests, r \notin Tickets(link), r.kind # "probe",
         r.kind # "retry" \/ ~link.suspended
  PROVE  Sound(Without(r), server)
<1> DEFINE s == Without(r)
<1>1. /\ s \in LinkT /\ SameBody(link, s) /\ s.requests = link.requests \ {r}
      /\ s.probe = link.probe /\ s.retryTimer = link.retryTimer
      /\ Wait(s) /\ Looks(s) = Looks(link) \ {r} /\ Asking(s) /\ Way(s)
      /\ r.kind # "retry" => Look(s)
      /\ (Ended(s) <=> Ended(link))
  BY WithoutDoes
<1> HIDE DEF s
<1>2. ~link.suspended => Look(s)
  BY <1>1, SoundParts DEF Look, SameBody
<1>3. \A x \in s.requests : x.stage = "gone" => ~server.there
  BY <1>1, SoundParts DEF Wire
<1>4. Sound(s, server)
  BY <1>1, <1>2, <1>3, BodyInv DEF Steady
<1> QED
  BY <1>4 DEF s

\* The probe has no request.
LEMMA ProbeIs ==
  ASSUME NEW s \in LinkT, Probes(s) = {}, NEW P \in {"idle", "sleeping"}
  PROVE  LET t == [s EXCEPT !.probe = P] IN
         /\ t \in LinkT /\ SameBody(s, t) /\ t.requests = s.requests
         /\ Way(s) => Way(t)
         /\ Look(s) => Look(t)
         /\ Wait(s) => Wait(t)
         /\ Asking(t)
<1> DEFINE t == [s EXCEPT !.probe = P]
<1>1. /\ t \in LinkT /\ SameBody(s, t) /\ t.requests = s.requests /\ t.probe = P
      /\ t.retryTimer = s.retryTimer
  <2> HIDE DEF FrameT, RequestT, EventT
  <2> QED
    BY DEF LinkT, SameBody, SameEars
<1> HIDE DEF t
<1>2. Tickets(t) = Tickets(s) /\ Looks(t) = Looks(s) /\ Probes(t) = {}
  BY <1>1 DEF Tickets, Looks, Probes
<1>3. (Way(s) => Way(t)) /\ (Look(s) => Look(t)) /\ (Wait(s) => Wait(t)) /\ Asking(t)
  BY <1>1, <1>2 DEF Way, NoWay, Look, Wait, Asking, SameBody, Ended, Over
<1> QED
  BY <1>1, <1>3 DEF t

\* A request for a missing user waits.
LEMMA NeedsUserStep ==
  ASSUME StreamInv, NEW r \in link.requests, NeedsUser(r)
  PROVE  StreamInv'
<1> DEFINE h == server.head
           w == Without(r)
           s == Suspend(w)
           q == [r EXCEPT !.stage = "waiting", !.stale = r.kind = "ticket"]
           Q == s.requests \cup {q}
           t == [s EXCEPT !.requests = Q]
           u == [s EXCEPT !.probe = "idle"]
<1>1. /\ r.kind \in {"ticket", "probe", "call"}
      /\ Client(IF s.suspended THEN t ELSE IF r.kind = "probe" THEN u ELSE s)
  BY DEF NeedsUser, Arrives
<1>2. h \in Nat
  BY SoundParts
<1>3. /\ w \in LinkT /\ Ears(w, h) /\ Drops(w) /\ Look(w) /\ Wait(w) /\ NoNews(link, w)
      /\ Ended(w) => Way(w) /\ w.wire = <<>>
      /\ Probes(w) = Probes(link) \ {r} /\ w.probe = link.probe
  <2>1. r.kind # "retry"
    BY <1>1
  <2> QED
    BY <2>1, WithoutDoes DEF Ready
<1> HIDE DEF w
<1>4. /\ Ready(s, h) /\ Way(s) /\ Look(s) /\ Wait(s) /\ Down(s) /\ NoNews(w, s)
      /\ Probes(s) = Probes(w) /\ (s.probe = "asking" <=> w.probe = "asking")
  BY <1>2, <1>3, SuspendDoes
<1>5. s \in LinkT /\ s.requests \subseteq RequestT
  <2>1. s \in LinkT
    BY <1>4 DEF Ready
  <2> HIDE DEF s, FrameT, RequestT, EventT
  <2> QED
    BY <2>1 DEF LinkT
<1>6. r.kind = "probe" => Probes(link) = {r} /\ link.probe = "asking"
  BY SoundParts DEF Wait, Probes
<1>7. NoNews(link, s)
  BY <1>3, <1>4, NewsOf
<1> HIDE DEF s
<1>8. CASE s.suspended
  <2>1. /\ q \in RequestT /\ q.kind = r.kind /\ q.stage = "waiting"
        /\ q.kind = "ticket" => q.stale
    <3>1. r \in RequestT
      BY SoundParts DEF LinkT
    <3> QED
      BY <3>1 DEF RequestT
  <2> HIDE DEF q
  <2>2. Q \in SUBSET RequestT
    BY <1>5, <2>1
  <2>3. t \in LinkT /\ SameBody(s, t) /\ t.requests = Q /\ t.probe = s.probe /\ t.retryTimer = s.retryTimer
    <3> HIDE DEF FrameT, RequestT, EventT, Q
    <3> QED
      BY <1>5, <2>2 DEF LinkT, SameBody, SameEars
  <2> HIDE DEF t
  <2>4. /\ Tickets(t) = Tickets(s) /\ Looks(t) = Looks(s)
        /\ Probes(t) = IF r.kind = "probe" THEN Probes(s) \cup {q} ELSE Probes(s)
    <3>1. q.kind # "retry" /\ ~(q.kind = "ticket" /\ ~q.stale)
      BY <1>1, <2>1
    <3> QED
      BY <2>1, <2>3, <3>1 DEF Tickets, Looks, Probes
  <2>5. Way(t) /\ Look(t)
    BY <1>4, <2>3, <2>4 DEF Way, NoWay, Look, SameBody, Ended, Over
  <2>6. Wait(t) /\ Asking(t)
    <3>1. \A x \in t.requests : x.stage = "waiting" => t.suspended
      BY <1>8, <2>3 DEF SameBody
    <3>2. CASE r.kind = "probe"
      <4>1. Probes(t) = {q} /\ t.probe = "asking"
        BY <1>3, <1>4, <1>6, <2>3, <2>4, <3>2
      <4> QED
        BY <3>1, <4>1 DEF Wait, Asking
    <3>3. CASE r.kind # "probe"
      <4>1. Probes(t) = Probes(link)
        BY <1>3, <1>4, <2>4, <3>3 DEF Probes
      <4>2. Probes(t) = Probes(s) /\ (t.probe = "asking" => Probes(link) # {})
        BY <1>3, <1>4, <2>3, <2>4, <3>3, SoundParts DEF Asking
      <4>3. (\A x, y \in Probes(t) : x = y) /\ (Probes(t) # {} => t.probe = "asking")
        BY <1>4, <2>3, <4>2 DEF Wait
      <4> QED
        BY <3>1, <4>1, <4>2, <4>3 DEF Wait, Asking
    <3> QED
      BY <3>2, <3>3
  <2>7. Ready(t, h)
    BY <1>4, <2>3, BodyReady
  <2>8. Down(t)
    BY <1>4, <2>3 DEF Down, SameBody
  <2>9. NoNews(link, t)
    BY <1>7, <2>1, <2>3 DEF NoNews
  <2>10. Client(t)
    BY <1>1, <1>8
  <2> QED
    BY <2>5, <2>6, <2>7, <2>8, <2>9, <2>10, DownInv DEF Steady, h
<1>9. CASE ~s.suspended /\ r.kind = "probe"
  <2>1. Probes(s) = {}
    BY <1>3, <1>4, <1>6, <1>9
  <2>2. u \in LinkT /\ SameBody(s, u) /\ u.requests = s.requests
        /\ Way(u) /\ Look(u) /\ Wait(u) /\ Asking(u)
    BY <1>4, <1>5, <2>1, ProbeIs
  <2>3. Client(u)
    BY <1>1, <1>9
  <2> HIDE DEF u
  <2>4. Ready(u, h)
    BY <1>4, <2>2, BodyReady
  <2>5. Down(u) /\ NoNews(link, u)
    BY <1>4, <1>7, <2>2 DEF Down, SameBody, NoNews
  <2> QED
    BY <2>2, <2>3, <2>4, <2>5, DownInv DEF Steady, h
<1>10. CASE ~s.suspended /\ r.kind # "probe"
  <2>1. Probes(s) = Probes(link)
    BY <1>3, <1>4, <1>10 DEF Probes
  <2>2. Asking(s)
    BY <1>3, <1>4, <2>1, SoundParts DEF Asking
  <2>3. Client(s)
    BY <1>1, <1>10
  <2> QED
    BY <1>4, <1>7, <2>2, <2>3, DownInv DEF Steady, h
<1> QED
  BY <1>8, <1>9, <1>10

\* Whoever is denied ends the connection.
LEMMA DeniedStep ==
  ASSUME StreamInv, NEW r \in link.requests, r.kind # "probe", Client(Deny(Without(r))),
         r.kind # "retry" \/ link.suspended
  PROVE  StreamInv'
<1> DEFINE h == server.head
           w == Without(r)
           t == Deny(w)
<1>1. /\ w \in LinkT /\ Ears(w, h) /\ Drops(w) /\ Wait(w) /\ NoNews(link, w) /\ Asking(w)
      /\ Ended(w) => Way(w) /\ w.wire = <<>>
      /\ r.kind # "retry" => Look(w)
      /\ (Over(w) <=> Over(link))
  BY WithoutDoes DEF Ready
<1>2. h \in Nat
  BY SoundParts
<1> HIDE DEF w
<1>3. w.denied => Way(w) /\ Look(w) /\ Wait(w) /\ w.wire = <<>>
  <2>1. link.suspended => ~Over(link)
    BY SoundParts DEF Look
  <2> QED
    BY <1>1, <2>1 DEF Ended, Over
<1>4. /\ Ready(t, h) /\ Way(t) /\ Look(t) /\ Wait(t) /\ Down(t) /\ NoNews(w, t)
      /\ Asking(w) => Asking(t)
  BY <1>1, <1>2, <1>3, DenyDoes
<1>5. Client(t)
  BY DEF w
<1> HIDE DEF t
<1>6. NoNews(link, t)
  BY <1>1, <1>4, NewsOf
<1> QED
  BY <1>1, <1>4, <1>5, <1>6, DownInv DEF Steady, h

\* A ticket that leads to a socket is the only way up.
LEMMA TicketIsWay ==
  ASSUME StreamInv, NEW r \in link.requests, r.kind = "ticket", ~r.stale
  PROVE  LET s == Without(r) IN Between(s) /\ Steady(s) /\ s.wire = <<>>
<1> DEFINE s == Without(r)
<1>1. r \in Tickets(link)
  BY DEF Tickets
<1>2. /\ \E x : Tickets(link) = {x}
      /\ link.ws = "none" /\ ~link.handle /\ ~Ended(link)
  BY <1>1, SoundParts DEF Way, NoWay
<1>3. Tickets(link) = {r}
  BY <1>1, <1>2
<1>4. /\ SameBody(link, s) /\ Tickets(s) = Tickets(link) \ {r}
      /\ Wait(s) /\ Look(s) /\ Asking(s) /\ (Ended(s) <=> Ended(link))
  BY WithoutDoes
<1> HIDE DEF s
<1>5. ~link.deliberate /\ "current" \notin link.timers /\ link.wire = <<>>
  BY <1>2, SoundParts DEF Way, Wire
<1>6. Between(s) /\ s.wire = <<>>
  BY <1>2, <1>3, <1>4, <1>5 DEF Between, NoWay, SameBody
<1> QED
  BY <1>4, <1>6 DEF Steady, s

LEMMA TicketStep ==
  ASSUME StreamInv, NEW r \in link.requests, TicketArrives(r)
  PROVE  StreamInv'
<1> DEFINE h == server.head
           s == Without(r)
<1>1. /\ r.kind = "ticket" /\ r.stage \in {"ok", "failed", "denied"}
      /\ Client(CASE r.stage = "denied" -> Deny(s)
                  [] r.stage = "failed" -> TicketFails(s, r)
                  [] OTHER -> IF ~r.stale /\ ~s.deliberate THEN CreateSocket(s) ELSE s)
  BY DEF TicketArrives, Arrives
<1>2. CASE r.stage = "denied"
  <2>1. Client(Deny(s))
    BY <1>1, <1>2
  <2> QED
    BY <1>1, <2>1, DeniedStep
<1>3. CASE r.stage # "denied" /\ ~(~r.stale /\ ~s.deliberate)
  <2>1. Client(s)
    BY <1>1, <1>3 DEF TicketFails
  <2>2. ~r.stale => ~s.deliberate
    BY <1>1, TicketIsWay DEF Between
  <2>3. r \notin Tickets(link)
    BY <1>3, <2>2 DEF Tickets
  <2>4. Sound(s, server)
    BY <1>1, <2>3, WithoutSound
  <2> QED
    BY <2>1, <2>4, ClientInv
<1>4. CASE r.stage # "denied" /\ ~r.stale /\ ~s.deliberate
  <2>1. Between(s) /\ Steady(s) /\ s.wire = <<>>
    BY <1>1, <1>4, TicketIsWay
  <2>2. Ready(s, h) /\ NoNews(link, s) /\ h \in Nat
    BY WithoutDoes, SoundParts
  <2>3. CASE r.stage = "failed"
    <3>1. Client(ScheduleReconnect(s))
      BY <1>1, <1>4, <2>3 DEF TicketFails
    <3>2. Settled(ScheduleReconnect(s), h) /\ NoNews(s, ScheduleReconnect(s))
      BY <2>1, <2>2, ScheduleDoes
    <3> QED
      BY <2>2, <3>1, <3>2, NewsOf, DownInv DEF Settled, h
  <2>4. CASE r.stage # "failed"
    <3>1. Client(CreateSocket(s))
      BY <1>1, <1>4, <2>4
    <3>2. Settled(CreateSocket(s), h) /\ NoNews(s, CreateSocket(s))
      BY <2>1, <2>2, CreateDoes
    <3> QED
      BY <2>2, <3>1, <3>2, NewsOf, DownInv DEF Settled, h
  <2> QED
    BY <2>3, <2>4
<1> QED
  BY <1>2, <1>3, <1>4

LEMMA ProbeStep ==
  ASSUME StreamInv, NEW r \in link.requests, ProbeArrives(r)
  PROVE  StreamInv'
<1> DEFINE h == server.head
           s == Without(r)
           e == Event("session-closed", 0)
           d == [Deny(s) EXCEPT !.probe = "idle"]
           i == [s EXCEPT !.probe = "idle"]
           g == [Emit(s, e) EXCEPT !.probe = "idle"]
           z == [s EXCEPT !.probe = "sleeping"]
<1>1. /\ r.kind = "probe" /\ r.stage \in {"ok", "gone", "failed", "denied"}
      /\ Client(IF r.stage = "denied" THEN d
                ELSE IF Over(s) \/ s.status = "connected" THEN i
                ELSE IF r.stage = "gone" THEN g ELSE z)
  BY DEF ProbeArrives, Arrives
<1>2. /\ s \in LinkT /\ SameBody(link, s) /\ s.requests = link.requests \ {r}
      /\ Ready(s, h) /\ Wait(s) /\ NoNews(link, s) /\ Look(s) /\ Way(s)
      /\ Probes(s) = Probes(link) \ {r}
      /\ Ended(s) => s.wire = <<>>
  <2>1. r \notin Tickets(link)
    BY <1>1 DEF Tickets
  <2> QED
    BY <1>1, <2>1, WithoutDoes
<1>3. Probes(s) = {} /\ h \in Nat
  BY <1>1, <1>2, SoundParts DEF Wait, Probes
<1>4. \A x \in s.requests : x.stage = "gone" => ~server.there
  BY <1>2, SoundParts DEF Wire
<1> HIDE DEF s
<1>5. ASSUME NEW P \in {"idle", "sleeping"}
      PROVE  Sound([s EXCEPT !.probe = P], server)
  <2> DEFINE t == [s EXCEPT !.probe = P]
  <2>1. t \in LinkT /\ SameBody(s, t) /\ t.requests = s.requests
        /\ Way(t) /\ Look(t) /\ Wait(t) /\ Asking(t)
    BY <1>2, <1>3, ProbeIs
  <2> HIDE DEF t
  <2>2. SameBody(link, t)
    BY <1>2, <2>1 DEF SameBody, SameEars
  <2>3. Sound(t, server)
    BY <1>4, <2>1, <2>2, BodyInv DEF Steady
  <2> QED
    BY <2>3 DEF t
<1>6. CASE r.stage = "denied"
  <2> DEFINE t == Deny(s)
  <2>1. /\ Ready(t, h) /\ Way(t) /\ Look(t) /\ Wait(t) /\ Down(t) /\ NoNews(s, t)
        /\ Probes(t) \subseteq Probes(s)
    BY <1>2, <1>3, DenyDoes DEF Ready, Ended, Over
  <2>2. t \in LinkT /\ Probes(t) = {}
    BY <1>3, <2>1 DEF Ready
  <2> HIDE DEF t
  <2> DEFINE x == [t EXCEPT !.probe = "idle"]
  <2>3. x \in LinkT /\ SameBody(t, x) /\ x.requests = t.requests
        /\ Way(x) /\ Look(x) /\ Wait(x) /\ Asking(x)
    BY <2>1, <2>2, ProbeIs
  <2>4. Client(x)
    BY <1>1, <1>6 DEF t
  <2> HIDE DEF x
  <2>5. Ready(x, h)
    BY <2>1, <2>3, BodyReady
  <2>6. Down(x) /\ NoNews(link, x)
    <3>1. NoNews(link, t)
      BY <1>2, <2>1, NewsOf
    <3> QED
      BY <2>1, <2>3, <3>1 DEF Down, SameBody, NoNews
  <2> QED
    BY <2>3, <2>4, <2>5, <2>6, DownInv DEF Steady, h
<1>7. CASE r.stage # "denied" /\ (Over(s) \/ s.status = "connected")
  BY <1>1, <1>5, <1>7, ClientInv
<1>8. CASE r.stage = "gone" /\ ~(Over(s) \/ s.status = "connected")
  <2> DEFINE t == Emit(s, e)
  <2>1. Client([t EXCEPT !.probe = "idle"])
    BY <1>1, <1>8
  <2>2. e \in EventT /\ e.kind = "session-closed" /\ e.rev = 0 /\ e.rev <= h
    BY <1>3 DEF Event, EventT
  <2>3. /\ t \in LinkT /\ Ears(t, h)
        /\ s.on => Shut(s, t) /\ ~t.connected
        /\ ~s.on => SameOutside(s, t)
    <3> HIDE DEF e
    <3> QED
      BY <1>2, <1>3, <2>2, EmitDoes DEF Ready
  <2>4. link.ws # "up" /\ s.ws # "up"
    BY <1>2, <1>8, SoundParts DEF Wire, SameBody
  <2> HIDE DEF t
  <2>5. CASE s.on
    <3>1. Way(t) /\ Look(t) /\ Wait(t) /\ Down(t) /\ NoNews(s, t) /\ Drops(t)
      BY <1>2, <2>3, <2>5, ShutControl DEF Shut, Control, Down, NoWay, Drops
    <3>2. Probes(t) = {}
      BY <1>3, <2>3, <2>5 DEF Shut
    <3> DEFINE x == [t EXCEPT !.probe = "idle"]
    <3>3. x \in LinkT /\ SameBody(t, x) /\ x.requests = t.requests
          /\ Way(x) /\ Look(x) /\ Wait(x) /\ Asking(x)
      BY <2>3, <3>1, <3>2, ProbeIs
    <3>4. Client(x)
      BY <2>1
    <3> HIDE DEF x
    <3>5. Ready(x, h)
      BY <2>3, <3>1, <3>3, BodyReady DEF Ready
    <3>6. Down(x) /\ NoNews(link, x)
      <4>1. NoNews(link, t)
        BY <1>2, <3>1, NewsOf
      <4> QED
        BY <3>1, <3>3, <4>1 DEF Down, SameBody, NoNews
    <3> QED
      BY <3>3, <3>4, <3>5, <3>6, DownInv DEF Steady, h
  <2>6. CASE ~s.on
    <3>1. SameOutside(s, t)
      BY <2>3, <2>6
    <3>2. Way(t) /\ Look(t) /\ Wait(t) /\ Probes(t) = {}
      BY <1>2, <1>3, <3>1, ControlSame DEF SameOutside, SameControl, Probes
    <3>3. Ready(t, h)
      BY <2>3, <2>6, <3>1 DEF Ready, Drops, Ears, SameOutside
    <3> DEFINE x == [t EXCEPT !.probe = "idle"]
    <3>4. x \in LinkT /\ SameBody(t, x) /\ x.requests = t.requests
          /\ Way(x) /\ Look(x) /\ Wait(x) /\ Asking(x)
      BY <2>3, <3>2, ProbeIs
    <3>5. Client(x)
      BY <2>1
    <3> HIDE DEF x
    <3>6. Ready(x, h)
      BY <3>3, <3>4, BodyReady
    <3>7. /\ x.ws = link.ws /\ x.wire = link.wire /\ x.send = link.send
          /\ x.requests = s.requests
      BY <1>2, <3>1, <3>4 DEF SameOutside, SameControl, SameBody
    <3>8. Wire(x, server)
      BY <1>4, <2>4, <3>7, SoundParts DEF Wire
    <3>9. Told(x, h)
      BY <2>4, <3>7 DEF Told
    <3> QED
      BY <3>4, <3>5, <3>6, <3>8, <3>9, ClientInv DEF Sound, Steady, h
  <2> QED
    BY <2>5, <2>6
<1>9. CASE r.stage \notin {"denied", "gone"} /\ ~(Over(s) \/ s.status = "connected")
  BY <1>1, <1>5, <1>9, ClientInv
<1> QED
  BY <1>1, <1>6, <1>7, <1>8, <1>9

\* One more request is on its way.
LEMMA IssueDoes ==
  ASSUME StreamInv, NEW q \in RequestT, q.stage \in {"sent", "waiting"},
         q.stage = "waiting" => link.suspended, q.kind # "ticket",
         NEW P \in {"idle", "asking", "sleeping"}, NEW T \in BOOLEAN, NEW t \in LinkT,
         SameBody(link, t), t.requests = link.requests \cup {q}, t.probe = P, t.retryTimer = T,
         IF q.kind = "probe" THEN link.probe # "asking" /\ P = "asking" ELSE P = link.probe,
         IF q.kind = "retry" THEN link.retryTimer /\ ~T ELSE T = link.retryTimer
  PROVE  Sound(t, server)
<1>1. /\ Tickets(t) = Tickets(link)
      /\ Looks(t) = IF q.kind = "retry" THEN Looks(link) \cup {q} ELSE Looks(link)
      /\ Probes(t) = IF q.kind = "probe" THEN Probes(link) \cup {q} ELSE Probes(link)
  BY DEF Tickets, Looks, Probes
<1>2. (Ended(t) <=> Ended(link)) /\ (Over(t) <=> Over(link)) /\ t.suspended = link.suspended
  BY DEF SameBody, Ended, Over
<1>3. Way(t)
  BY <1>1, <1>2, SoundParts DEF Way, NoWay, SameBody
<1>4. Look(t)
  <2>1. CASE q.kind = "retry"
    <3>1. link.suspended /\ Looks(link) = {}
      BY <2>1, SoundParts DEF Look
    <3>2. Looks(t) = {q} /\ ~t.retryTimer
      BY <1>1, <2>1, <3>1
    <3> QED
      BY <1>2, <3>1, <3>2, SoundParts DEF Look, Ended
  <2>2. CASE q.kind # "retry"
    BY <1>1, <1>2, <2>2, SoundParts DEF Look
  <2> QED
    BY <2>1, <2>2
<1>5. Wait(t) /\ Asking(t)
  <2>1. \A r \in t.requests : r.stage = "waiting" => t.suspended
    BY <1>2, SoundParts DEF Wait
  <2>2. CASE q.kind = "probe"
    <3>1. Probes(link) = {}
      BY <2>2, SoundParts DEF Wait
    <3>2. Probes(t) = {q} /\ t.probe = "asking"
      BY <1>1, <2>2, <3>1
    <3> QED
      BY <2>1, <3>2 DEF Wait, Asking
  <2>3. CASE q.kind # "probe"
    BY <1>1, <2>1, <2>3, SoundParts DEF Wait, Asking
  <2> QED
    BY <2>2, <2>3
<1>6. \A r \in t.requests : r.stage = "gone" => ~server.there
  BY SoundParts DEF Wire
<1> QED
  BY <1>3, <1>4, <1>5, <1>6, BodyInv DEF Steady

LEMMA RequestOK ==
  ASSUME NEW kind \in {"ticket", "probe", "call", "retry"}, NEW stage \in {"sent", "waiting"}
  PROVE  LET q == Request(kind, stage) IN
         q \in RequestT /\ q.kind = kind /\ q.stage = stage
BY DEF Request, RequestT

LEMMA ProbeWakesStep ==
  ASSUME StreamInv, ProbeWakes
  PROVE  StreamInv'
<1>1. link.probe = "sleeping" /\ link \in LinkT /\ Probes(link) = {}
  BY SoundParts DEF ProbeWakes, Wait
<1>2. CASE Over(link) \/ link.suspended \/ link.status = "connected"
  <2> DEFINE t == [link EXCEPT !.probe = "idle"]
  <2>1. Client(t)
    BY <1>2 DEF ProbeWakes
  <2>2. t \in LinkT /\ SameBody(link, t) /\ t.requests = link.requests
        /\ Way(t) /\ Look(t) /\ Wait(t) /\ Asking(t)
    BY <1>1, SoundParts, ProbeIs
  <2> HIDE DEF t
  <2>3. Sound(t, server)
    BY <2>2, SoundParts, BodyInv DEF Steady, Wire
  <2> QED
    BY <2>1, <2>3, ClientInv
<1>3. CASE ~(Over(link) \/ link.suspended \/ link.status = "connected")
  <2> DEFINE a == [link EXCEPT !.probe = "asking"]
             q == Request("probe", "sent")
             t == Issue(a, "probe")
  <2>1. Client(t)
    BY <1>3 DEF ProbeWakes
  <2>2. q \in RequestT /\ q.kind = "probe" /\ q.stage = "sent"
    BY RequestOK
  <2>3. /\ t \in LinkT /\ SameBody(link, t) /\ t.requests = link.requests \cup {q}
        /\ t.probe = "asking" /\ t.retryTimer = link.retryTimer
    <3>1. /\ a \in LinkT /\ SameBody(link, a) /\ a.requests = link.requests
          /\ a.probe = "asking" /\ a.retryTimer = link.retryTimer /\ ~a.suspended
      <4> HIDE DEF FrameT, RequestT, EventT
      <4> QED
        BY <1>1, <1>3 DEF LinkT, SameBody, SameEars
    <3> HIDE DEF a
    <3>2. t = [a EXCEPT !.requests = a.requests \cup {q}]
      BY <3>1 DEF Issue
    <3>3. a.requests \cup {q} \in SUBSET RequestT
      BY <2>2, <3>1, <1>1 DEF LinkT
    <3> HIDE DEF t, q, FrameT, RequestT, EventT
    <3>4. t \in LinkT /\ SameBody(a, t) /\ t.requests = a.requests \cup {q}
          /\ t.probe = a.probe /\ t.retryTimer = a.retryTimer
      BY <3>1, <3>2, <3>3 DEF LinkT, SameBody, SameEars
    <3> QED
      BY <3>1, <3>4 DEF SameBody, SameEars
  <2> HIDE DEF q, t
  <2>4. Sound(t, server)
    <3>1. link.retryTimer \in BOOLEAN
      BY <1>1 DEF LinkT
    <3> QED
      BY <1>1, <2>2, <2>3, <3>1, IssueDoes
  <2> QED
    BY <2>1, <2>4, ClientInv
<1> QED
  BY <1>2, <1>3

\* One more trouble.
LEMMA TroubleStays ==
  ASSUME StreamInv, NEW what, Happens(what)
  PROVE  trouble' \in 0 .. MaxTrouble
<1>1. trouble \in 0 .. MaxTrouble /\ MaxTrouble \in Nat
  BY CollabStreamAssumption DEF StreamInv
<1> QED
  BY <1>1 DEF Happens

LEMMA CallStep ==
  ASSUME StreamInv, Call
  PROVE  StreamInv'
<1> DEFINE q == Request("call", IF link.suspended THEN "waiting" ELSE "sent")
<1>1. link' = [link EXCEPT !.requests = link.requests \cup {q}] /\ server' = server
  BY DEF Call, Issue
<1>2. q \in RequestT /\ q.kind = "call" /\ q.stage \in {"sent", "waiting"}
      /\ (q.stage = "waiting" => link.suspended)
  BY DEF Request, RequestT
<1> HIDE DEF q
<1>3. link \in LinkT /\ link.requests \cup {q} \in SUBSET RequestT
  BY <1>2, SoundParts DEF LinkT
<1>4. /\ link' \in LinkT /\ SameBody(link, link') /\ link'.requests = link.requests \cup {q}
      /\ link'.probe = link.probe /\ link'.retryTimer = link.retryTimer
      /\ link.probe \in {"idle", "asking", "sleeping"} /\ link.retryTimer \in BOOLEAN
  <2> HIDE DEF FrameT, RequestT, EventT
  <2> QED
    BY <1>1, <1>3 DEF LinkT, SameBody, SameEars
<1>5. Sound(link', server)
  BY <1>2, <1>4, IssueDoes
<1>6. trouble' \in 0 .. MaxTrouble
  BY TroubleStays DEF Call
<1> QED
  BY <1>1, <1>5, <1>6 DEF StreamInv

LEMMA CallArrivesStep ==
  ASSUME StreamInv, NEW r \in link.requests, CallArrives(r)
  PROVE  StreamInv'
<1>1. r.kind = "call" /\ (Client(Without(r)) \/ Client(Deny(Without(r))))
  BY DEF CallArrives, Arrives
<1>2. CASE Client(Without(r))
  <2>1. r \notin Tickets(link)
    BY <1>1 DEF Tickets
  <2>2. Sound(Without(r), server)
    BY <1>1, <2>1, WithoutSound
  <2> QED
    BY <1>2, <2>2, ClientInv
<1>3. CASE Client(Deny(Without(r)))
  BY <1>1, <1>3, DeniedStep
<1> QED
  BY <1>1, <1>2, <1>3

LEMMA RetryTimerStep ==
  ASSUME StreamInv, RetryTimer
  PROVE  StreamInv'
<1> DEFINE q == Request("retry", "sent")
           t == [link EXCEPT !.retryTimer = FALSE, !.requests = link.requests \cup {q}]
<1>1. link.retryTimer /\ Client(t)
  BY DEF RetryTimer
<1>2. q \in RequestT /\ q.kind = "retry" /\ q.stage = "sent"
  BY RequestOK
<1> HIDE DEF q
<1>3. link \in LinkT /\ link.requests \cup {q} \in SUBSET RequestT
  BY <1>2, SoundParts DEF LinkT
<1>4. /\ t \in LinkT /\ SameBody(link, t) /\ t.requests = link.requests \cup {q}
      /\ t.probe = link.probe /\ t.retryTimer = FALSE
      /\ link.probe \in {"idle", "asking", "sleeping"}
  <2> HIDE DEF FrameT, RequestT, EventT
  <2> QED
    BY <1>3 DEF LinkT, SameBody, SameEars
<1> HIDE DEF t
<1>5. Sound(t, server)
  BY <1>1, <1>2, <1>4, IssueDoes
<1> QED
  BY <1>1, <1>5, ClientInv

\* Closed for good by the user.
LEMMA CloseStep ==
  ASSUME StreamInv, CloseConnection
  PROVE  StreamInv'
<1> DEFINE h == server.head
           c == Close(link)
           t == [c EXCEPT !.sessionOver = TRUE, !.connected = FALSE, !.blind = FALSE]
<1>1. link' = t /\ server' = server /\ ~link.closed
  BY DEF CloseConnection
<1>2. /\ c \in LinkT
      /\ c.deliberate /\ NoWay(c) /\ "current" \notin c.timers /\ c.wire = <<>>
      /\ c.closed /\ ~c.suspended /\ ~c.retryTimer /\ ~c.send
      /\ ~c.on /\ c.flushed /\ c.buffered = <<>> /\ c.known = link.known
      /\ c.denied = link.denied
      /\ Wait(c) /\ Asking(c) /\ NoNews(link, c) /\ Probes(c) \subseteq Probes(link)
  BY <1>1, SoundParts, CloseDoes
<1> HIDE DEF c
<1>3. Shut(link, c)
  BY <1>2, SoundParts DEF Shut
<1>4. t \in LinkT /\ ~t.connected /\ t.send = c.send /\ SameControl(c, t) /\ t.wire = c.wire
      /\ t.on = c.on /\ t.flushed = c.flushed /\ t.buffered = c.buffered /\ t.known = c.known
  <2> HIDE DEF FrameT, RequestT, EventT
  <2> QED
    BY <1>2 DEF LinkT, SameControl
<1> HIDE DEF t
<1>5. Way(c) /\ Look(c)
  BY <1>2, <1>3, SoundParts, ShutControl DEF Control
<1>6. Way(t) /\ Steady(t)
  BY <1>2, <1>4, <1>5, ControlSame DEF Steady
<1>7. Ready(t, h)
  <2>1. Len(<<>>) = 0 /\ 0 <= BufferCap /\ 1 .. 0 = {}
    BY CollabStreamAssumption
  <2>2. t.known <= h /\ t.closed
    BY <1>2, <1>4, SoundParts DEF Ears, SameControl
  <2> QED
    BY <1>2, <1>4, <2>1, <2>2 DEF Ready, Ears, Drops
<1>8. Down(t) /\ NoNews(link, t)
  BY <1>2, <1>4 DEF Down, NoWay, SameControl, NoNews
<1>9. Sound(t, server)
  BY <1>6, <1>7, <1>8, SoundParts, DownSound DEF h
<1>10. trouble' \in 0 .. MaxTrouble
  BY TroubleStays DEF CloseConnection
<1> QED
  BY <1>1, <1>9, <1>10 DEF StreamInv

LEMMA RetryStep ==
  ASSUME StreamInv, NEW r \in link.requests, RetryArrives(r)
  PROVE  StreamInv'
<1> DEFINE h == server.head
           s == Without(r)
           e == Event("session-closed", 0)
<1>1. /\ r.kind = "retry" /\ r.stage \in {"ok", "gone", "failed", "denied", "login"}
      /\ Client(IF ~s.suspended THEN s ELSE
                CASE r.stage = "denied" -> Deny(s)
                  [] r.stage \in {"login", "failed"} -> [s EXCEPT !.retryTimer = TRUE]
                  [] r.stage = "gone" -> Close(Emit(s, e))
                  [] OTHER -> ResumeUserSession(s))
  BY DEF RetryArrives, Arrives
<1>2. r \notin Tickets(link)
  BY <1>1 DEF Tickets
<1>3. /\ s \in LinkT /\ SameBody(link, s) /\ s.requests = link.requests \ {r}
      /\ s.probe = link.probe /\ s.retryTimer = link.retryTimer
      /\ Ready(s, h) /\ Wait(s) /\ NoNews(link, s) /\ Way(s) /\ Asking(s)
      /\ Looks(s) = Looks(link) \ {r}
      /\ Ended(s) => s.wire = <<>> /\ s.ws = "none"
      /\ (Over(s) <=> Over(link))
  BY <1>1, <1>2, WithoutDoes
<1>4. h \in Nat /\ s.suspended = link.suspended
  BY <1>3, SoundParts DEF SameBody
<1>5. CASE ~s.suspended
  <2>1. Client(s)
    BY <1>1, <1>5
  <2>2. Sound(s, server)
    BY <1>1, <1>2, <1>4, <1>5, WithoutSound
  <2> QED
    BY <2>1, <2>2, ClientInv
<1>6. s.suspended => /\ Looks(s) = {} /\ ~s.retryTimer /\ ~Over(s) /\ s.wire = <<>> /\ Ended(s)
                     /\ s.ws = "none"
  <2>1. r \in Looks(link)
    BY <1>1 DEF Looks
  <2>2. link.suspended => /\ ~link.retryTimer /\ ~Over(link) /\ \E x : Looks(link) = {x}
    BY <2>1, SoundParts DEF Look
  <2>3. link.suspended => Looks(link) = {r}
    BY <2>1, <2>2
  <2> QED
    BY <1>3, <1>4, <2>2, <2>3 DEF Ended
<1> HIDE DEF s
<1>7. CASE s.suspended /\ r.stage = "denied"
  <2>1. Client(Deny(Without(r)))
    BY <1>1, <1>7 DEF s
  <2> QED
    BY <1>1, <1>4, <1>7, <2>1, DeniedStep
<1>8. CASE s.suspended /\ r.stage \in {"login", "failed"}
  <2> DEFINE t == [s EXCEPT !.retryTimer = TRUE]
  <2>1. Client(t)
    BY <1>1, <1>8
  <2>2. t \in LinkT /\ SameBody(s, t) /\ t.requests = s.requests /\ t.probe = s.probe /\ t.retryTimer
    <3> HIDE DEF FrameT, RequestT, EventT
    <3> QED
      BY <1>3 DEF LinkT, SameBody, SameEars
  <2> HIDE DEF t
  <2>3. Tickets(t) = Tickets(s) /\ Looks(t) = Looks(s) /\ Probes(t) = Probes(s)
    BY <2>2 DEF Tickets, Looks, Probes
  <2>4. Way(t) /\ Wait(t) /\ Asking(t)
    BY <1>3, <2>2, <2>3 DEF Way, NoWay, Wait, Asking, SameBody, Ended, Over
  <2>5. Look(t)
    BY <1>6, <1>8, <2>2, <2>3 DEF Look, SameBody, Ended, Over
  <2>6. Ready(t, h)
    BY <1>3, <2>2, BodyReady
  <2>7. Down(t) /\ NoNews(link, t)
    BY <1>3, <1>6, <1>8, <2>2 DEF Down, SameBody, NoNews
  <2> QED
    BY <2>1, <2>4, <2>5, <2>6, <2>7, DownInv DEF Steady, h
<1>9. CASE s.suspended /\ r.stage = "gone"
  <2> DEFINE m == Emit(s, e)
             t == Close(m)
  <2>1. Client(t)
    BY <1>1, <1>9
  <2>2. e \in EventT /\ e.kind = "session-closed" /\ e.rev = 0 /\ e.rev <= h
    BY <1>4 DEF Event, EventT
  <2>3. /\ m \in LinkT /\ Ears(m, h)
        /\ s.on => Shut(s, m) /\ ~m.connected
        /\ ~s.on => SameOutside(s, m)
    <3> HIDE DEF e
    <3> QED
      BY <1>3, <1>4, <2>2, EmitDoes DEF Ready
  <2> HIDE DEF m
  <2>4. CASE s.on
    <3>1. t = m
      BY <2>3, <2>4 DEF Close, Shut
    <3>2. Way(m) /\ Steady(m) /\ Down(m) /\ NoNews(s, m) /\ Drops(m)
      BY <1>3, <2>3, <2>4, ShutControl DEF Shut, Control, Steady, Down, NoWay, Drops
    <3>3. NoNews(link, m)
      BY <1>3, <3>2, NewsOf
    <3>4. Ready(m, h)
      BY <2>3, <3>2 DEF Ready
    <3>5. Client(m)
      BY <2>1, <3>1
    <3> QED
      BY <3>2, <3>3, <3>4, <3>5, DownInv DEF h
  <2>5. CASE ~s.on
    <3>1. SameOutside(s, m) /\ ~m.connected
      BY <2>3, <2>5 DEF Ears, SameOutside
    <3>2. Wait(m) /\ Asking(m) /\ ~m.closed /\ NoNews(link, m)
      BY <1>3, <1>6, <1>9, <3>1, ControlSame DEF SameOutside, SameControl, Over, NoNews
    <3>3. /\ t \in LinkT /\ Shut(m, t) /\ ~t.connected
      <4>1. /\ t \in LinkT
            /\ t.deliberate /\ NoWay(t) /\ "current" \notin t.timers /\ t.wire = <<>>
            /\ t.closed /\ ~t.suspended /\ ~t.retryTimer /\ ~t.send
            /\ ~t.on /\ t.flushed /\ t.buffered = <<>> /\ t.known = m.known
            /\ t.denied = m.denied /\ t.connected = m.connected
            /\ Wait(m) => Wait(t)
            /\ Asking(m) => Asking(t)
            /\ NoNews(m, t) /\ Probes(t) \subseteq Probes(m)
        BY <2>3, <3>2, CloseDoes
      <4> HIDE DEF t
      <4> QED
        BY <3>1, <4>1 DEF Shut
    <3> HIDE DEF t
    <3>4. Way(t) /\ Steady(t) /\ Down(t) /\ NoNews(m, t) /\ Drops(t)
      BY <3>2, <3>3, ShutControl DEF Shut, Control, Steady, Down, NoWay, Drops
    <3>5. Ears(t, h)
      BY <1>4, <2>3, <3>3, ShutEars
    <3>6. NoNews(link, t)
      BY <3>2, <3>4, NewsOf
    <3>7. Ready(t, h)
      BY <3>3, <3>4, <3>5 DEF Ready
    <3> QED
      BY <2>1, <3>4, <3>6, <3>7, DownInv DEF h
  <2> QED
    BY <2>4, <2>5
<1>10. CASE s.suspended /\ r.stage = "ok"
  <2>1. Client(ResumeUserSession(s))
    BY <1>1, <1>10
  <2>2. Settled(ResumeUserSession(s), h) /\ NoNews(s, ResumeUserSession(s))
    BY <1>3, <1>4, <1>6, <1>10, ResumeDoes
  <2> QED
    BY <1>3, <2>1, <2>2, NewsOf, DownInv DEF Settled, h
<1> QED
  BY <1>1, <1>5, <1>7, <1>8, <1>9, <1>10

LEMMA UpgradeStep ==
  ASSUME StreamInv, Upgrade
  PROVE  StreamInv'
<1> DEFINE h == server.head
           o == Frame("open", 0)
           d == Frame("session", h)
           c == Frame("close", 0)
<1>1. /\ link.ws = "asked" /\ server' = server /\ trouble' = trouble
      /\ \/ /\ server.there
            /\ link' = [link EXCEPT !.ws = "up", !.wire = <<o, d>>]
         \/ link' = [link EXCEPT !.ws = "down", !.wire = <<c>>]
  BY DEF Upgrade
<1>2. h \in Nat /\ server \in ServerT
  BY SoundParts
<1>3. /\ o \in FrameT /\ o.kind = "open" /\ o.rev = 0
      /\ d \in FrameT /\ d.kind = "session" /\ d.rev = h
      /\ c \in FrameT /\ c.kind = "close" /\ c.rev = 0
  BY <1>2, FrameOK DEF FrameKinds
<1> HIDE DEF o, d, c
<1>4. CASE link' = [link EXCEPT !.ws = "down", !.wire = <<c>>]
  <2>1. <<c>> \in Seq(FrameT) /\ Frames(<<c>>, link.send, h)
    <3>1. Len(<<c>>) = 1 /\ <<c>>[1] = c
      OBVIOUS
    <3>2. <<c>> \in Seq(FrameT)
      BY <1>3
    <3> QED
      BY <1>2, <1>3, <3>1, <3>2 DEF Frames, Farewells
  <2>2. Turned(link, link', <<c>>, "down")
    BY <1>4 DEF Turned
  <2>3. Sound(link', server)
    BY <1>1, <1>2, <2>1, <2>2, Broken
  <2> QED
    BY <1>1, <2>3 DEF StreamInv
<1>5. CASE server.there /\ link' = [link EXCEPT !.ws = "up", !.wire = <<o, d>>]
  <2> DEFINE w == <<o, d>>
  <2>1. w \in Seq(FrameT) /\ Len(w) = 2 /\ w[1] = o /\ w[2] = d
    BY <1>3
  <2> HIDE DEF w
  <2>2. Turned(link, link', w, "up")
    BY <1>5 DEF Turned, w
  <2>3. /\ Ready(link, h) /\ Way(link) /\ Steady(link) /\ "up" \in {"asked", "up", "down"}
        /\ \A r \in link.requests : r.stage = "gone" => ~server.there
    BY SoundParts DEF Wire
  <2>4. /\ Ready(link', h) /\ Way(link') /\ Steady(link')
        /\ link'.wire = w /\ link'.ws = "up" /\ link'.send = link.send
        /\ link'.requests = link.requests
    BY <1>1, <1>2, <2>1, <2>2, <2>3, SocketTurns
  <2>5. \A i \in 1 .. Len(w) : i = 1 \/ i = 2
    BY <2>1
  <2>6. Frames(w, link'.send, h) /\ Live(w, h) /\ w # <<>>
    <3>1. w # <<>> /\ 1 \in 1 .. Len(w)
      BY <2>1
    <3>2. Frames(w, link'.send, h)
      BY <1>2, <1>3, <2>1, <2>5 DEF Frames, Farewells
    <3>3. Live(w, h)
      BY <1>3, <2>1, <2>5 DEF Live
    <3> QED
      BY <3>1, <3>2, <3>3
  <2>7. Wire(link', server)
    BY <1>5, <2>3, <2>4, <2>6 DEF Wire
  <2>8. Told(link', h)
    <3>1. 2 \in 1 .. Len(w) /\ w[2].kind = "session"
      BY <1>3, <2>1
    <3> QED
      BY <2>4, <2>6, <3>1 DEF Told
  <2>9. Sound(link', server)
    BY <2>4, <2>7, <2>8 DEF Sound, h
  <2> QED
    BY <1>1, <2>9 DEF StreamInv
<1> QED
  BY <1>1, <1>4, <1>5

-----------------------------------------------------------------------------
(* A listener comes *)

\* What the first listener was told of before it came, it is told of now.
LEMMA BufferIsHeard ==
  ASSUME NEW s, NEW t, NEW h \in Nat, NEW es \in Seq(EventT), ~s.on, s.buffered = es,
         t.on, t.known \in Nat, t.known <= h, t.crowded = s.crowded,
         \A i \in 1 .. Len(es) : es[i].kind \in {"connected", "op"} => es[i].rev <= t.known,
         \A i \in 1 .. Len(es) : es[i].kind = "connected" => t.connected
  PROVE  /\ HeadTold(s, h) => HeadTold(t, h)
         /\ OpenTold(s) => OpenTold(t)
<1>1. OpenTold(s) => OpenTold(t)
  BY DEF OpenTold
<1>2. ASSUME HeadTold(s, h), ~s.crowded
      PROVE  t.known = h
  <2>1. PICK i \in 1 .. Len(es) : es[i].kind \in {"connected", "op"} /\ es[i].rev = h
    BY <1>2 DEF HeadTold
  <2> QED
    BY <2>1
<1> QED
  BY <1>1, <1>2 DEF HeadTold

LEMMA SubscribeStep ==
  ASSUME StreamInv, Subscribe
  PROVE  StreamInv'
<1> DEFINE h == server.head
           es == link.buffered
           b == [link EXCEPT !.on = TRUE, !.buffered = <<>>, !.flushed = TRUE]
           s == HeardAll(b, es)
           t == [s EXCEPT !.blind = s.connected /\ ~s.send]
<1>1. ~link.on /\ ~link.flushed /\ Client(t)
  BY DEF Subscribe
<1>2. /\ h \in Nat /\ link \in LinkT /\ Ears(link, h) /\ Look(link) /\ Wait(link) /\ Asking(link)
      /\ Way(link)
  BY SoundParts
<1>3. es \in Seq(EventT) /\ ~link.connected /\ ~link.closed /\ ~link.sessionOver
  BY <1>1, <1>2 DEF LinkT, Ears
<1>4. /\ b \in LinkT /\ SameControl(link, b) /\ b.wire = link.wire /\ b.send = link.send
      /\ b.on /\ b.flushed /\ b.buffered = <<>> /\ b.known = link.known
      /\ b.crowded = link.crowded /\ b.sessionOver = link.sessionOver
  <2>1. <<>> \in Seq(EventT)
    OBVIOUS
  <2> HIDE DEF FrameT, RequestT, EventT
  <2> QED
    BY <1>2, <2>1 DEF LinkT, SameControl
<1> HIDE DEF b
<1>5. Way(b) /\ Look(b) /\ Wait(b) /\ Asking(b)
  BY <1>2, <1>4, ControlSame
<1>6. Ears(b, h)
  <2>1. Len(b.buffered) = 0 /\ 0 <= BufferCap
    BY <1>4, CollabStreamAssumption
  <2> QED
    BY <1>2, <1>3, <1>4, <2>1 DEF Ears, SameControl
<1>7. \A i \in 1 .. Len(es) : es[i].rev <= h /\ es[i].kind # "disconnected"
  BY <1>2 DEF Ears
<1> HIDE DEF es
<1>8. Listening(b, h, es, Len(es), s)
  BY <1>2, <1>3, <1>4, <1>5, <1>6, <1>7, HeardAllDoes
<1> HIDE DEF s
<1>9. /\ t \in LinkT /\ SameControl(s, t) /\ t.wire = s.wire /\ t.send = s.send /\ t.on = s.on
      /\ t.flushed = s.flushed /\ t.buffered = s.buffered /\ t.known = s.known
      /\ t.connected = s.connected /\ t.sessionOver = s.sessionOver /\ t.crowded = s.crowded
      /\ (t.blind <=> s.connected /\ ~s.send)
  <2>1. s \in LinkT
    BY <1>8 DEF Listening
  <2> HIDE DEF FrameT, RequestT, EventT
  <2> QED
    BY <2>1 DEF LinkT, SameControl
<1> HIDE DEF t
<1>10. Ready(t, h)
  <2>1. Ears(s, h)
    BY <1>8 DEF Listening
  <2>2. Ears(t, h)
    BY <1>9, <2>1 DEF Ears, SameControl
  <2>3. Drops(t)
    BY <1>9 DEF Drops
  <2> QED
    BY <1>9, <2>2, <2>3 DEF Ready
<1>11. CASE Finished(b, s)
  <2>1. Way(s) /\ Steady(s) /\ Down(s) /\ NoNews(b, s)
    BY <1>11 DEF Finished
  <2>2. Way(t) /\ Steady(t) /\ Down(t)
    BY <1>9, <2>1, ControlSame DEF Steady, Down, SameControl
  <2>3. NoNews(link, t)
    BY <1>4, <1>9, <2>1 DEF NoNews, SameControl
  <2> QED
    BY <1>1, <1>10, <2>2, <2>3, DownInv DEF h
<1>12. CASE Informed(b, es, Len(es), s)
  <2>1. /\ SameOutside(b, s) /\ s.crowded = b.crowded
        /\ \A i \in 1 .. Len(es) : es[i].kind \in {"connected", "op"} => es[i].rev <= s.known
        /\ \A i \in 1 .. Len(es) : es[i].kind = "connected" => s.connected
    BY <1>12 DEF Informed
  <2>2. Way(s) /\ Look(s) /\ Wait(s) /\ Asking(s)
    BY <1>5, <2>1, ControlSame DEF SameOutside
  <2>3. Way(t) /\ Steady(t)
    BY <1>9, <2>2, ControlSame DEF Steady
  <2>4. t.ws = link.ws /\ t.wire = link.wire /\ t.send = link.send /\ t.requests = link.requests
    BY <1>4, <1>9, <2>1 DEF SameOutside, SameControl
  <2>5. Wire(t, server)
    BY <2>4, SoundParts DEF Wire
  <2>6. t.known \in Nat /\ t.known <= h /\ t.on /\ t.crowded = link.crowded
    <3>1. t.known \in Nat
      BY <1>9 DEF LinkT
    <3>2. t.known <= h
      BY <1>10 DEF Ready, Ears
    <3> QED
      BY <1>4, <1>9, <2>1, <3>1, <3>2 DEF SameOutside
  <2>7. /\ HeadTold(link, h) => HeadTold(t, h)
        /\ OpenTold(link) => OpenTold(t)
    <3>1. link.buffered = es
      BY DEF es
    <3> QED
      BY <1>1, <1>2, <1>3, <1>9, <2>1, <2>6, <3>1, BufferIsHeard
  <2>8. Told(t, h)
    BY <2>4, <2>7, SoundParts DEF Told
  <2>9. Sound(t, server)
    BY <1>10, <2>3, <2>5, <2>8 DEF Sound, h
  <2> QED
    BY <1>1, <2>9, ClientInv
<1> QED
  BY <1>8, <1>11, <1>12 DEF Listening

-----------------------------------------------------------------------------
(* The invariant *)

LEMMA StreamStarts == Init => StreamInv
<1> SUFFICES ASSUME Init
             PROVE  StreamInv
  OBVIOUS
<1>1. PICK ticketed \in BOOLEAN :
        link = Connect(
          [ticketed |-> ticketed,
           ws |-> "none", wire |-> <<>>, status |-> "disconnected", handle |-> FALSE,
           retrying |-> FALSE, deliberate |-> TRUE, timers |-> {},
           closed |-> FALSE, denied |-> FALSE, suspended |-> FALSE, retryTimer |-> FALSE,
           send |-> FALSE, probe |-> "idle", requests |-> {},
           buffered |-> <<>>, flushed |-> FALSE, on |-> FALSE,
           known |-> 0, connected |-> FALSE, sessionOver |-> FALSE,
           told |-> FALSE, blind |-> FALSE, crowded |-> FALSE])
  BY DEF Init
<1> DEFINE s == [ticketed |-> ticketed,
                 ws |-> "none", wire |-> <<>>, status |-> "disconnected", handle |-> FALSE,
                 retrying |-> FALSE, deliberate |-> TRUE, timers |-> {},
                 closed |-> FALSE, denied |-> FALSE, suspended |-> FALSE, retryTimer |-> FALSE,
                 send |-> FALSE, probe |-> "idle", requests |-> {},
                 buffered |-> <<>>, flushed |-> FALSE, on |-> FALSE,
                 known |-> 0, connected |-> FALSE, sessionOver |-> FALSE,
                 told |-> FALSE, blind |-> FALSE, crowded |-> FALSE]
<1>2. /\ server = [head |-> 0, there |-> TRUE, user |-> TRUE, granted |-> TRUE]
      /\ trouble = 0
  BY DEF Init
<1>3. server \in ServerT /\ server.head = 0 /\ trouble \in 0 .. MaxTrouble
  <2>1. 0 \in 0 .. MaxHead /\ 0 \in 0 .. MaxTrouble
    BY CollabStreamAssumption
  <2> QED
    BY <1>2, <2>1 DEF ServerT
<1>4. s \in LinkT
  <2>1. <<>> \in Seq(FrameT) /\ <<>> \in Seq(EventT) /\ {} \in SUBSET RequestT
    OBVIOUS
  <2> HIDE DEF FrameT, RequestT, EventT
  <2> QED
    BY <2>1 DEF LinkT
<1>5. /\ s.ws = "none" /\ s.wire = <<>> /\ s.handle = FALSE /\ s.timers = {}
      /\ s.closed = FALSE /\ s.denied = FALSE /\ s.suspended = FALSE /\ s.retryTimer = FALSE
      /\ s.send = FALSE /\ s.probe = "idle" /\ s.requests = {} /\ s.buffered = <<>>
      /\ s.flushed = FALSE /\ s.on = FALSE /\ s.known = 0 /\ s.connected = FALSE
      /\ s.sessionOver = FALSE
  OBVIOUS
<1> HIDE DEF s
<1>6. Tickets(s) = {} /\ Looks(s) = {} /\ Probes(s) = {}
  BY <1>5 DEF Tickets, Looks, Probes
<1>7. NoWay(s) /\ ~Ended(s) /\ "current" \notin s.timers /\ Steady(s)
  BY <1>5, <1>6 DEF NoWay, Ended, Over, Steady, Look, Wait, Asking
<1>8. Ready(s, 0)
  <2>1. Len(s.buffered) = 0 /\ 0 <= BufferCap
    BY <1>5, CollabStreamAssumption
  <2>2. Ears(s, 0)
    BY <1>5, <2>1 DEF Ears
  <2> QED
    BY <1>4, <1>5, <2>2 DEF Ready, Drops
<1>9. Settled(link, 0) /\ NoNews(s, link)
  <2>1. link = Connect(s)
    BY <1>1 DEF s
  <2> QED
    BY <1>5, <1>7, <1>8, <2>1, ConnectDoes
<1>10. Wire(s, server)
  <2>1. Len(s.wire) = 0
    BY <1>5
  <2> QED
    BY <1>5, <2>1 DEF Wire, Frames
<1>11. Sound(link, server)
  BY <1>3, <1>9, <1>10, DownSound DEF Settled
<1> QED
  BY <1>3, <1>11 DEF StreamInv

LEMMA ArrivalStep ==
  ASSUME StreamInv, NEW r \in link.requests, Arrival(r)
  PROVE  StreamInv'
<1>1. CASE NeedsUser(r)
  BY <1>1, NeedsUserStep
<1>2. CASE TicketArrives(r)
  BY <1>2, TicketStep
<1>3. CASE ProbeArrives(r)
  BY <1>3, ProbeStep
<1>4. CASE CallArrives(r)
  BY <1>4, CallArrivesStep
<1>5. CASE RetryArrives(r)
  BY <1>5, RetryStep
<1> QED
  BY <1>1, <1>2, <1>3, <1>4, <1>5 DEF Arrival

LEMMA StreamGoesOn == StreamInv /\ [Next]_vars => StreamInv'
<1> SUFFICES ASSUME StreamInv, [Next]_vars
             PROVE  StreamInv'
  OBVIOUS
<1>1. CASE Backend
  BY <1>1, BackendStep
<1>2. CASE Upgrade
  BY <1>2, UpgradeStep
<1>3. CASE Opened
  BY <1>3, OpenedStep
<1>4. CASE Received
  BY <1>4, ReceivedStep
<1>5. CASE Closed
  BY <1>5, ClosedStep
<1>6. ASSUME NEW age \in link.timers, ReconnectTimer(age)
      PROVE  StreamInv'
  BY <1>6, TimerStep
<1>7. ASSUME NEW r \in link.requests, Serve(r) \/ Fail(r) \/ Arrival(r)
      PROVE  StreamInv'
  BY <1>7, ServeStep, ArrivalStep
<1>8. CASE ProbeWakes
  BY <1>8, ProbeWakesStep
<1>9. CASE RetryTimer
  BY <1>9, RetryTimerStep
<1>10. CASE Call
  BY <1>10, CallStep
<1>11. CASE Subscribe
  BY <1>11, SubscribeStep
<1>12. CASE CloseConnection
  BY <1>12, CloseStep
<1>13. CASE UNCHANGED vars
  BY <1>13 DEF vars, StreamInv
<1> QED
  BY <1>1, <1>2, <1>3, <1>4, <1>5, <1>6, <1>7, <1>8, <1>9, <1>10, <1>11, <1>12, <1>13 DEF Next

LEMMA StreamAlways == Spec => []StreamInv
<1> QED
  BY StreamStarts, StreamGoesOn, PTL DEF Spec

-----------------------------------------------------------------------------
(* What the connection promises *)

\* The records stay what they are, the buffer keeps to PRE_SUBSCRIBE_BUFFER_CAP, and
\* a listener knows of no revision that was not committed.  (emit, handleFrame.)
THEOREM StreamTypes == Spec => []TypeOK
<1>1. StreamInv => TypeOK
  <2> SUFFICES ASSUME StreamInv
               PROVE  TypeOK
    OBVIOUS
  <2>1. link \in LinkT /\ server \in ServerT /\ Ears(link, server.head)
    BY SoundParts
  <2>2. /\ link.ws \in {"none", "asked", "up", "down"}
        /\ link.status \in {"disconnected", "connecting", "connected", "reconnecting"}
        /\ link.probe \in {"idle", "asking", "sleeping"}
        /\ link.timers \subseteq {"current", "stale"}
        /\ link.requests \subseteq RequestT
        /\ link.known \in Nat
    <3> HIDE DEF FrameT, RequestT, EventT
    <3> QED
      BY <2>1 DEF LinkT
  <2>3. \A r \in link.requests :
          /\ r.kind \in {"ticket", "probe", "call", "retry"} /\ r.stale \in BOOLEAN
          /\ r.stage \in {"waiting", "sent", "ok", "gone", "failed", "denied", "login"}
    BY <2>2 DEF RequestT
  <2>4. Len(link.buffered) <= BufferCap /\ link.known <= server.head
    BY <2>1 DEF Ears
  <2>5. link.known \in 0 .. server.head
    <3>1. server.head \in Nat
      BY SoundParts
    <3> QED
      BY <2>2, <2>4, <3>1
  <2>6. trouble \in 0 .. MaxTrouble
    BY DEF StreamInv
  <2> QED
    BY <2>1, <2>2, <2>3, <2>4, <2>5, <2>6 DEF TypeOK, ServerT
<1> QED
  BY <1>1, StreamAlways, PTL

\* Whatever stale timers, late tickets and late refusals arrive, the connection has
\* exactly one way back, and none once it is closed or denied: openSocket,
\* scheduleReconnect, disconnect and retryUserSession never start a second one.
THEOREM WaysAreOne == Spec => []OneWayUp
<1>1. StreamInv => OneWayUp
  <2> SUFFICES ASSUME StreamInv
               PROVE  OneWayUp
    OBVIOUS
  <2>1. Way(link) /\ Look(link)
    BY SoundParts
  <2>2. Ways(link) = Cardinality(Tickets(link)) + (IF link.ws # "none" THEN 1 ELSE 0)
                       + (IF link.handle /\ "current" \in link.timers THEN 1 ELSE 0)
    BY DEF Ways, Tickets
  <2>3. Retries(link) = Cardinality(Looks(link)) + (IF link.retryTimer THEN 1 ELSE 0)
    BY DEF Retries, Looks
  <2>4. Cardinality({}) = 0 /\ \A x : Cardinality({x}) = 1
    BY FS_EmptySet, FS_Singleton
  <2>5. Ways(link) = IF Ended(link) THEN 0 ELSE 1
    <3>1. CASE NoWay(link) /\ Ended(link)
      BY <2>2, <2>4, <3>1 DEF NoWay
    <3>2. CASE (\E r : Tickets(link) = {r}) /\ link.ws = "none" /\ ~link.handle /\ ~Ended(link)
      <4>1. Cardinality(Tickets(link)) = 1
        BY <2>4, <3>2
      <4> QED
        BY <2>2, <3>2, <4>1
    <3>3. CASE Tickets(link) = {} /\ link.ws # "none" /\ ~link.handle /\ ~Ended(link)
      BY <2>2, <2>4, <3>3
    <3>4. CASE Tickets(link) = {} /\ link.ws = "none" /\ link.handle /\ ~Ended(link)
      BY <2>1, <2>2, <2>4, <3>4 DEF Way
    <3> QED
      BY <2>1, <3>1, <3>2, <3>3, <3>4 DEF Way
  <2>6. link.suspended => Retries(link) = 1
    <3>1. CASE link.suspended /\ link.retryTimer /\ Looks(link) = {}
      BY <2>3, <2>4, <3>1
    <3>2. CASE link.suspended /\ ~link.retryTimer /\ \E r : Looks(link) = {r}
      <4>1. Cardinality(Looks(link)) = 1
        BY <2>4, <3>2
      <4> QED
        BY <2>3, <3>2, <4>1
    <3> QED
      BY <2>1, <3>1, <3>2 DEF Look
  <2>7. Over(link) => ~link.handle /\ ~link.retryTimer
    BY <2>1 DEF Way, NoWay, Look, Ended
  <2> QED
    BY <2>5, <2>6, <2>7 DEF OneWayUp, Ended
<1> QED
  BY <1>1, StreamAlways, PTL

\* fetchFn lets a request wait for the user only while waitForUserSession is there
\* to wake or fail it, and the probe is at work exactly as long as its request is.
THEOREM WaitersAreServed == Spec => []NobodyWaitsInVain
<1>1. StreamInv => NobodyWaitsInVain
  BY SoundParts DEF NobodyWaitsInVain, Wait, Asking, Probes
<1> QED
  BY <1>1, StreamAlways, PTL

\* The descriptor that opens a socket, the commits after it and the replay of what
\* was buffered leave a listener at the head once nothing is on the way, also where
\* emit had to let ops go.
THEOREM HeadIsKnown == Spec => []SubscriberKnowsHead
<1>1. StreamInv => SubscriberKnowsHead
  <2> SUFFICES ASSUME StreamInv, link.on, ~link.crowded, link.ws = "up", link.wire = <<>>
               PROVE  link.connected /\ link.known = server.head
    BY DEF SubscriberKnowsHead
  <2>1. HeadTold(link, server.head)
    BY SoundParts DEF Told
  <2>2. Len(link.wire) = 0
    OBVIOUS
  <2>3. OpenTold(link)
    BY <2>2, SoundParts DEF Told
  <2> QED
    BY <2>1, <2>3 DEF HeadTold, OpenTold
<1> QED
  BY <1>1, StreamAlways, PTL

\* A lost socket is told to whoever took it for connected, before anything else runs:
\* by the subscription to the socket's status, by suspendForUserSession, or by the
\* denial that ends the connection.
THEOREM LossIsHeard == Spec => []DropIsTold
<1>1. StreamInv => DropIsTold
  BY SoundParts DEF DropIsTold, Drops
<1> QED
  BY <1>1, StreamAlways, PTL
=============================================================================
