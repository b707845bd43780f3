------------------------ MODULE CollabStreamProperties ------------------------
(***************************************************************************)
(* What the connection of a shared session must guarantee.                  *)
(***************************************************************************)
EXTENDS CollabStream

\* Types.  The buffer keeps to its cap, and a listener knows of no revision that
\* was not committed.  (emit, handleFrame.)
TypeOK ==
  /\ server \in [head : 0 .. MaxHead, there : BOOLEAN, user : BOOLEAN, granted : BOOLEAN]
  /\ link.ws \in {"none", "asked", "up", "down"}
  /\ link.status \in {"disconnected", "connecting", "connected", "reconnecting"}
  /\ link.probe \in {"idle", "asking", "sleeping"}
  /\ link.timers \subseteq {"current", "stale"}
  /\ \A r \in link.requests :
       /\ r.kind \in {"ticket", "probe", "call", "retry"} /\ r.stale \in BOOLEAN
       /\ r.stage \in {"waiting", "sent", "ok", "gone", "failed", "denied", "login"}
  /\ Len(link.buffered) <= BufferCap
  /\ link.known \in 0 .. server.head
  /\ trouble \in 0 .. MaxTrouble

\* How many ways to a socket the connection has: the socket itself, a ticket
\* that will lead to one, a timer that will open one.
Ways(s) ==
  Cardinality({r \in s.requests : r.kind = "ticket" /\ ~r.stale})
    + (IF s.ws # "none" THEN 1 ELSE 0) + (IF s.handle /\ "current" \in s.timers THEN 1 ELSE 0)

Retries(s) ==
  Cardinality({r \in s.requests : r.kind = "retry"}) + (IF s.retryTimer THEN 1 ELSE 0)

\* A connection has exactly one way back, whatever stale timers, late tickets
\* and late refusals arrive: a socket in some stage of its cycle, or, while the
\* user is missing, one look for the user; once closed or denied it has none.
\* (openSocket, scheduleReconnect, disconnect, retryUserSession.)
OneWayUp ==
  /\ Ways(link) = IF Over(link) \/ link.suspended THEN 0 ELSE 1
  /\ link.suspended => Retries(link) = 1
  /\ Over(link) => ~link.handle /\ ~link.retryTimer

\* A request waits for the user only while the connection is suspended, and the
\* probe is at work exactly as long as its request is: nothing is left waiting
\* on a suspension that has ended.  (fetchFn, waitForUserSession, close.)
NobodyWaitsInVain ==
  /\ \A r \in link.requests : r.stage = "waiting" => link.suspended
  /\ link.probe = "asking" <=> \E r \in link.requests : r.kind = "probe"

\* A session that listens to an open socket, with nothing on the way, has been
\* told of every revision and knows that it is connected, however late it came
\* and whatever the buffer let go.  (emit, onEvent.)
SubscriberKnowsHead ==
  (/\ link.on /\ ~link.sessionOver /\ ~link.crowded
   /\ link.status = "connected" /\ link.ws = "up" /\ link.wire = <<>>)
    => link.connected /\ link.known = server.head

\* A session never takes a lost socket for a connected one, except one that
\* began to listen after the loss; a denial is told as such.  (The subscription
\* to the socket's status, suspendForUserSession.)
DropIsTold == link.connected /\ ~link.send => link.blind \/ link.denied

\* Again and again the connection is up, or it is over; a deleted session is
\* reported even if its farewell is lost and the socket sees only refusals.
\* (scheduleReconnect, probeWhileDisconnected, retryUserSession.)
ComesBackOrTells ==
  []<>(\/ Over(link) \/ ~server.user
       \/ server.there /\ (link.status = "connected" \/ ~server.granted)
       \/ ~server.there /\ link.told)
=============================================================================
