----------------------------- MODULE CollabStream -----------------------------
(***************************************************************************)
(* The connection of a shared session to the backend: the stream of events  *)
(* (client/src/collab-connection.ts) over a socket that reconnects for ever *)
(* (client/src/reconnecting-socket.ts).  While the socket is down a probe   *)
(* asks whether the session still exists; a missing user session suspends   *)
(* the connection, which then looks for its return; a denial ends it.       *)
(* Events wait in a buffer for the first listener, a shared session.        *)
(*                                                                          *)
(* The client's state is the record link, on which the methods of the two   *)
(* classes are operators: one callback runs several of them to their end.   *)
(***************************************************************************)
EXTENDS Naturals, Sequences, FiniteSets, SequencesExt

CONSTANTS
  BufferCap,    \* PRE_SUBSCRIBE_BUFFER_CAP
  MaxHead,      \* bound: revisions committed
  Env,          \* bound: which of "drop", "fail", "logout", "revoke", "call", "close" happen
  MaxTrouble    \* bound: how many of them

ASSUME CollabStreamAssumption ==
  /\ BufferCap \in Nat \ {0} /\ MaxHead \in Nat /\ MaxTrouble \in Nat

VARIABLES
  server,   \* the backend: head revision, and whether session, user and grant are there
  link,     \* the connection, its socket, its listener
  trouble   \* bound: what has happened of Env

vars == <<server, link, trouble>>

Event(kind, rev) == [kind |-> kind, rev |-> rev]
Request(kind, stage) == [kind |-> kind, stage |-> stage, stale |-> FALSE]

Over(s) == s.closed \/ s.denied

(***************************************************************************)
(* ReconnectingSocket.  Its callbacks compare the generation they were made *)
(* in with the current one: they are stale, or not.                         *)
(***************************************************************************)
Disconnect(s) ==
  [s EXCEPT !.deliberate = TRUE, !.handle = FALSE, !.retrying = FALSE,
            !.timers = IF @ = {} THEN {} ELSE {"stale"},
            !.requests = {IF r.kind = "ticket" THEN [r EXCEPT !.stale = TRUE] ELSE r : r \in @},
            !.ws = "none", !.wire = <<>>, !.status = "disconnected"]

(***************************************************************************)
(* CollabHttpConnection                                                     *)
(***************************************************************************)
\* Defect: those who wait for the user are forgotten.
CloseForgetsWaiters(s) ==
  IF s.closed THEN s
  ELSE Disconnect(
    [s EXCEPT !.closed = TRUE, !.send = FALSE, !.buffered = <<>>, !.flushed = TRUE,
              !.probe = IF @ = "sleeping" THEN "idle" ELSE @,
              !.suspended = FALSE, !.retryTimer = FALSE, !.on = FALSE])

\* close: requests on their way may finish, those that wait for the user fail.
Close(s) ==
  IF s.closed THEN s
  ELSE LET waiting == {r \in s.requests : r.stage = "waiting"} IN
    Disconnect(
      [s EXCEPT !.closed = TRUE, !.send = FALSE, !.buffered = <<>>, !.flushed = TRUE,
                !.probe = IF @ = "sleeping" \/ \E r \in waiting : r.kind = "probe"
                          THEN "idle" ELSE @,
                !.requests = @ \ waiting,
                !.suspended = FALSE, !.retryTimer = FALSE, !.on = FALSE])

\* What a shared session makes of an event; a deleted session closes the connection.
Heard(s, e) ==
  IF s.sessionOver THEN s ELSE
  CASE e.kind \in {"connected", "op"} ->
         [s EXCEPT !.connected = @ \/ e.kind = "connected",
                   !.blind = @ /\ e.kind # "connected",
                   !.known = IF e.rev > @ THEN e.rev ELSE @]
    [] e.kind = "disconnected" -> [s EXCEPT !.connected = FALSE, !.blind = FALSE]
    [] e.kind = "session-closed" ->
         Close([s EXCEPT !.connected = FALSE, !.blind = FALSE, !.sessionOver = TRUE])
    [] OTHER -> s

\* events, one after the other; FoldLeft in a form the proofs can unfold.
HeardAll(s, events) ==
  LET after[n \in 0 .. Len(events)] == IF n = 0 THEN s ELSE Heard(after[n - 1], events[n])
  IN after[Len(events)]

\* Defect: one event too many is kept.
EvictedLate(events) ==
  LET ops == SelectInSeq(events, LAMBDA e : e.kind = "op") IN
  IF Len(events) <= BufferCap + 1 THEN events
  ELSE RemoveAt(events, IF ops = 0 THEN 1 ELSE ops)

\* Defect: the oldest event goes, whatever it is.
EvictedOldest(events) == IF Len(events) > BufferCap THEN Tail(events) ELSE events

\* Beyond the cap the oldest op goes, and any event only where there is no op.
Evicted(events) ==
  LET ops == SelectInSeq(events, LAMBDA e : e.kind = "op") IN
  IF Len(events) <= BufferCap THEN events
  ELSE RemoveAt(events, IF ops = 0 THEN 1 ELSE ops)

\* emit
Emit(s, e) ==
  LET t == [s EXCEPT !.told = @ \/ e.kind = "session-closed"]
      kept == Evicted(Append(s.buffered, e)) IN
  IF s.on THEN Heard(t, e)
  ELSE IF s.flushed \/ e.kind = "disconnected" THEN t
  ELSE [t EXCEPT !.buffered = kept,
                 !.crowded = @ \/ Cardinality({i \in DOMAIN kept : kept[i].kind # "op"}) = BufferCap]

\* fetchFn: while the connection is suspended a request waits for the user.
Issue(s, kind) ==
  [s EXCEPT !.requests =
     @ \cup {Request(kind, IF s.suspended THEN "waiting" ELSE "sent")}]

Probe(s) == IF s.probe # "idle" THEN s ELSE Issue([s EXCEPT !.probe = "asking"], "probe")

\* Defect: the drop is not surfaced.
StatusIsQuietly(s, status) ==
  LET t == [s EXCEPT !.status = status] IN
  IF s.status = status \/ status # "reconnecting" \/ Over(s) \/ s.suspended THEN t
  ELSE Probe([t EXCEPT !.send = FALSE])

\* The connection subscribes to the status of its socket: a change to
\* reconnecting is a drop, or a connection that did not come about.
StatusIs(s, status) ==
  LET t == [s EXCEPT !.status = status] IN
  IF s.status = status \/ status # "reconnecting" \/ Over(s) \/ s.suspended THEN t
  ELSE Probe(IF s.send THEN Emit([t EXCEPT !.send = FALSE], Event("disconnected", 0)) ELSE t)

ScheduleReconnect(s) ==
  IF s.handle THEN s
  ELSE LET t == StatusIs(s, "reconnecting") IN
    [t EXCEPT !.retrying = TRUE, !.handle = TRUE, !.timers = @ \cup {"current"}]

CreateSocket(s) ==
  IF s.ws # "none" THEN s
  ELSE [StatusIs(s, IF s.retrying THEN "reconnecting" ELSE "connecting")
          EXCEPT !.ws = "asked", !.wire = <<>>]

\* With a token, every socket needs a ticket first.
OpenSocket(s) ==
  IF s.ws # "none" THEN s
  ELSE IF ~s.ticketed THEN CreateSocket(s)
  ELSE Issue(StatusIs(s, IF s.retrying THEN "reconnecting" ELSE "connecting"), "ticket")

Connect(s) == OpenSocket([s EXCEPT !.deliberate = FALSE])

\* suspendForUserSession
Suspend(s) ==
  IF Over(s) \/ s.suspended THEN s
  ELSE LET t == Disconnect([s EXCEPT !.suspended = TRUE, !.send = FALSE, !.retryTimer = TRUE,
                              !.probe = IF @ = "sleeping" THEN "idle" ELSE @]) IN
    Emit(Emit(t, Event("disconnected", 0)), Event("denial", 0))

\* denyAuthorization: every request is aborted, and who waits for the user fails.
Deny(s) ==
  IF s.denied THEN s
  ELSE LET t == Disconnect([s EXCEPT !.denied = TRUE, !.send = FALSE, !.probe = "idle",
                              !.requests = {}, !.suspended = FALSE, !.retryTimer = FALSE]) IN
    IF s.closed THEN t ELSE Emit(t, Event("denial", 0))

\* The user is back: who waited goes on, and the socket connects.
ResumeUserSession(s) ==
  Connect([s EXCEPT !.suspended = FALSE,
             !.requests = {IF r.stage = "waiting" THEN [r EXCEPT !.stage = "sent"] ELSE r : r \in @}])

(***************************************************************************)
(* The backend                                                              *)
(***************************************************************************)
Frame(kind, rev) == [kind |-> kind, rev |-> rev]

Happens(what) == what \in Env /\ trouble < MaxTrouble /\ trouble' = trouble + 1

\* What the backend sends to the socket, if it has one.
Sends(frames, ws) ==
  link' = IF link.ws = "up" THEN [link EXCEPT !.wire = @ \o frames, !.ws = ws] ELSE link

\* A socket is accepted, with the descriptor first, or refused.
Upgrade ==
  /\ link.ws = "asked"
  /\ link' = IF server.there /\ server.user /\ server.granted
             THEN [link EXCEPT !.ws = "up",
                     !.wire = <<Frame("open", 0), Frame("session", server.head)>>]
             ELSE [link EXCEPT !.ws = "down", !.wire = <<Frame("close", 0)>>]
  /\ UNCHANGED <<server, trouble>>

Commit ==
  /\ server.there /\ server.head < MaxHead
  /\ server' = [server EXCEPT !.head = @ + 1]
  /\ Sends(<<Frame("op", server.head + 1)>>, "up")
  /\ UNCHANGED trouble

Drop ==
  /\ Happens("drop")
  /\ link.ws \in {"asked", "up"}
  /\ link' = [link EXCEPT !.ws = "down", !.wire = <<Frame("close", 0)>>]
  /\ UNCHANGED server

\* The broadcast of a deletion is best effort.
Delete ==
  /\ server.there
  /\ server' = [server EXCEPT !.there = FALSE]
  /\ \E told \in {<<>>, <<Frame("session_closed", 0)>>} : Sends(told \o <<Frame("close", 0)>>, "down")
  /\ UNCHANGED trouble

LogOut ==
  /\ Happens("logout") /\ server.user
  /\ server' = [server EXCEPT !.user = FALSE]
  /\ Sends(<<Frame("close-login", 0)>>, "down")

LogIn ==
  /\ ~server.user
  /\ server' = [server EXCEPT !.user = TRUE]
  /\ UNCHANGED <<link, trouble>>

Revoke ==
  /\ Happens("revoke") /\ server.granted
  /\ server' = [server EXCEPT !.granted = FALSE]
  /\ Sends(<<Frame("close-revoked", 0)>>, "down")

\* A ticket is not for one session.
Verdict(r) ==
  IF ~server.user THEN "login"
  ELSE IF ~server.granted THEN "denied"
  ELSE IF ~server.there /\ r.kind # "ticket" THEN "gone"
  ELSE "ok"

Answers(r, answer) ==
  link' = [link EXCEPT !.requests = (@ \ {r}) \cup {[r EXCEPT !.stage = answer]}]

Serve(r) ==
  /\ r \in link.requests /\ r.stage = "sent"
  /\ Answers(r, Verdict(r))
  /\ UNCHANGED <<server, trouble>>

Fail(r) ==
  /\ r \in link.requests /\ r.stage = "sent"
  /\ Happens("fail")
  /\ Answers(r, "failed")
  /\ UNCHANGED server

(***************************************************************************)
(* The socket's callbacks                                                   *)
(***************************************************************************)
Client(s) == link' = s /\ UNCHANGED <<server, trouble>>

\* The head of the wire is read; frames of another socket are none's.
Reads(kinds) == link.wire # <<>> /\ Head(link.wire).kind \in kinds
Rest == [link EXCEPT !.wire = Tail(@)]

\* onopen
Opened ==
  /\ Reads({"open"})
  /\ Client(StatusIs([Rest EXCEPT !.send = TRUE, !.retrying = FALSE], "connected"))

\* onmessage: handleFrame
Received ==
  /\ Reads({"session", "op", "session_closed"})
  /\ LET m == Head(link.wire)
         kind == CASE m.kind = "session" -> "connected" [] m.kind = "op" -> "op"
                   [] OTHER -> "session-closed" IN
       Client(IF Over(link) THEN Rest ELSE Emit(Rest, Event(kind, m.rev)))

\* onclose: the reason may suspend or deny, otherwise the socket is reopened.
Closed ==
  /\ Reads({"close", "close-login", "close-revoked"})
  /\ LET s == [Rest EXCEPT !.ws = "none"]
         t == CASE Head(link.wire).kind = "close-login" -> Suspend(s)
                [] Head(link.wire).kind = "close-revoked" -> Deny(s)
                [] OTHER -> s IN
       Client(IF t.deliberate THEN t ELSE ScheduleReconnect(t))

\* Defect: a callback of an older generation goes on.
ReconnectTimerStale(age) ==
  /\ age \in link.timers
  /\ LET s == [link EXCEPT !.timers = @ \ {age}] IN
       Client(IF s.deliberate THEN s ELSE OpenSocket([s EXCEPT !.handle = FALSE]))

\* Cancelling a timer is best effort: its callback may come all the same.
ReconnectTimer(age) ==
  /\ age \in link.timers
  /\ LET s == [link EXCEPT !.timers = @ \ {age}] IN
       Client(IF age = "stale" \/ s.deliberate THEN s ELSE OpenSocket([s EXCEPT !.handle = FALSE]))

(***************************************************************************)
(* The connection's requests                                                *)
(***************************************************************************)
Arrives(r, kinds, answers) == r \in link.requests /\ r.kind \in kinds /\ r.stage \in answers
Without(r) == [link EXCEPT !.requests = @ \ {r}]

\* The promise of the URL fails, and so does that of whoever waits for it.
TicketFails(s, r) == IF ~r.stale /\ ~s.deliberate THEN ScheduleReconnect(s) ELSE s

\* fetchFn: a request that needs the user suspends the connection, waits and
\* is sent again; if the connection is over by then, it fails.
NeedsUser(r) ==
  /\ Arrives(r, {"ticket", "probe", "call"}, {"login"})
  /\ LET s == Suspend(Without(r)) IN
       Client(IF s.suspended
              THEN [s EXCEPT !.requests =
                      @ \cup {[r EXCEPT !.stage = "waiting", !.stale = r.kind = "ticket"]}]
              ELSE IF r.kind = "probe" THEN [s EXCEPT !.probe = "idle"]
              ELSE s)

TicketArrives(r) ==
  /\ Arrives(r, {"ticket"}, {"ok", "failed", "denied"})
  /\ LET s == Without(r) IN
       Client(CASE r.stage = "denied" -> Deny(s)
                [] r.stage = "failed" -> TicketFails(s, r)
                [] OTHER -> IF ~r.stale /\ ~s.deliberate THEN CreateSocket(s) ELSE s)

\* The probe stands down, reports that the session is gone, or sleeps.
ProbeArrives(r) ==
  /\ Arrives(r, {"probe"}, {"ok", "gone", "failed", "denied"})
  /\ LET s == Without(r) IN
       Client(IF r.stage = "denied" THEN [Deny(s) EXCEPT !.probe = "idle"]
              ELSE IF Over(s) \/ s.status = "connected" THEN [s EXCEPT !.probe = "idle"]
              ELSE IF r.stage = "gone"
                   THEN [Emit(s, Event("session-closed", 0)) EXCEPT !.probe = "idle"]
              ELSE [s EXCEPT !.probe = "sleeping"])

\* Defect: whoever sleeps once sleeps for good.
ProbeWakesOnce ==
  /\ link.probe = "sleeping"
  /\ Client([link EXCEPT !.probe = "idle"])

ProbeWakes ==
  /\ link.probe = "sleeping"
  /\ Client(IF Over(link) \/ link.suspended \/ link.status = "connected"
            THEN [link EXCEPT !.probe = "idle"]
            ELSE Issue([link EXCEPT !.probe = "asking"], "probe"))

\* A call of the session; only a refused post leaves the connection alone.
Call ==
  /\ Happens("call") /\ ~Over(link)
  /\ \A r \in link.requests : r.kind # "call"
  /\ link' = Issue(link, "call")
  /\ UNCHANGED server

CallArrives(r) ==
  /\ Arrives(r, {"call"}, {"ok", "gone", "failed", "denied"})
  /\ \/ Client(Without(r))
     \/ r.stage = "denied" /\ Client(Deny(Without(r)))

RetryTimer ==
  /\ link.retryTimer
  /\ Client([link EXCEPT !.retryTimer = FALSE,
               !.requests = @ \cup {Request("retry", "sent")}])

\* retryUserSession, after its request.
RetryArrives(r) ==
  /\ Arrives(r, {"retry"}, {"ok", "gone", "failed", "denied", "login"})
  /\ LET s == Without(r) IN
       Client(IF ~s.suspended THEN s ELSE
              CASE r.stage = "denied" -> Deny(s)
                [] r.stage \in {"login", "failed"} -> [s EXCEPT !.retryTimer = TRUE]
                [] r.stage = "gone" -> Close(Emit(s, Event("session-closed", 0)))
                [] OTHER -> ResumeUserSession(s))

(***************************************************************************)
(* The listener                                                             *)
(***************************************************************************)
\* onEvent of the first listener: what came before it is delivered in order.
Subscribe ==
  /\ ~link.on /\ ~link.flushed
  /\ LET s == HeardAll([link EXCEPT !.on = TRUE, !.buffered = <<>>, !.flushed = TRUE],
                       link.buffered) IN
       Client([s EXCEPT !.blind = s.connected /\ ~s.send])

CloseConnection ==
  /\ Happens("close") /\ ~link.closed
  /\ link' = [Close(link) EXCEPT !.sessionOver = TRUE, !.connected = FALSE, !.blind = FALSE]
  /\ UNCHANGED server

Init ==
  /\ server = [head |-> 0, there |-> TRUE, user |-> TRUE, granted |-> TRUE]
  /\ \E ticketed \in BOOLEAN :
       link = Connect(
         [ticketed |-> ticketed,
          ws |-> "none", wire |-> <<>>, status |-> "disconnected", handle |-> FALSE,
          retrying |-> FALSE, deliberate |-> TRUE, timers |-> {},
          closed |-> FALSE, denied |-> FALSE, suspended |-> FALSE, retryTimer |-> FALSE,
          send |-> FALSE, probe |-> "idle", requests |-> {},
          buffered |-> <<>>, flushed |-> FALSE, on |-> FALSE,
          known |-> 0, connected |-> FALSE, sessionOver |-> FALSE,
          told |-> FALSE, blind |-> FALSE, crowded |-> FALSE])
  /\ trouble = 0

Arrival(r) ==
  \/ NeedsUser(r) \/ TicketArrives(r) \/ ProbeArrives(r) \/ CallArrives(r) \/ RetryArrives(r)

Backend == Commit \/ Drop \/ Delete \/ LogOut \/ LogIn \/ Revoke

Next ==
  \/ Backend \/ Upgrade \/ Opened \/ Received \/ Closed
  \/ \E age \in link.timers : ReconnectTimer(age)
  \/ \E r \in link.requests : Serve(r) \/ Fail(r) \/ Arrival(r)
  \/ ProbeWakes \/ RetryTimer \/ Call \/ Subscribe \/ CloseConnection

\* The network and the timers go on.
Fairness ==
  /\ WF_vars(Upgrade \/ Opened \/ Received \/ Closed)
  /\ WF_vars(\E age \in link.timers : ReconnectTimer(age))
  /\ \A kind \in {"ticket", "probe", "retry"} :
       WF_vars(\E r \in link.requests : r.kind = kind /\ (Serve(r) \/ Arrival(r)))
  /\ WF_vars(ProbeWakes) /\ WF_vars(RetryTimer)

Spec == Init /\ [][Next]_vars
FairSpec == Spec /\ Fairness
=============================================================================
