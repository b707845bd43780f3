------------------------ MODULE ExecutionsProperties ------------------------
(***************************************************************************)
(* What a window may believe of the runs it follows, through lost and late  *)
(* events, reads of jobs that race them, and an evicting store.             *)
(***************************************************************************)
EXTENDS Executions, FiniteSets

Statuses == {"absent", "queued", "running"} \cup Terminal
Nodes == {"none", "running", "done"}
Kinds == {"started", "nodeStates", "snapshot", "output", "run_finished", "register"} \cup Terminal
States == {"none", "queued", "running", "finished", "completed", "failed", "cancelled"}
Message == [job : Jobs, kind : Kinds, node : Nodes]
Entry == [status : Statuses, node : Nodes, hydrated : BOOLEAN, artifact : BOOLEAN]
Store == [order : Seq(Jobs), entry : [Jobs -> Entry], lost : SUBSET Jobs,
          unconfirmed : SUBSET Jobs, tombs : Seq(Jobs), pins : SUBSET Jobs,
          plans : SUBSET Jobs, advanced : SUBSET Jobs]
Answer == [kind : {"none", "record", "missing", "failed"}, state : States, node : Nodes]

\* Types.  A pass that is at work has a run to ask for.
TypeOK ==
  /\ server \in [Jobs -> [state : States, node : Nodes]]
  /\ forgotten \in SUBSET Jobs /\ post \in [Jobs -> {"none", "sent", "answered"}]
  /\ socket \in {"up", "down"} /\ wire \in Seq(Message) /\ echo \in Seq(Message)
  /\ terminalJobs \in SUBSET Jobs /\ store \in Store
  /\ rec \in [stage : {"idle", "asked", "answered"}, open : Seq(Jobs),
              answer : Answer, current : BOOLEAN]
  /\ (rec.stage = "idle") <=> (rec.open = <<>>)
  /\ hydrating \in SUBSET Jobs /\ trouble \in 0 .. MaxTrouble /\ missed \in SUBSET Jobs /\ due \in SUBSET Jobs

\* How a run ended, or none; run_finished is the end of a run that succeeds.
Outcome(j) == IF server[j].state = "finished" THEN "completed" ELSE StatusOf(server[j].state)

\* A run is shown as completed, failed or cancelled only if that is how it
\* ended, and with artifacts only once they were persisted: nothing late, lost,
\* replayed or guessed passes for an observed end.
VerdictIsTrue ==
  \A j \in Jobs :
    /\ Authoritative(store, j) => store.entry[j].status = Outcome(j)
    /\ store.entry[j].hydrated => server[j].state = "completed"

\* An observed end is never taken back as long as the store has the run.
TerminalIsFinal ==
  [][\A j \in Jobs :
       Authoritative(store, j) /\ Has(store', j) =>
         Authoritative(store', j) /\ store'.entry[j].status = store.entry[j].status]_vars

\* The sets beside the map of executions follow it through eviction,
\* registration and revival: a verdict of loss belongs to an interrupted run,
\* and a run the store has is not on the list of those it evicted.
SideSetsFollowMap ==
  LET keys == {j \in Jobs : Has(store, j)} IN
  /\ ToSet(store.order) = keys /\ Len(store.order) = Cardinality(keys)
  /\ \A j \in store.lost : store.entry[j].status = "interrupted"
  /\ store.unconfirmed \subseteq keys /\ store.pins \subseteq keys
  /\ ToSet(store.tombs) \cap keys = {} /\ Len(store.tombs) <= TombCap

\* The store exceeds its cap only by runs it protects.
OverCapOnlyProtected ==
  Len(store.order) > Cap => \A j \in Jobs : Has(store, j) => ~Evictable(store, j)

\* A run is newly given up for lost only if the backend did not have it at
\* some moment since the socket last connected: what was asked before says
\* nothing about the backend now.
LossIsCurrent ==
  [][\A j \in store'.lost \ store.lost : j \in missed']_vars

\* A fetched record never takes a node back that live events have ended.
ReadsNeverRegress ==
  [][wire' = wire /\ echo' = echo =>
       \A j \in Jobs : store.entry[j].node = "done" /\ Has(store', j) =>
                         store'.entry[j].node = "done"]_vars

\* Everything that was on its way has arrived.
Quiet == socket = "up" /\ wire = <<>> /\ rec.stage = "idle" /\ hydrating = {}
Over(j) == j \notin forgotten /\ server[j].state \in {"completed", "failed", "cancelled"}

\* A run that was open when the socket connected and has ended is settled when
\* all is quiet, whatever of its events was lost and however many passes were
\* superseded; only a job whose current read failed is excepted.
NothingLeftOpen == Quiet => \A j \in due : Over(j) => ~IsOpen(store, j)

\* A plan waits for a run that may still complete, is applied once, only to a
\* run that completed, and to every run of this window that is seen to.
PlansFollowRuns ==
  /\ store.plans \cap store.advanced = {}
  /\ \A j \in store.plans : Has(store, j) /\ ~Authoritative(store, j)
  /\ \A j \in store.advanced : Outcome(j) = "completed"
  /\ \A j \in Own : post[j] = "answered" /\ store.entry[j].status = "completed" => j \in store.advanced
=============================================================================
