------------------------------ MODULE CollabLog ------------------------------
(***************************************************************************)
(* What the collaboration of sessions over one ordered log promises, with   *)
(* no transport, no retries and no rebasing: intentions are issued, some    *)
(* are committed, each at most once and in the order of their actor, and    *)
(* every session holds the document of some prefix of the one history.      *)
(* SharedSession implements it (SharedSessionRefinement).                   *)
(***************************************************************************)
EXTENDS Naturals, Sequences

CONSTANTS
  Actors,
  Docs, InitialDoc,  \* documents, and the one at revision 0
  Outsider           \* stands for everybody who is not in Actors

VARIABLES
  history,  \* committed intentions: actor, number, and the document after it
  issued,   \* how many intentions each actor has issued
  open,     \* the numbers each session still holds as unacknowledged
  told,     \* the numbers each session has reported as committed
  seen,     \* the prefix of the history each session holds
  copy      \* the document each session holds for that prefix

vars == <<history, issued, open, told, seen, copy>>

DocAfter(r) == IF r = 0 THEN InitialDoc ELSE history[r].doc

\* The intentions of a in the first r entries of the history.
Committed(a, r) == {history[i].n : i \in {j \in 1 .. r : history[j].actor = a}}

Init ==
  /\ history = <<>>
  /\ issued = [a \in Actors |-> 0]
  /\ open = [a \in Actors |-> {}] /\ told = [a \in Actors |-> {}]
  /\ seen = [a \in Actors |-> 0] /\ copy = [a \in Actors |-> InitialDoc]

Issue(a) ==
  /\ issued' = [issued EXCEPT ![a] = @ + 1]
  /\ open' = [open EXCEPT ![a] = @ \cup {issued[a] + 1}]
  /\ UNCHANGED <<history, told, seen, copy>>

\* A commit never overtakes a later intention of its actor, so it is also
\* never repeated.
Commit(a, n, d) ==
  /\ n \in 1 .. issued[a]
  /\ \A m \in Committed(a, Len(history)) : m < n
  /\ history' = Append(history, [actor |-> a, n |-> n, doc |-> d])
  /\ UNCHANGED <<issued, open, told, seen, copy>>

OutsideCommit(d) ==
  /\ \E n \in 1 .. Len(history) + 1 :
       history' = Append(history, [actor |-> Outsider, n |-> n, doc |-> d])
  /\ UNCHANGED <<issued, open, told, seen, copy>>

\* A session moves to the prefix r.  What it keeps open is not in that
\* prefix, and what it reports as committed is.
See(a, r) ==
  /\ seen' = [seen EXCEPT ![a] = r]
  /\ copy' = [copy EXCEPT ![a] = DocAfter(r)]
  /\ \E o \in SUBSET (open[a] \ Committed(a, r)) : open' = [open EXCEPT ![a] = o]
  /\ \E t \in SUBSET (open[a] \cap Committed(a, r)) :
       told' = [told EXCEPT ![a] = @ \cup t]
  /\ UNCHANGED <<history, issued>>

Next ==
  \/ \E a \in Actors :
       \/ Issue(a)
       \/ \E n \in 1 .. issued[a], d \in Docs : Commit(a, n, d)
       \/ \E r \in 0 .. Len(history) : See(a, r)
  \/ \E d \in Docs : OutsideCommit(d)

Spec == Init /\ [][Next]_vars
=============================================================================
