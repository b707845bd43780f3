--------------------------- MODULE MCSharedSession ---------------------------
(***************************************************************************)
(* Small instances of SharedSession for TLC.                                *)
(***************************************************************************)
EXTENDS SharedSessionRefinement

CONSTANTS a, b,       \* actors
          k1, k2,     \* keys
          v1, v2      \* values

\* A write of v wherever the key stands, an edit that needs the key, a
\* removal, and a step to the other value that repeats into a new change.
Put(k, v)  == [key |-> k, needs |-> FALSE, write |-> [x \in Val |-> v]]
Edit(k, v) == [key |-> k, needs |-> TRUE, write |-> [x \in Val |-> v]]
Drop(k)    == [key |-> k, needs |-> TRUE, write |-> [x \in Val |-> Absent]]
Flip(k)    == [key |-> k, needs |-> TRUE,
               write |-> [x \in Val |-> IF x = v1 THEN v2 ELSE v1]]

OneKey   == {k1}
TwoKeys  == {k1, k2}
OneDoc   == [k \in OneKey |-> v1]
TwoDoc   == [k \in TwoKeys |-> v1]

FlipAndDrop == {Flip(k1), Drop(k1)}
FlipAndPut  == {Flip(k1), Put(k1, v1)}
Mixed       == {Flip(k1), Edit(k2, v2)}
=============================================================================
