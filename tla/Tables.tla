------------------------------- MODULE Tables -------------------------------
(***************************************************************************)
(* What the components do with their tables and that the libraries have no *)
(* operator for which proofs can look into.                                *)
(***************************************************************************)
EXTENDS Integers, Sequences, FiniteSets, FiniteSetsExt

\* The elements at these places, in their order: what is left of a vector once
\* a loop has erased the others.
Keep(s, places) ==
    LET kept[n \in 0..Len(s)] ==
            IF n = 0 THEN <<>>
            ELSE IF n \in places THEN Append(kept[n - 1], s[n]) ELSE kept[n - 1]
    IN  kept[Len(s)]

\* The sum of a weight over a set.
SumOver(weight, S) == MapThenSumSet(LAMBDA x : weight[x], S)
=============================================================================
