-------------------------------- MODULE Lists --------------------------------
(***************************************************************************)
(* What the components do to their lists: a comprehension with a filter,   *)
(* and the slice of the newest.                                            *)
(***************************************************************************)
EXTENDS Integers, Sequences, FiniteSets

\* [x for x in q if ...]: what stands at these places, in their order.
Filtered(q, places) ==
    [k \in 1 .. Cardinality(places) |->
        q[CHOOSE j \in places : Cardinality({i \in places : i <= j}) = k]]

\* q[-n:]
Newest(q, n) == IF Len(q) <= n THEN q ELSE SubSeq(q, Len(q) - n + 1, Len(q))
=============================================================================
