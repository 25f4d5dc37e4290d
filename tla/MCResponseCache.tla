--------------------------- MODULE MCResponseCache ---------------------------
(***************************************************************************)
(* Two requests at a time, of one process or of two.                       *)
(***************************************************************************)
EXTENDS ResponseCache, TLC

\* Two rows of cacheInvalidationTargets: item writes reach the saved searches,
\* writes of searches reach no items.
MCTargets == [n \in Namespaces |-> IF n = "items" THEN {"items", "searches"} ELSE {n}]

Symmetric == Permutations(Slots)
=============================================================================
