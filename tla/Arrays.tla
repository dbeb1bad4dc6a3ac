------------------------------- MODULE Arrays -------------------------------
(***************************************************************************)
(* JavaScript's Array.prototype.filter, which the plugin SDK and the pages *)
(* of the web application use on the lists they keep.                      *)
(***************************************************************************)
EXTENDS Naturals, FiniteSets

\* Where the entry at index k ends up: behind those kept before it.
Place(kept, k) == Cardinality({j \in kept : j <= k})

\* The entries at the indices kept, in their order.
Filter(entries, kept) ==
    [i \in 1..Cardinality(kept) |-> entries[CHOOSE k \in kept : Place(kept, k) = i]]
=============================================================================
