------------------------- MODULE MCPendingDelivery -------------------------
(***************************************************************************)
(* Model-checking instances of PendingDelivery: ids and calls are          *)
(* interchangeable.                                                        *)
(***************************************************************************)
EXTENDS PendingDelivery, TLC

Symmetry == Permutations(Callers) \cup Permutations(Ids)

\* Bound: one id is emitted again and again while time passes, or several are
\* emitted once each while it stands still and before any of them is tried.
\* The cap is about several ids, the other races are about one.
OneInDepth ==
    LET emitted == {i \in Ids : emits[i] > 0} IN
    /\ \A c \in Callers : call[c].todo \subseteq emitted
    /\ Cardinality(emitted) > 1 =>
         now = 0 /\ \A i \in emitted : emits[i] = 1 /\ recorded[i] = 0
=============================================================================
