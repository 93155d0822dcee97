------------------------- MODULE MCReliableDelivery -------------------------
(***************************************************************************)
(* Model-checking instances of ReliableDelivery. Nodes are symmetric only  *)
(* where every node sends and accepts connections.                         *)
(***************************************************************************)
EXTENDS ReliableDelivery, TLC

Symmetry == Permutations(Callers) \cup Permutations(Conns) \cup Permutations(Ids)
SymmetryNodes == Symmetry \cup Permutations(Nodes)
=============================================================================
