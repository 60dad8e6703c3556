--------------------------- MODULE MCAiConnections ---------------------------
(* AiConnections on small instances; the .cfg files choose the instance.     *)
EXTENDS AiConnections, TLC

Symmetry == Permutations(Procs) \union Permutations(Ops)
=============================================================================
