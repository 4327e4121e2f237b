------------------------ MODULE MCSplitOperations ------------------------
(* The symmetry of the instance: it has no liveness property.                 *)
EXTENDS ProjectionDoctor, TLC

Symmetric == Permutations(Ops) \cup Permutations(Hosts) \cup Permutations(Shells)
             \cup Permutations(Plans)
==========================================================================
