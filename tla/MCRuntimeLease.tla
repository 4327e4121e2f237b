--------------------------- MODULE MCRuntimeLease ---------------------------
(* Instances of RuntimeLease for TLC. *)
EXTENDS RuntimeLease, TLC

CONSTANT a1

MCCapacity == [a \in Agents |-> IF a = a1 THEN 2 ELSE 1]
MCCapacityOne == [a \in Agents |-> 1]

\* The hosts of the safety instance are alike; the liveness instance has one.
HostSymmetry == Permutations(Hosts)
=============================================================================
