------------------------ MODULE MCChannelProvisioning ------------------------
(* Every request is one workspace's. *)
EXTENDS ChannelProvisioning, TLC

CONSTANTS w1, w2

SmallBudgets ==
  {[faults |-> 0, ops |-> 3, commands |-> 0],
   [faults |-> 1, ops |-> 1, commands |-> 1],
   [faults |-> 2, ops |-> 0, commands |-> 1],
   [faults |-> 1, ops |-> 0, commands |-> 2]}

OneWorkspace == [r \in Requests |-> w1]
=============================================================================
