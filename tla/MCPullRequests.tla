--------------------------- MODULE MCPullRequests ---------------------------
(***************************************************************************)
(* Two tasks and two branches; one host with a database of its own and one *)
(* that opens the control plane's.  The initial state chooses the commands *)
(* on the control plane, and with them the budgets.                        *)
(***************************************************************************)
EXTENDS PullRequests, TLC

CONSTANTS t1, t2, b1, b2, c1, c2, p1, p2, h1, h2, local

SmallBranchOf == t1 :> b1 @@ t2 :> b2
SmallDbOf == h1 :> local @@ h2 :> Server

Mix(p, w, c, g, f) ==
  [publish |-> p, write |-> w, check |-> c, github |-> g, fault |-> f]
Symmetry == Permutations({c1, c2}) \cup Permutations({p1, p2})

Commands == {"link", "branch", "plan"}
WriterBudgets == {Mix(1, 0, 3, 4, 0), Mix(2, 0, 0, 1, 1), Mix(2, 1, 0, 2, 0), Mix(1, 2, 0, 1, 0)}
ReconcileBudgets == {Mix(2, 1, 0, 1, 0)}
MixedBudgets == {Mix(1, 2, 0, 1, 0)}
SmallBudgets == WriterBudgets \cup ReconcileBudgets \cup MixedBudgets

VARIABLE kinds   \* the commands in use on the control plane

mcVars == <<prVars, kinds>>

MCInit ==
  /\ PrInit
  /\ \/ kinds = Commands /\ left \in WriterBudgets
     \/ kinds = {"reconcile"} /\ left \in ReconcileBudgets
     \/ kinds = {"link", "reconcile"} /\ left \in MixedBudgets

MCNext ==
  /\ PrNext
  /\ \A w \in Writers : IF wr'[w] = Unset THEN TRUE ELSE wr'[w].kind \in kinds
  /\ \A k \in Checkers : IF chk'[k] = Unset THEN TRUE ELSE chk'[k].task = t1
  /\ UNCHANGED kinds

MCSpec == MCInit /\ [][MCNext]_mcVars
=============================================================================
