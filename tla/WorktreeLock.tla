---------------------------- MODULE WorktreeLock ----------------------------
(***************************************************************************)
(* What the attempt leases promise: a lock on every worktree.  A resource  *)
(* is held by one attempt at a time, an attempt is granted a resource once *)
(* in its life, and what it holds never changes until it is taken away.    *)
(* One step may take several holders' locks away and grant one, as a claim *)
(* that reaps does.                                                        *)
(***************************************************************************)
CONSTANTS Attempt, Resource

VARIABLES
  held,     \* pairs <<attempt, resource>>
  spent     \* the attempts that were ever granted a resource

LockInit == held = {} /\ spent = {}

TakeAway(R) ==
  /\ held' = held \ R
  /\ spent' = spent

Grant(R, x, r) ==
  /\ x \notin spent
  /\ \A h \in held \ R : h[2] # r
  /\ held' = (held \ R) \cup {<<x, r>>}
  /\ spent' = spent \cup {x}

LockNext ==
  \E R \in SUBSET held :
    \/ TakeAway(R)
    \/ \E x \in Attempt, r \in Resource : Grant(R, x, r)

LockSpec == LockInit /\ [][LockNext]_<<held, spent>>
=============================================================================
