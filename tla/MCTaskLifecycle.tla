--------------------------- MODULE MCTaskLifecycle ---------------------------
(* One task's plan gate and its transitions.  The commands of both write   *)
(* to the same event log, under different keys, and never read each        *)
(* other's events, so each initial state leaves the budget to one of them. *)
EXTENDS Transitions, PlanGate, TLC

CONSTANTS a1, a2

Asked(op, a) == [op |-> op, who |-> a, hint |-> None]
MCRequests ==
  {Asked("accept", a2), Asked("handoff", a2), Asked("blocker", a1), Asked("unblock", a1),
   Asked("closeout", a1), Asked("approve", a2), Asked("reject", a2),
   Asked("mark-done", a1), [op |-> "mark-done", who |-> a1, hint |-> "m1"]}
MCItems ==
  {[status |-> "doing", wf |-> "closeout_requested", owner |-> a1, approved |-> FALSE]}
NoLoad == [run |-> 0, fault |-> 0]
MCLoads == {NoLoad, [run |-> 3, fault |-> 1], [run |-> 4, fault |-> 0]}

Mix(e, r, d, h, b) == [edit |-> e, revise |-> r, decide |-> d, handoff |-> h, brief |-> b]
NoBudget == Mix(0, 0, 0, 0, 0)
MCBudgets == {NoBudget, Mix(2, 3, 2, 1, 0), Mix(1, 2, 3, 1, 0), Mix(1, 1, 3, 2, 0),
              Mix(0, 0, 4, 1, 0), Mix(1, 2, 1, 1, 3)}

MCInit == Init /\ TInit /\ (left = NoBudget) # (load = NoLoad)
MCNext ==
  \/ EditPlan /\ UNCHANGED tvars
  \/ \E s \in Shells :
       \/ ReviseRead(s) /\ UNCHANGED tvars
       \/ ReviseWrite(s) /\ UNCHANGED tvars
       \/ RequestReview(s) /\ UNCHANGED tvars
       \/ ApproveRead(s) /\ UNCHANGED tvars
       \/ ApproveWrite(s) /\ UNCHANGED tvars
       \/ RejectRead(s) /\ UNCHANGED tvars
       \/ RejectWrite(s) /\ UNCHANGED tvars
       \/ HandoffGate(s) /\ UNCHANGED tvars
       \/ HandoffPlan(s) /\ UNCHANGED tvars
       \/ HandoffWrite(s) /\ UNCHANGED tvars
       \/ BriefRead(s) /\ UNCHANGED tvars
       \/ BriefWrite(s) /\ UNCHANGED tvars
       \/ Abandon(s) /\ UNCHANGED tvars
  \/ \E s \in Callers :
       \/ \E r \in Requests : Ask(s, r) /\ UNCHANGED vars
       \/ Gate(s) /\ UNCHANGED vars
       \/ ScriptRead(s) /\ UNCHANGED vars
       \/ ScriptRefuses(s) /\ UNCHANGED vars
       \/ ScriptWrite(s) /\ UNCHANGED vars
       \/ ScriptDies(s) /\ UNCHANGED vars
       \/ Record(s) /\ UNCHANGED vars
       \/ SyncRead(s) /\ UNCHANGED vars
       \/ SyncWrite(s) /\ UNCHANGED vars
       \/ Die(s) /\ UNCHANGED vars
MCSpec == MCInit /\ [][MCNext]_<<vars, tvars>>
Symmetry == Permutations(Shells) \cup Permutations(Callers) \cup Permutations(Scopes)
              \cup Permutations(Plans)
=============================================================================
