----------------------------- MODULE Transitions -----------------------------
(***************************************************************************)
(* The assignment commands on one checklist item: accept, handoff,         *)
(* blocker, unblock, closeout, review-result and mark-done.  Each one      *)
(* looks for the event of an earlier run under its idempotency hint, runs  *)
(* the harness script, records what the script said, and after a new       *)
(* success copies the item to the task's mirror.  The script reads and     *)
(* replaces the checklist without a lock, and a command may die anywhere.  *)
(***************************************************************************)
EXTENDS Naturals, FiniteSets

CONSTANTS
  Callers,       \* where operators and agents run the commands
  Agents,        \* owners, targets, actors and reviewers
  Requests,      \* the commands that are asked for
  InitialItems,  \* the item when the first command starts
  None,
  Loads          \* bounds: how many commands run and how many of them fail

Statuses == {"todo", "doing", "blocked", "done"}
Workflows == {"assigned", "running", "handoff_requested", "blocked", "unblocked",
              "closeout_requested", "review_approved", "changes_requested", "closed"}
(* approved: review.decision is approved and review.phase says of a        *)
(* closeout request.                                                       *)
Items == [status : Statuses, wf : Workflows, owner : Agents \cup {None},
          approved : BOOLEAN]

(* No script leaves an item closed but not done. *)
ClosedIsDone(i) == i.wf = "closed" => i.status = "done"

Operations == {"accept", "handoff", "blocker", "unblock", "closeout", "approve",
               "reject", "mark-done"}
(* hint: --idempotency-hint, or the message that reported the task done.   *)
AllRequests == [op : Operations, who : Agents, hint : STRING \cup {None}]
Load == [run : Nat, fault : Nat]

ASSUME TransitionsAssumption ==
  /\ None \notin Agents /\ Requests \subseteq AllRequests
  /\ InitialItems \subseteq Items /\ Loads \subseteq Load
  /\ \A i \in InitialItems : ClosedIsDone(i)

VARIABLES
  item,     \* the item in the checklist file
  ledger,   \* the events the commands recorded
  mirror,   \* the item as the task mirror has it
  shell,    \* local variables of the command a shell runs
  load,     \* commands and failures that may still happen
  took,     \* hints and operations whose script changed the item (history)
  doubtful  \* hints with overlapping runs, or one cut off from its record (history)

tvars == <<item, ledger, mirror, shell, load, took, doubtful>>

Vacant == [pc |-> "idle"]

(* hint: the one that was given, or the command's own words.  Closeout and *)
(* review put a fingerprint of all their inputs there.                     *)
Hint(r) == IF r.hint = None THEN <<r.op, r.who>> ELSE <<r.hint>>

TInit ==
  /\ item \in InitialItems /\ mirror = item
  /\ ledger = {} /\ took = {} /\ doubtful = {}
  /\ shell = [s \in Callers |-> Vacant] /\ load \in Loads

------------------------------------------------------------------------------
(* What a script makes of the item it read; {} when it refuses.            *)

Accepted(i, a) ==
  IF i.status \in {"done", "blocked"} \/ i.owner \notin {a, None} THEN {}
  ELSE {[i EXCEPT !.status = "doing", !.wf = "running", !.owner = a]}
HandedOff(i) == {[i EXCEPT !.status = "todo", !.wf = "handoff_requested", !.owner = None]}
Blocked(i) == {[i EXCEPT !.status = "blocked", !.wf = "blocked", !.owner = None]}
Unblocked(i) ==
  IF i.status # "blocked" THEN {}
  ELSE {[i EXCEPT !.status = "todo", !.wf = "unblocked", !.approved = FALSE]}
CloseoutAsked(i) == {[i EXCEPT !.wf = "closeout_requested", !.approved = FALSE]}
(* review.phase is the workflow status the reviewer found.                 *)
ReviewPassed(i) ==
  {[i EXCEPT !.wf = "review_approved", !.approved = i.wf = "closeout_requested"]}
ReviewFailed(i) == {[i EXCEPT !.wf = "changes_requested", !.approved = FALSE]}
(* A done item is left as it is, and the script exits with 0.              *)
Closed(i) ==
  IF i.status = "done" THEN {i}
  ELSE IF ~i.approved THEN {}
  ELSE {[i EXCEPT !.status = "done", !.wf = "closed", !.owner = None]}

Outcome(r, i) ==
  CASE r.op = "accept" -> Accepted(i, r.who)
    [] r.op = "handoff" -> HandedOff(i)
    [] r.op = "blocker" -> Blocked(i)
    [] r.op = "unblock" -> Unblocked(i)
    [] r.op = "closeout" -> CloseoutAsked(i)
    [] r.op = "approve" -> ReviewPassed(i)
    [] r.op = "reject" -> ReviewFailed(i)
    [] r.op = "mark-done" -> Closed(i)

------------------------------------------------------------------------------
(* The command around the script.                                          *)

Goto(s, rec) == shell' = [shell EXCEPT ![s] = rec]
At(s, pc) == shell[s].pc = pc
Goes(s, pc) == Goto(s, [shell[s] EXCEPT !.pc = pc])
Fault == load.fault > 0 /\ load' = [load EXCEPT !.fault = @ - 1]
Doubt(s) == doubtful' = doubtful \cup {Hint(shell[s].req)}

(* The success key has the operation in it, the failed key only the hint.  *)
Answered(r) == \E e \in ledger : e.hint = Hint(r) /\ (e.ok => e.op = r.op)

Gated(r) == r.op = "mark-done"

(* A hint that was answered gets the stored event, and nothing is run.     *)
Ask(s, r) ==
  /\ At(s, "idle") /\ ~Answered(r)
  /\ load.run > 0 /\ load' = [load EXCEPT !.run = @ - 1]
  /\ Goto(s, [pc |-> IF Gated(r) THEN "gate" ELSE "script", req |-> r, read |-> None,
              alone |-> TRUE])
  /\ doubtful' = IF \E t \in Callers : IF At(t, "idle") THEN FALSE
                                       ELSE Hint(shell[t].req) = Hint(r)
                  THEN doubtful \cup {Hint(r)} ELSE doubtful
  /\ UNCHANGED <<item, ledger, mirror, took>>

(* check_mark_done_gate reads the item before the script does.             *)
GateOpensAlways(i) == TRUE
GateOpens(i) == i.wf \in {"review_approved", "closed"}

Gate(s) ==
  /\ At(s, "gate")
  /\ IF GateOpens(item) THEN Goes(s, "script") ELSE Goto(s, Vacant)
  /\ UNCHANGED <<item, ledger, mirror, load, took, doubtful>>

ScriptRead(s) ==
  /\ At(s, "script")
  /\ IF Outcome(shell[s].req, item) = {}
     THEN Goto(s, [shell[s] EXCEPT !.pc = "lost", !.alone = TRUE])
     ELSE \E i \in Outcome(shell[s].req, item) :
            Goto(s, [shell[s] EXCEPT !.pc = "write", !.read = i])
  /\ UNCHANGED <<item, ledger, mirror, load, took, doubtful>>

(* No harnessctl, no workflow-contract, an unfinished dependency, a lease, *)
(* an unblock owner, a missing plan: nothing is written.                   *)
ScriptRefuses(s) ==
  /\ At(s, "script") /\ Fault /\ Goto(s, [shell[s] EXCEPT !.pc = "lost", !.alone = TRUE])
  /\ UNCHANGED <<item, ledger, mirror, took, doubtful>>

(* Others lose sight of the item they looked at.                           *)
Replaced(s, pc) ==
  /\ item' = shell[s].read
  /\ shell' = [t \in Callers |->
       IF t = s THEN [shell[s] EXCEPT !.pc = pc, !.read = None, !.alone = TRUE]
       ELSE IF shell[t].pc \in {"script", "write"} THEN [shell[t] EXCEPT !.alone = FALSE]
       ELSE shell[t]]
  /\ took' = took \cup {<<Hint(shell[s].req), shell[s].req.op>>}

ScriptWrite(s) ==
  /\ At(s, "write") /\ Replaced(s, "won")
  /\ UNCHANGED <<ledger, mirror, load, doubtful>>

(* The checklist is replaced, and then a packet or events.jsonl fails.     *)
ScriptDies(s) ==
  /\ At(s, "write") /\ Fault /\ Replaced(s, "lost") /\ Doubt(s)
  /\ UNCHANGED <<ledger, mirror>>

(* append_event: assignment.accepted and so on, or harness.mutation_failed. *)
Record(s) ==
  /\ \E ok \in BOOLEAN :
       LET r == shell[s].req
           new == [hint |-> Hint(r), op |-> r.op, ok |-> ok]
           known == \E e \in ledger : e.hint = new.hint /\ e.ok = ok /\ (ok => e.op = new.op)
       IN /\ At(s, IF ok THEN "won" ELSE "lost")
          /\ ledger' = IF known THEN ledger ELSE ledger \cup {new}
          /\ IF ok /\ ~known THEN Goes(s, "sync") ELSE Goto(s, Vacant)
  /\ UNCHANGED <<item, mirror, load, took, doubtful>>

(* The targeted reconcile: it reads the checklist, then writes the mirror. *)
SyncRead(s) ==
  /\ At(s, "sync") /\ Goto(s, [shell[s] EXCEPT !.pc = "mirror", !.read = item])
  /\ UNCHANGED <<item, ledger, mirror, load, took, doubtful>>
SyncWrite(s) ==
  /\ At(s, "mirror") /\ mirror' = shell[s].read /\ Goto(s, Vacant)
  /\ UNCHANGED <<item, ledger, load, took, doubtful>>

(* The process dies, or its reconcile fails and is only logged.            *)
Die(s) ==
  /\ ~At(s, "idle") /\ Fault /\ Goto(s, Vacant)
  /\ IF At(s, "won") THEN Doubt(s) ELSE UNCHANGED doubtful
  /\ UNCHANGED <<item, ledger, mirror, took>>

TNext == \E s \in Callers :
  \/ \E r \in Requests : Ask(s, r)
  \/ Gate(s) \/ ScriptRead(s) \/ ScriptRefuses(s) \/ ScriptWrite(s) \/ ScriptDies(s)
  \/ Record(s) \/ SyncRead(s) \/ SyncWrite(s) \/ Die(s)

TSpec == TInit /\ [][TNext]_tvars

------------------------------------------------------------------------------
(* The ledger never says harness.mutation_failed of a command that changed *)
(* the item, unless two runs of its hint overlapped, its script failed     *)
(* after the write, or an earlier run died before it could record.         *)
FailureIsTrue ==
  \A e \in ledger : ~e.ok /\ <<e.hint, e.op>> \in took => e.hint \in doubtful

(* mark_done_task asks its gate on one reading of the item, and the script *)
(* closes on another, by an approval that outlives a handoff.  An item is  *)
(* closed from review_approved only, or by a script that another script's  *)
(* write overtook since it, or its gate, read the item.                    *)
ClosedFromReview == [][
  item.status # "done" /\ item'.status = "done" =>
    \E s \in Callers :
      /\ At(s, "write")
      /\ item.wf = "review_approved" \/ ~shell[s].alone]_tvars
==============================================================================
