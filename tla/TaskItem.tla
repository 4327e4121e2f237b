------------------------------ MODULE TaskItem ------------------------------
(***************************************************************************)
(* One item of the harness checklist, as the harnessctl scripts under      *)
(* scripts/harness/ change it and as the completion code fingerprints it.  *)
(*                                                                         *)
(* An item keeps the fields that completion reads: its coarse status, its  *)
(* workflow status and branch, whether an owner, a session or an           *)
(* unreleased lease is left on it, and the receipt its completion_receipt  *)
(* metadata names.  Every check that --force lifts is taken as lifted, so  *)
(* a script's guard here is the part that nothing overrides.               *)
(***************************************************************************)
CONSTANTS
    Receipts,   \* receipt ids
    Branches,   \* workflow.branch
    NoReceipt   \* an item without completion_receipt metadata

ASSUME TaskItemAssumption == NoReceipt \notin Receipts

Statuses == {"todo", "doing", "blocked", "done"}

Workflows == {"assigned", "running", "handoff_requested", "released", "blocked",
              "unblocked", "closeout_requested", "review_approved",
              "changes_requested", "closed"}

Items == [status : Statuses, wf : Workflows, branch : Branches,
          owned : BOOLEAN, receipt : Receipts \cup {NoReceipt}]

(* The lifecycle fields that bind a receipt: verification text and the     *)
(* receipt metadata are left out (_fingerprint_fields).                    *)
Fingerprints == [status : Statuses, wf : Workflows, branch : Branches]

Fingerprint(i) == [status |-> i.status, wf |-> i.wf, branch |-> i.branch]

(* The fingerprint the item will have once mark-done wrote it.             *)
DoneFingerprint(f) == [status |-> "done", wf |-> "closed", branch |-> f.branch]

IsDone(i) == i.status = "done" /\ i.wf = "closed"

(* _mutate_item_done, release_terminal_ownership included.                 *)
Close(i) == [i EXCEPT !.status = "done", !.wf = "closed", !.owned = FALSE]

(* No executing owner, session or unreleased lease                         *)
(* (terminal_ownership_problem).                                           *)
Released(i) == ~i.owned

(* _evaluate_gate_status, for an item that has a workflow status.          *)
GatePasses(i) == i.wf \in {"review_approved", "closed"}

-----------------------------------------------------------------------------
(* The harnessctl commands, each as the set of items it can leave.         *)

Assign(i) ==
    IF i.status = "done" THEN {}
    ELSE {[i EXCEPT !.wf = "assigned", !.branch = b, !.owned = TRUE] : b \in Branches}

Accept(i) ==
    IF i.status = "done" THEN {}
    ELSE {[i EXCEPT !.status = "doing", !.wf = "running", !.branch = b, !.owned = TRUE]
            : b \in Branches}

Decline(i) == {[i EXCEPT !.status = "todo", !.wf = "released", !.owned = FALSE]}

RenewLease(i) == {[i EXCEPT !.owned = TRUE]}

Release(i) ==
    {[i EXCEPT !.status = IF @ = "doing" THEN "todo" ELSE @, !.wf = "released",
               !.owned = FALSE]}

Handoff(i) == {[i EXCEPT !.status = "todo", !.wf = "handoff_requested", !.owned = FALSE]}

Blocker(i) == {[i EXCEPT !.status = "blocked", !.wf = "blocked", !.owned = FALSE]}

Unblock(i) ==
    IF i.status # "blocked" THEN {}
    ELSE {[i EXCEPT !.status = "todo", !.wf = "unblocked"]}

Closeout(i) == {[i EXCEPT !.wf = "closeout_requested"]}

ReviewResult(i) ==
    {[i EXCEPT !.wf = "review_approved"],
     [i EXCEPT !.wf = "changes_requested"],
     [i EXCEPT !.wf = "blocked", !.status = "blocked"]}

MarkDone(i) == IF i.status = "done" THEN {} ELSE {Close(i)}

(* What a harnessctl command that read item i can write.                   *)
ScriptResults(i) ==
    UNION {Assign(i), Accept(i), Decline(i), RenewLease(i), Release(i), Handoff(i),
           Blocker(i), Unblock(i), Closeout(i), ReviewResult(i), MarkDone(i)}
=============================================================================
