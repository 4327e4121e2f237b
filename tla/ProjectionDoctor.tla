-------------------------- MODULE ProjectionDoctor --------------------------
(* What the projection doctor (projection_doctor.py) reports of the split     *)
(* operations of the task: the ledger, the deployed item, the plan.ready      *)
(* events and the task mirror are read, compared, and never written.          *)
(*                                                                            *)
(* A finding is its kind.  Two bodies differ in a field that the doctor       *)
(* compares; a change of a created item's lifecycle fields alone, which it    *)
(* tolerates, is not an edit here.  The search for an approved revision that  *)
(* accounts for other plan bytes is modelled in PlanGate.                     *)
EXTENDS SplitOperations

Row(o) == ledger[o].env
ReadyEvent(o) == events[ledger[o].event]
RecordedOps == {o \in Ops: Recorded(o)}

----------------------------------------------------------------------------
(* The ledger row against the deployed item. *)

TargetConflict == Cardinality(RecordedOps) > 1

\* No item, or an item without an envelope.
Orphaned == deployed.item = None \/ deployed.item.env = None

\* An operation or an envelope that differs from the row.
Rebound(o) == deployed.item.env.op # o
ShapeDrift(o) == deployed.item.env # Row(o)

EventMissing(o) == ledger[o].event \notin 1..Len(events)
EventMismatch(o) == ReadyEvent(o).kind # "record" \/ ReadyEvent(o).op # o

\* The fingerprints of the row are computed again from the event, which keeps
\* the body and the plan that a creation started from; an adoption started from
\* an item that only the checklist has, so its fingerprints are taken of what
\* the item is now.
ProofErrors(o) ==
    \/ ReadyEvent(o).plan # Row(o).plan
    \/ Row(o).body # (IF Row(o).kind = "adopt" THEN deployed.item.body ELSE ReadyEvent(o).body)

\* Title, phase, priority and plan locators of the item are those of the event.
IdentityErrors(o) == deployed.item.body # ReadyEvent(o).body

\* Other plan bytes than the record half saw.
PlanMoved(o) == deployed.plan # ReadyEvent(o).plan

OperationFindings(o) ==
    IF Orphaned THEN {"operation_ledger_orphaned"}
    ELSE IF Rebound(o) THEN {"operation_envelope_drift"}
    ELSE (IF ShapeDrift(o) THEN {"operation_envelope_drift"} ELSE {})
         \cup (IF EventMissing(o) THEN {"operation_record_event_missing"}
               ELSE IF EventMismatch(o) THEN {"operation_record_event_mismatch"}
               ELSE IF ProofErrors(o) \/ IdentityErrors(o) \/ PlanMoved(o)
               THEN {"operation_envelope_drift"}
               ELSE {})

\* A deployed envelope that the ledger does not have: its record half is pending.
\* The doctor never offers to run it, because the envelope does not hold who
\* records it (_file_pending_record_inputs).
FilePending(o) == ~Orphaned /\ deployed.item.env.op = o /\ ~Recorded(o)

----------------------------------------------------------------------------
(* The ledger row against the task mirror. *)

MetadataDrift(o) == mirror.meta # Row(o)

\* The payload that a record half wrote: task id, title, phase and plan document.
\* Without an operation in the payload it is not looked at.
PayloadDrift(o) ==
    /\ mirror.meta # None
    /\ ~mirror.planned \/ (IF deployed.item = None THEN TRUE
                           ELSE mirror.body # deployed.item.body)

\* last_event_id is null or precedes the record event.
EventRegression(o) == mirror.last < ledger[o].event

MirrorFindings(o) ==
    IF mirror = None THEN {"operation_task_mirror_missing"}
    ELSE (IF MetadataDrift(o) \/ PayloadDrift(o)
          THEN {"operation_task_mirror_metadata_drift"} ELSE {})
         \cup (IF EventRegression(o) THEN {"operation_task_event_regression"} ELSE {})

----------------------------------------------------------------------------
\* What the doctor reports of an operation.
Findings(o) ==
    IF ~Recorded(o) THEN IF FilePending(o) THEN {"operation_file_pending"} ELSE {}
    ELSE (IF TargetConflict THEN {"operation_target_conflict"} ELSE {})
         \cup OperationFindings(o) \cup MirrorFindings(o)

\* What may put a recorded operation at odds with the projections: a deployment;
\* a record half whose item or plan was deployed over since it was verified, or
\* that another operation overtook; the record half of another operation; a
\* writer of the row whose read is stale; a revision whose title or phase is not
\* deployed; triage; and a pr link that finds its event from before the record.
Deployed == deployed' # deployed
RecordedLate(o) ==
    ~Recorded(o) /\ Recorded(o)' /\ (~Verified(deployed.item, deployed.plan, Row(o)') \/ Others(o) # {})
RecordedOther(o) == ledger' # ledger /\ Recorded(o)
StaleWriter ==
    /\ other' = None
    /\ \/ Doing("write") /\ (other.seen # mirror \/ other.item # deployed.item)
       \/ Doing("task") /\ other.item # deployed.item
       \/ Doing("link") /\ other.seen # mirror
RevisedAhead == /\ mirror' # mirror /\ rec' = rec /\ other' = other
                /\ deployed.item # None => mirror'.body # deployed.item.body
Retriaged == mirror' = TriageRow
Relinked(o) == Doing("link") /\ linked # None /\ linked < ledger[o].event

\* The commands themselves give the doctor nothing to report: every finding that
\* appears has one of the causes above, so a record half that nothing overtakes,
\* and a reconcile, revision or first pr link with current reads, leave
\* ledger, item, events and mirror in agreement.
FindingsAreExplained ==
    [][\A o \in Ops:
          Findings(o)' \subseteq Findings(o)
          \/ Deployed \/ RecordedLate(o) \/ RecordedOther(o) \/ StaleWriter
          \/ RevisedAhead \/ Retriaged \/ Relinked(o)]_vars

============================================================================
