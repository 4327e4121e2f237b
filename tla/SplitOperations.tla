-------------------------- MODULE SplitOperations --------------------------
(* Split operations: task.create, task.adopt and issue.materialize            *)
(* (split_operations.py).  A file half binds the checklist item of a task to  *)
(* an operation on a coding host; a deployment carries checklist and plan to  *)
(* the control plane; a record half compares the deployed item with the       *)
(* answer of the file half and writes ledger row, task mirror and plan.ready  *)
(* event in one SAVEPOINT.  What the record half reads before its SAVEPOINT   *)
(* may be stale when it writes.                                               *)
(*                                                                            *)
(* The other writers of the task mirror run at the same time: full and        *)
(* targeted reconcile (reconcile.py), pr link (prs.py), plan revision         *)
(* (onboarding.py) and triage (issues.py).  Except for the SAVEPOINTs of      *)
(* targeted reconcile and revision they read the row, work, and write every   *)
(* column back.                                                               *)
(*                                                                            *)
(* One workspace, one task, one issue.  A body stands for the fields of the   *)
(* item that its fingerprint covers, a plan for the bytes of the plan         *)
(* document; pr stands for the columns the coordinator owns, which the item   *)
(* leaves out.  events holds the plan.ready events only; issue.materialized   *)
(* and its delivery are written in the same SAVEPOINT.  last stands for       *)
(* last_event_id: how many of events that event does not precede (0: null).   *)
EXTENDS Naturals, Sequences, FiniteSets

CONSTANTS Ops, Hosts, Shells, Bodies, Plans, NewBody,
          MaxDisturbances, None

VARIABLES host,      \* [Hosts -> item and plan of the checkout]
          drafts,    \* history: every plan of each checkout
          deployed,  \* item and plan at workspace.path
          shipped,   \* history: every content of deployed
          answer,    \* [Ops -> envelope the file half returned]
          ledger,    \* [Ops -> row of split_operations]
          events,    \* the plan.ready events of the task, oldest first
          mirror,    \* row of tasks
          linked,    \* Len(events) when pr.linked was appended
          triaged,   \* the issue's triage: "no", "mirror" (row only), "yes" (and event)
          rec,       \* [Shells -> record half under way]
          other,     \* reconcile or pr link under way
          spent      \* deployments, edits, crashes, revisions, reconciles and pr links so far

vars == <<host, drafts, deployed, shipped, answer, ledger, events, mirror,
          linked, triaged, rec, other, spent>>
fileVars == <<host, drafts, answer>>
dbVars == <<ledger, events, mirror, linked, triaged>>
----------------------------------------------------------------------------
Kinds == {"create", "adopt", "materialize"}
Envelopes == [op: Ops, kind: Kinds, plan: Plans, body: Bodies]
Items == [body: Bodies, env: Envelopes \cup {None}]
Trees == [item: Items \cup {None}, plan: Plans]
Mirrors == [body: Bodies \cup {None}, meta: Envelopes \cup {None},
            planned: BOOLEAN, pr: BOOLEAN, last: Nat]
LedgerRows == [env: Envelopes, event: Nat]
ReadyEvents == [op: Ops \cup {None}, kind: {"record", "revision"}, plan: Plans,
                body: Bodies]

\* What a record half, and another writer of the row, hold between two steps.
Recordings == [pc: {"item", "mirror", "apply"}, env: Envelopes, plan: Plans,
               seen: Mirrors \cup {None}, known: SUBSET Ops]
Projections == [pc: {"full", "write", "task", "link"}, item: Items \cup {None},
                seen: Mirrors \cup {None}]

ASSUME SplitAssumption ==
    /\ NewBody \in Bodies
    /\ MaxDisturbances \in Nat
    /\ None \notin Bodies \cup Plans \cup Ops
    /\ None \notin Envelopes \cup Items \cup Mirrors
    /\ None \notin LedgerRows \cup Recordings \cup Projections

Recorded(o) == ledger[o] # None
\* The other operations that have a row for this task.
Others(o) == {p \in Ops \ {o}: Recorded(p)}
Spend == spent < MaxDisturbances /\ spent' = spent + 1

TypeOK ==
    /\ host \in [Hosts -> Trees]
    /\ drafts \in [Hosts -> SUBSET Plans]
    /\ deployed \in Trees
    /\ shipped \subseteq Trees
    /\ answer \in [Ops -> Envelopes \cup {None}]
    /\ ledger \in [Ops -> LedgerRows \cup {None}]
    /\ events \in Seq(ReadyEvents)
    /\ mirror \in Mirrors \cup {None}
    /\ linked \in Nat \cup {None}
    /\ triaged \in {"no", "mirror", "yes"}
    /\ rec \in [Shells -> Recordings \cup {None}]
    /\ other \in Projections \cup {None}
    /\ spent \in 0..MaxDisturbances

\* Every checkout holds no item for the task, or a legacy item without an envelope.
Init ==
    \E item \in {None, [body |-> NewBody, env |-> None]}, plan \in Plans:
        /\ deployed = [item |-> item, plan |-> plan]
        /\ host = [h \in Hosts |-> deployed]
        /\ drafts = [h \in Hosts |-> {plan}]
        /\ shipped = {deployed}
        /\ answer = [o \in Ops |-> None]
        /\ ledger = [o \in Ops |-> None]
        /\ events = <<>>
        /\ mirror = None
        /\ linked = None
        /\ triaged = "no"
        /\ rec = [s \in Shells |-> None]
        /\ other = None
        /\ spent = 0
----------------------------------------------------------------------------
(* The file half. *)

\* The item this very operation bound, no item, or the legacy item that the
\* adoption was prepared from.  Anything else is refused.
Replayed(item, e) == item # None /\ item.env = e /\ item.body = e.body
Creatable(item, e) == item # None => Replayed(item, e)
Unbound(item, e) == item.env = None /\ item.body = e.body
Preparable(item, e) == item # None /\ (Unbound(item, e) \/ Replayed(item, e))

\* The critical section of mutate_checklist.  The envelope e was computed before
\* the lock, from a plan that may have been edited since.  A crash after the
\* checklist is replaced loses the answer.
FilesWrite(h, e) ==
    /\ e.plan \in drafts[h]
    /\ host' = [host EXCEPT ![h].item = [body |-> e.body, env |-> e]]
    /\ \/ answer' = [answer EXCEPT ![e.op] = e] /\ UNCHANGED spent
       \/ Spend /\ UNCHANGED answer
    /\ UNCHANGED <<drafts, deployed, shipped, dbVars, rec, other>>

\* A new item is made from the arguments.
CreateFiles(h, e) ==
    /\ e.kind = "create"
    /\ e.body = NewBody
    /\ Creatable(host[h].item, e)
    /\ FilesWrite(h, e)

MaterializeFiles(h, e) ==
    /\ e.kind = "materialize"
    /\ e.body = NewBody
    /\ Creatable(host[h].item, e)
    /\ FilesWrite(h, e)

\* prepare_task_adoption gave the envelope the body that the item had then.
AdoptFiles(h, e) ==
    /\ e.kind = "adopt"
    /\ Preparable(host[h].item, e)
    /\ FilesWrite(h, e)

\* The harness scripts rewrite the item and keep its envelope; plans are edited.
EditItem(h, b) ==
    /\ host[h].item # None
    /\ Spend
    /\ host' = [host EXCEPT ![h].item.body = b]
    /\ UNCHANGED <<drafts, answer, deployed, shipped, dbVars, rec, other>>

EditPlan(h, p) ==
    /\ Spend
    /\ host' = [host EXCEPT ![h].plan = p]
    /\ drafts' = [drafts EXCEPT ![h] = @ \cup {p}]
    /\ UNCHANGED <<answer, deployed, shipped, dbVars, rec, other>>

Deploy(h) ==
    /\ deployed # host[h]
    /\ Spend
    /\ deployed' = host[h]
    /\ shipped' = shipped \cup {host[h]}
    /\ UNCHANGED <<fileVars, dbVars, rec, other>>
----------------------------------------------------------------------------
(* The record half. *)

Goto(s, r) == /\ rec' = [rec EXCEPT ![s] = r]
              /\ UNCHANGED <<fileVars, deployed, shipped, other>>
At(s, pc) == rec[s] # None /\ rec[s].pc = pc
\* A read that either continues with r or refuses.
Check(s, ok, r) == /\ Goto(s, IF ok THEN r ELSE None)
                   /\ UNCHANGED <<dbVars, spent>>

\* The operator passes what the file half answered.  The triage event and the
\* mirror that an issue.materialize needs, and the plan, are read first.
RecStart(s, o) ==
    /\ rec[s] = None
    /\ answer[o] # None
    /\ answer[o].kind = "materialize" => triaged = "yes" /\ mirror # None
    /\ Goto(s, [pc |-> "item", env |-> answer[o], plan |-> deployed.plan,
                seen |-> None, known |-> {p \in Ops: Recorded(p)}])
    /\ UNCHANGED <<dbVars, spent>>

\* Operation, fingerprints, item and plan all have to agree.
VerifiedEnvelope(item, plan, e) == item # None /\ item.env = e /\ plan = e.plan
Verified(item, plan, e) == Replayed(item, e) /\ plan = e.plan

\* The deployed item is verified, and the ledger must not have the task under
\* another operation.  If it has this very operation, the row is compared with
\* the command field by field, down to its event and the mirror, and answered or
\* refused: nothing is written.  The ledger is read after the item and only
\* grows, so what passes here includes all that passes the separate reads.
RecItem(s, kind, next) ==
    /\ At(s, "item")
    /\ rec[s].env.kind = kind
    /\ LET e == rec[s].env
       IN Check(s, /\ Verified(deployed.item, rec[s].plan, e)
                   /\ Others(e.op) = {}
                   /\ ~Recorded(e.op),
                [rec[s] EXCEPT !.pc = next])

CreateItem(s) == RecItem(s, "create", "apply")
AdoptItem(s) == RecItem(s, "adopt", "mirror")
MaterializeItem(s) == RecItem(s, "materialize", "apply")

\* An adoption upgrades only the mirror that this operation wrote, or a legacy
\* mirror that agrees with the item.
Adoptable(m, e) == m = None \/ m.meta = e \/ (m.meta = None /\ m.body = e.body)

RecMirror(s) ==
    /\ At(s, "mirror")
    /\ Check(s, Adoptable(mirror, rec[s].env),
             [rec[s] EXCEPT !.pc = "apply", !.seen = mirror])

\* The ledger row, linked to the plan.ready event at the end of the SAVEPOINT.
LedgerRow(e) == [env |-> e, event |-> Len(events) + 1]

\* The row a record half writes; an adoption keeps the bindings it has read.
RecordRow(e, pr) == [body |-> e.body, meta |-> e, planned |-> TRUE, pr |-> pr,
                     last |-> Len(events) + 1]

\* One SAVEPOINT; operation_id is the primary key of split_operations.
InsertableAgain(o) == TRUE
Insertable(o) == ~Recorded(o)
RecApply(s, kind, pr) ==
    /\ At(s, "apply")
    /\ rec[s].env.kind = kind
    /\ LET e == rec[s].env
       IN  \/ /\ Insertable(e.op)
              /\ events' = Append(events, [op |-> e.op, kind |-> "record", plan |-> e.plan,
                                           body |-> e.body])
              /\ ledger' = [ledger EXCEPT ![e.op] = LedgerRow(e)]
              /\ mirror' = RecordRow(e, pr)
              /\ UNCHANGED <<linked, triaged>>
           \/ ~Insertable(e.op) /\ UNCHANGED dbVars
    /\ Goto(s, None)
    /\ UNCHANGED spent

CreateApply(s) == RecApply(s, "create", FALSE)
AdoptApply(s) == RecApply(s, "adopt", rec[s].seen # None /\ rec[s].seen.pr)
MaterializeApply(s) == RecApply(s, "materialize", FALSE)

RecCrash(s) ==
    /\ rec[s] # None
    /\ Spend
    /\ Goto(s, None)
    /\ UNCHANGED dbVars
----------------------------------------------------------------------------
(* Reconcile: the deployed item is projected into the mirror. *)

\* A task.adopt envelope is projected only after its record half.
PendingNever(e) == FALSE
Pending(e) == e # None /\ e.kind = "adopt" /\ ~Recorded(e.op)
Conflicting(item, m) == m # None /\ m.meta # None /\ item.env # None /\ m.meta # item.env

\* The merge keeps the bindings and the operation identity of the row it read.
MergedOver(item, m) == [body |-> item.body, meta |-> item.env,
                        planned |-> FALSE, pr |-> FALSE, last |-> 0]
Merged(item, m) ==
    IF m = None THEN [body |-> item.body, meta |-> item.env,
                       planned |-> FALSE, pr |-> FALSE, last |-> 0]
    ELSE [m EXCEPT !.body = item.body, !.meta = IF @ = None THEN item.env ELSE @]

Doing(pc) == other # None /\ other.pc = pc
OtherElse == UNCHANGED <<fileVars, deployed, shipped, ledger, rec>>
Begin(pc, item, seen) ==
    /\ other = None
    /\ Spend
    /\ other' = [pc |-> pc, item |-> item, seen |-> seen]
    /\ UNCHANGED <<events, mirror, linked, triaged>> /\ OtherElse
Write(row) == /\ mirror' = row
              /\ other' = None
              /\ UNCHANGED <<events, triaged, spent>> /\ OtherElse
Finish(row) == Write(row) /\ UNCHANGED linked

ReconItem(mode) == deployed.item # None /\ Begin(mode, deployed.item, None)

\* Full reconcile: every statement commits on its own.
ReconRead ==
    /\ Doing("full")
    /\ other' = IF Pending(other.item.env) \/ Conflicting(other.item, mirror) THEN None
                ELSE [other EXCEPT !.pc = "write", !.seen = mirror]
    /\ UNCHANGED <<events, mirror, linked, triaged, spent>> /\ OtherElse

ReconWrite == Doing("write") /\ Finish(Merged(other.item, other.seen))

\* Targeted reconcile: one SAVEPOINT.
ReconTask ==
    /\ Doing("task")
    /\ Finish(IF Pending(other.item.env) \/ Conflicting(other.item, mirror) THEN mirror
              ELSE Merged(other.item, mirror))
----------------------------------------------------------------------------
(* The other writers of the row. *)

LinkRead == Begin("link", None, mirror)

\* link_pr asks GitHub after its read, appends pr.linked, unless the same link was
\* announced before, and points the row at that event.
LinkEvent == IF linked = None THEN Len(events) ELSE linked
LinkedRow(m) ==
    IF m = None
    THEN [body |-> None, meta |-> None, planned |-> FALSE, pr |-> TRUE, last |-> LinkEvent]
    ELSE [m EXCEPT !.pr = TRUE, !.last = LinkEvent]
LinkPr ==
    /\ Doing("link")
    /\ linked' = LinkEvent
    /\ Write(LinkedRow(other.seen))

\* The event is committed before the row: a crash in between leaves the event.
LinkCrash ==
    /\ Doing("link")
    /\ Spend
    /\ linked' = LinkEvent
    /\ other' = None
    /\ UNCHANGED <<events, mirror, triaged>> /\ OtherElse

\* One SAVEPOINT, for a mirror whose payload names a plan document.  The event
\* is keyed by the content of the plan, which was read before; a replay of
\* the newest revision appends nothing, any other reuse of the key is refused,
\* because the payload names the event it supersedes.  The event carries the
\* operation of the mirror.
RevisePlan(b, p) ==
    LET revision == [op |-> IF mirror.meta = None THEN None ELSE mirror.meta.op,
                     kind |-> "revision", plan |-> p, body |-> b]
        Key == {i \in 1..Len(events): events[i].kind = "revision" /\ events[i].plan = p}
    IN  /\ mirror # None /\ mirror.planned
        /\ \E t \in shipped: t.plan = p
        /\ \/ /\ Key = {}
              /\ Spend
              /\ events' = Append(events, revision)
           \/ /\ Key = {Len(events)} /\ events[Len(events)] = revision
              /\ UNCHANGED <<events, spent>>
        /\ mirror' = [mirror EXCEPT !.body = b, !.last = Len(events')]
        /\ UNCHANGED <<fileVars, deployed, shipped, ledger, linked, triaged, rec, other>>

\* triage_issue(accept): the row, then the event that makes a repetition stop
\* before the row.
TriageRow == [body |-> None, meta |-> None, planned |-> FALSE, pr |-> FALSE, last |-> 0]
TriageMirror ==
    /\ triaged # "yes"
    /\ triaged' = "mirror"
    /\ mirror' = TriageRow
    /\ UNCHANGED <<events, linked, other, spent>> /\ OtherElse
TriageEvent ==
    /\ triaged = "mirror"
    /\ triaged' = "yes"
    /\ UNCHANGED <<events, mirror, linked, other, spent>> /\ OtherElse
----------------------------------------------------------------------------
RecStep(s) == \/ CreateItem(s) \/ AdoptItem(s) \/ MaterializeItem(s)
              \/ RecMirror(s)
              \/ CreateApply(s) \/ AdoptApply(s) \/ MaterializeApply(s)

Next ==
    \/ \E h \in Hosts, e \in Envelopes:
          CreateFiles(h, e) \/ AdoptFiles(h, e) \/ MaterializeFiles(h, e)
    \/ \E h \in Hosts, b \in Bodies: EditItem(h, b)
    \/ \E h \in Hosts, p \in Plans: EditPlan(h, p)
    \/ \E h \in Hosts: Deploy(h)
    \/ \E s \in Shells, o \in Ops: RecStart(s, o)
    \/ \E s \in Shells: RecStep(s)
    \/ \E s \in Shells: RecCrash(s)
    \/ \E mode \in {"full", "task"}: ReconItem(mode)
    \/ ReconRead
    \/ ReconWrite
    \/ ReconTask
    \/ LinkRead
    \/ LinkPr
    \/ LinkCrash
    \/ \E b \in Bodies, p \in Plans: RevisePlan(b, p)
    \/ TriageMirror
    \/ TriageEvent

Spec == Init /\ [][Next]_vars
----------------------------------------------------------------------------
(* Properties. *)

\* A retried, repeated or concurrent record half announces an operation once:
\* an operation in the ledger has exactly the plan.ready event its row points
\* to (a materialization's row by way of issue.materialized), and an operation that is not has none (one SAVEPOINT, primary key).
RecordedOnce ==
    \A o \in Ops:
        {i \in 1..Len(events): events[i].kind = "record" /\ events[i].op = o}
          = IF Recorded(o) THEN {ledger[o].event} ELSE {}

\* What the ledger says of an operation was deployed: an item that carried this
\* envelope and had not drifted from it, and the plan it was made from
\* (_verify_*_envelope_fingerprints), whatever was edited and deployed meanwhile.
RecordedWasDeployed ==
    \A o \in Ops: Recorded(o) =>
        /\ \E t \in shipped: Replayed(t.item, ledger[o].env)
        /\ \E t \in shipped: t.plan = ledger[o].env.plan

\* No writer lets the mirror claim an adoption that the ledger does not have:
\* reconcile must not project an envelope whose record half is pending.
AdoptionIsRecorded ==
    mirror # None /\ mirror.meta # None /\ mirror.meta.kind = "adopt"
      => Recorded(mirror.meta.op)

\* A second operation of a task gets a ledger row only when its command began
\* before the row of the first existed (list_split_operations).
SecondRowOverlapped ==
    [][\A s \in Shells:
          At(s, "apply") /\ ledger' # ledger /\ rec'[s] # rec[s]
            => rec[s].known \subseteq {rec[s].env.op}]_vars

============================================================================
