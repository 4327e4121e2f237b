------------------------------- MODULE PlanGate -------------------------------
(***************************************************************************)
(* The plan gate of one task: a plan is registered and revised, reviewers  *)
(* approve or reject it scope by scope, and a worker handoff is prepared   *)
(* only under an approval of the plan as it now stands.  All of it is kept *)
(* in the event log, whose idempotency keys decide what a command repeats. *)
(* The commands run in shells that read and write in separate statements,  *)
(* so any two of them may interleave.  The doctor judges the same log.     *)
(***************************************************************************)
EXTENDS Naturals, Sequences, FiniteSets

CONSTANTS
  Shells,     \* where operators and agents run the commands
  Scopes,     \* what a review may be about: --scope
  Plans,      \* contents of the plan document (its sha256)
  Budgets     \* bounds: how many commands of each kind are run

Budget == [edit : Nat, revise : Nat, decide : Nat, handoff : Nat, brief : Nat]
ASSUME PlanGateAssumption == Budgets \subseteq Budget

VARIABLES
  events,  \* the task's events, in rowid order; an event's id is its place
  doc,     \* what the plan document holds
  last,    \* last_event_id of the task's mirror
  cmd,     \* local variables of the command a shell runs
  left     \* commands that may still be run

vars == <<events, doc, last, cmd, left>>

Ready(plan, sup) == [kind |-> "ready", plan |-> plan, sup |-> sup]
Decision(kind, scope, plan, n) ==
  [kind |-> kind, scope |-> scope, plan |-> plan, count |-> n]
(* from: the length of the log when the gate was read (a history value). *)
Handoff(scope, gate, plan, from) ==
  [kind |-> "handoff", scope |-> scope, gate |-> gate, plan |-> plan, from |-> from]
Briefing(plan) == [kind |-> "briefing", plan |-> plan]
Request == [kind |-> "request"]

Ids == Nat \ {0}
Kinds == {"approved", "rejected"}
Events ==
  [kind : {"ready"}, plan : Plans, sup : Nat]
    \cup [kind : Kinds, scope : Scopes, plan : Ids, count : Nat]
    \cup [kind : {"handoff"}, scope : Scopes, gate : Ids, plan : Ids, from : Nat]
    \cup [kind : {"briefing"}, plan : Ids] \cup {Request}

Idle == [op |-> "idle"]
Commands ==
  {Idle} \cup [op : {"revise"}, plan : Plans]
    \cup [op : Kinds, scope : Scopes, plan : Ids, count : Nat,
          last : Ids]
    \cup [op : {"gate", "plan"}, scope : Scopes, gate : Ids, from : Ids]
    \cup [op : {"brief"}, plan : Ids]

(* The first plan is registered by a recorded split operation. *)
Init ==
  /\ \E p \in Plans : doc = p /\ events = <<Ready(p, 0)>>
  /\ last = 1
  /\ cmd = [s \in Shells |-> Idle] /\ left \in Budgets

TypeOK ==
  /\ events \in Seq(Events) /\ Len(events) \in Ids
  /\ doc \in Plans /\ last \in DOMAIN events
  /\ cmd \in [Shells -> Commands] /\ left \in Budget

------------------------------------------------------------------------------
(* Queries on a prefix of the log. *)

Upto(n, kinds) == {i \in 1 .. n : events[i].kind \in kinds}
IsLatest(i, S) == i \in S /\ \A j \in S : j <= i
(* ORDER BY rowid DESC LIMIT 1: 0 when there is none. *)
LatestOf(S) == IF S = {} THEN 0 ELSE CHOOSE i \in S : \A j \in S : j <= i

_latest_plan_ready == LatestOf(Upto(Len(events), {"ready"}))
_gate_counter(kind) == Cardinality(Upto(Len(events), {kind}))

DecisionsIn(n, scope) == {i \in Upto(n, Kinds) : events[i].scope = scope}
Opposite(kind) == IF kind = "approved" THEN "rejected" ELSE "approved"

(* append_event: a new event unless some in the log (same) have its key. *)
Append_event(e, same) ==
  IF same = {} THEN events' = Append(events, e) ELSE UNCHANGED events
Equal(e) == {i \in DOMAIN events : events[i] = e}

Spend(kind) == left[kind] > 0 /\ left' = [left EXCEPT ![kind] = @ - 1]
Run(s, op, c) == cmd[s].op = op /\ cmd' = [cmd EXCEPT ![s] = c]
Begin(s, kind, c) == Spend(kind) /\ Run(s, "idle", c)
Resume(s, op, c) == Run(s, op, c) /\ UNCHANGED left

------------------------------------------------------------------------------
(* Authors. *)

EditPlan ==
  \E p \in Plans \ {doc} : Spend("edit") /\ doc' = p /\ UNCHANGED <<events, last, cmd>>

(* create-record without an operation: the file is hashed first. *)
ReviseRead(s) ==
  Begin(s, "revise", [op |-> "revise", plan |-> doc]) /\ UNCHANGED <<events, doc, last>>

(* A revision's key is its content; the first plan.ready has its operation's. *)
Registered(plan) == {i \in Upto(Len(events), {"ready"}) \ {1} : events[i].plan = plan}
SupersedesNothing(plan) == 0
(* prior_ready: the latest plan.ready that has another key. *)
Supersedes(plan) == LatestOf(Upto(Len(events), {"ready"}) \ Registered(plan))

(* One SAVEPOINT: a content seen before must be an exact replay, which its *)
(* supersede link decides; anything else rolls the revision back.          *)
ReviseWrite(s) ==
  /\ Resume(s, "revise", Idle)
  /\ LET new == Ready(cmd[s].plan, Supersedes(cmd[s].plan)) IN
       IF Registered(new.plan) = {}
       THEN /\ events' = Append(events, new)
            /\ last' = Len(events')
       ELSE /\ UNCHANGED events
            /\ last' = LET old == LatestOf(Registered(new.plan))
                       IN IF events[old] = new THEN old ELSE last
  /\ UNCHANGED doc

(* The key of a review request is the task's: one is ever recorded. *)
RequestReview(s) ==
  /\ Begin(s, "brief", Idle)
  /\ Append_event(Request, Equal(Request))
  /\ UNCHANGED <<doc, last>>

------------------------------------------------------------------------------
(* Reviewers: approve_plan and reject_plan. *)

DecideRead(s, kind, scope) ==
  /\ Begin(s, "decide", [op |-> kind, scope |-> scope, plan |-> _latest_plan_ready,
                                count |-> _gate_counter(Opposite(kind)), last |-> last])
  /\ UNCHANGED <<events, doc, last>>
ApproveRead(s) == \E scope \in Scopes : DecideRead(s, "approved", scope)
RejectRead(s) == \E scope \in Scopes : DecideRead(s, "rejected", scope)

(* The key of a decision: its kind, its scope, how many opposite ones. *)
SameKindAndScope(e, c) ==
  e.kind = c.op /\ IF e.kind \in Kinds THEN e.scope = c.scope ELSE FALSE
SameDecision(e, c) ==
  e.kind = c.op /\ IF e.kind \in Kinds THEN e.scope = c.scope /\ e.count = c.count
                   ELSE FALSE
Decided(c) == {i \in DOMAIN events : SameDecision(events[i], c)}

(* last_event_id of the mirror: the event just appended, else the one that *)
(* was read with the row.                                                  *)
LastOf(c) == IF Decided(c) = {} THEN Len(events) + 1 ELSE c.last

DecideWrite(s) ==
  /\ cmd[s].op \in Kinds /\ Resume(s, cmd[s].op, Idle)
  /\ LET c == cmd[s] IN
       /\ Append_event(Decision(c.op, c.scope, c.plan, c.count), Decided(c))
       /\ last' = LastOf(c)
  /\ UNCHANGED doc
ApproveWrite(s) == cmd[s].op = "approved" /\ DecideWrite(s)
RejectWrite(s) == cmd[s].op = "rejected" /\ DecideWrite(s)

------------------------------------------------------------------------------
(* Handoffs: a worker's needs the gate, a reviewer's only a plan. *)

Approved(gate) == gate # 0 /\ events[gate].kind = "approved"

HandoffGate(s) == \E scope \in Scopes :
  LET gate == LatestOf(DecisionsIn(Len(events), scope)) IN
    /\ Approved(gate)
    /\ Begin(s, "handoff", [op |-> "gate", scope |-> scope, gate |-> gate,
                            from |-> Len(events)])
    /\ UNCHANGED <<events, doc, last>>

(* Refused when the plan was revised after its approval. *)
PlanIsAny(gate) == events[gate].plan # 0
PlanIsApproved(gate) == events[gate].plan = _latest_plan_ready

HandoffPlan(s) ==
  /\ Resume(s, "gate", [cmd[s] EXCEPT !.op = "plan"])
  /\ PlanIsApproved(cmd[s].gate)
  /\ UNCHANGED <<events, doc, last>>

(* The key of a handoff is its gate event. *)
HandoffWrite(s) ==
  /\ Resume(s, "plan", Idle)
  /\ LET c == cmd[s]
         new == Handoff(c.scope, c.gate, events[c.gate].plan, c.from)
     IN Append_event(new, {i \in Upto(Len(events), {"handoff"}) : events[i].gate = c.gate})
  /\ UNCHANGED <<doc, last>>

BriefRead(s) ==
  /\ Begin(s, "brief", [op |-> "brief", plan |-> _latest_plan_ready])
  /\ UNCHANGED <<events, doc, last>>
BriefWrite(s) ==
  /\ Resume(s, "brief", Idle)
  /\ Append_event(Briefing(cmd[s].plan), Equal(Briefing(cmd[s].plan)))
  /\ UNCHANGED <<doc, last>>

(* A later check refuses the command, or its process dies. *)
Abandon(s) ==
  /\ cmd[s] # Idle /\ Resume(s, cmd[s].op, Idle)
  /\ UNCHANGED <<events, doc, last>>

Next ==
  \/ EditPlan
  \/ \E s \in Shells :
       \/ ReviseRead(s) \/ ReviseWrite(s) \/ RequestReview(s)
       \/ ApproveRead(s) \/ ApproveWrite(s) \/ RejectRead(s) \/ RejectWrite(s)
       \/ HandoffGate(s) \/ HandoffPlan(s) \/ HandoffWrite(s)
       \/ BriefRead(s) \/ BriefWrite(s) \/ Abandon(s)

Spec == Init /\ [][Next]_vars

------------------------------------------------------------------------------
(* The doctor's view of a document that no longer has its recorded content. *)

(* _supersedes_chain_reaches: links lead to earlier events, so a chain ends. *)
Reaches(cand, target) ==
  LET up[i \in 0 .. Len(events)] ==
        IF i = target THEN TRUE
        ELSE IF i \in Upto(Len(events), {"ready"}) /\ events[i].sup < i
             THEN up[events[i].sup] ELSE FALSE
  IN up[cand]

ApprovalsOf(ready) ==
  {i \in Upto(Len(events), {"approved"}) : i > ready /\ events[i].plan = ready}
Supersessions ==
  {i \in Upto(Len(events), {"ready"}) \ {1} :
     /\ events[i].plan = doc /\ Reaches(i, 1) /\ ApprovalsOf(i) # {}
     /\ \A j \in Upto(Len(events), {"rejected"}) : j < i}

------------------------------------------------------------------------------
(* The hazard of plan_gate.py: keys that count.  When a decision is        *)
(* recorded and nobody decided the other way since its command counted,    *)
(* the latest decision in its scope is what the reviewer said, whether the *)
(* event is new or an old one stood for it.  (An approval of a revised     *)
(* plan is the exception that matters: see the README.)                    *)
DecisionHolds == [][
  \A s \in Shells :
    LET c == cmd[s] IN
      DecideWrite(s) /\ c.count = _gate_counter(Opposite(c.op))
        => \E i \in DOMAIN events' :
             /\ events'[i].kind = c.op /\ events'[i].scope = c.scope
             /\ \A j \in DOMAIN events' : j > i =>
                  ~ (events'[j].kind = Opposite(c.op) /\ events'[j].scope = c.scope)]_vars

(* prepare_handoff reads the gate and the plan in two statements and writes *)
(* in a third.  Every worker handoff in the log was wholly allowed at one   *)
(* moment, the reading of the gate: its approval was then the latest        *)
(* decision in its scope and the plan it approves the latest plan.          *)
HandoffWasAllowed ==
  \A h \in Upto(Len(events), {"handoff"}) :
    LET e == events[h] IN
      /\ e.from < h /\ e.gate <= e.from
      /\ events[e.gate].kind = "approved" /\ events[e.gate].plan = e.plan
      /\ IsLatest(e.gate, DecisionsIn(e.from, e.scope))
      /\ IsLatest(e.plan, Upto(e.from, {"ready"}))

(* The gate and the doctor read the same log with different code.  A       *)
(* revision that the gate lets workers have, deployed as registered and    *)
(* rejected in no scope since, is one that the doctor finds approved.      *)
ApprovedRevisionIsRecognised ==
  LET plan == _latest_plan_ready IN
    /\ plan # 1 /\ events[plan].plan = doc
    /\ \A j \in Upto(Len(events), {"rejected"}) : j < plan
    /\ \E scope \in Scopes :
         LET gate == LatestOf(DecisionsIn(Len(events), scope)) IN
           Approved(gate) /\ PlanIsApproved(gate)
    => Supersessions # {}

==============================================================================
