-------------------------- MODULE ExecutorRouting --------------------------
(* Typed executors: the executor catalogs that bind agents                    *)
(* (executor_identity.py), the capacity catalogs and their snapshots          *)
(* (executor_capacity.py), the routing of requests (executor_routing.py) and  *)
(* the submit, claim and retry operations of runtime.py and jobs.py that use  *)
(* them, over the roster of AgentRoster.  A catalog record stands for its     *)
(* version and its hash together: the binding snapshot of an agent is the     *)
(* catalog that binds it, a policy id the catalog and the agent.  What a      *)
(* request requires of a definition is the set of agents it accepts.  Leases, *)
(* worktrees, claim keys and deactivation are in RuntimeLease.                *)
EXTENDS AgentRoster, Sequences

CONSTANTS Hosts, ExecSources, CapSources, ExecCatalogs, CapCatalogs, Requests,
          Submitters, Home, InitialCatalog, InitialCapacity,
          MaxJobs,     \* bound: rows of the jobs table
          Budgets      \* bounds: how many actions of each kind, in each variant

Kinds == {"roster", "catalog", "agent", "submit"}

\* What the parsers let through: an agent is bound once and enabled only when
\* bound, a policy allows at least one job, a request names what it accepts.
ParsedCatalog(c) == /\ c.source \in ExecSources /\ c.version \in Nat
                    /\ c.bound \subseteq Agents /\ c.enabled \subseteq c.bound
ParsedCapacity(c) == /\ c.source \in CapSources /\ c.version \in Nat
                     /\ DOMAIN c.max \subseteq Agents
                     /\ \A a \in DOMAIN c.max: c.max[a] \in Nat \ {0}
ParsedRequest(r) == /\ r.accepts \subseteq Agents /\ r.routed \in BOOLEAN
                    /\ r.target \in Agents \cup {None}
                    /\ ~r.routed => r.target \in Agents
                    /\ r.prefer \in Hosts \cup {None}

\* agent_id is the primary key of the bindings and of the policies, which are
\* written from the catalog of their source.
KeyedBindings(cat) ==
    \A s \in ExecSources: cat[s] # None =>
        /\ cat[s].source = s
        /\ \A t \in ExecSources \ {s}: cat[t] # None => cat[s].bound \cap cat[t].bound = {}
KeyedPolicies(cap) ==
    \A s \in CapSources: cap[s] # None =>
        /\ cap[s].source = s
        /\ \A t \in CapSources \ {s}: cap[t] # None => DOMAIN cap[s].max \cap DOMAIN cap[t].max = {}

ASSUME CatalogAssumption ==
    /\ None \notin Hosts /\ None \notin ExecCatalogs /\ None \notin CapCatalogs
    /\ \A c \in ExecCatalogs: ParsedCatalog(c)
    /\ \A c \in CapCatalogs: ParsedCapacity(c)
    /\ \A r \in Requests: ParsedRequest(r)
    /\ InitialCatalog \in [ExecSources -> ExecCatalogs \cup {None}]
    /\ KeyedBindings(InitialCatalog)
    /\ InitialCapacity \in [CapSources -> CapCatalogs \cup {None}]
    /\ KeyedPolicies(InitialCapacity)
    /\ Home \in [Agents -> Hosts]
    /\ Budgets \subseteq [Kinds -> Nat]

VARIABLES catalog,   \* [ExecSources -> catalog or None], the bindings tables
          capacity,  \* [CapSources -> catalog or None], the policies tables
          snapshot,  \* the last captured capacity snapshot, or None
          agents,    \* [Agents -> [host, live]]; live: online and seen recently
          jobs,      \* sequence of rows, in the order of created_at
          sub,       \* [Submitters -> what a submit has read, or None]
          claim,     \* [Agents -> what claim_job has read, or None]
          left       \* what is left of the bounds, by kind

vars == <<rosterVars, catalog, capacity, snapshot, agents, jobs, sub, claim, left>>

\* The jobs row with its payload.  host is that of the execution context (None:
\* backfilled at the claim), decided that of the routing decision.  raced and
\* copied are history: the binding was stale when the row was inserted; the row
\* was copied by retry_job.
Row == [request: Requests, agent: Agents, binding: ExecCatalogs \cup {None},
        host: Hosts \cup {None}, decided: Hosts \cup {None},
        status: {"pending", "running", "timed_out", "done", "failed"},
        policy: CapCatalogs \cup {None}, raced: BOOLEAN, copied: BOOLEAN]

\* What a submit has read, and what a claim has.
Read == [request: Requests, agent: Agents, binding: ExecCatalogs \cup {None},
         host: Hosts]
Claim == [leased: BOOLEAN, row: Nat, host: Hosts, recoverable: BOOLEAN,
          status: {"pending", "timed_out", None}]

ParsedCaptured(e) == e.captured # None =>
    e.captured \in CapCatalogs /\ e.captured.source = e.target
ParsedSnapshot(e) ==
    /\ e.target \in CapSources
    /\ ParsedCaptured(e)
    /\ e.preserved \in [CapSources \ {e.target} -> CapCatalogs \cup {None}]

TypeOK ==
    /\ RosterTypeOK
    /\ catalog \in [ExecSources -> ExecCatalogs \cup {None}]
    /\ capacity \in [CapSources -> CapCatalogs \cup {None}]
    /\ snapshot # None => ParsedSnapshot(snapshot)
    /\ agents \in [Agents -> [host: Hosts, live: BOOLEAN]]
    /\ jobs \in Seq(Row)
    /\ sub \in [Submitters -> Read \cup {None}]
    /\ claim \in [Agents -> Claim \cup {None}]
    /\ \A a \in Agents: claim[a] # None =>
         claim[a].row \in 0..Len(jobs) /\ (~claim[a].leased => claim[a].row # 0)
    /\ left \in [Kinds -> Nat]

Init ==
    /\ RosterInit
    /\ catalog = InitialCatalog
    /\ capacity = InitialCapacity
    /\ snapshot = None
    /\ agents = [a \in Agents |-> [host |-> Home[a], live |-> TRUE]]
    /\ jobs = <<>>
    /\ sub = [s \in Submitters |-> None]
    /\ claim = [a \in Agents |-> None]
    /\ left \in Budgets

Spend(kind) == left[kind] > 0 /\ left' = [left EXCEPT ![kind] = @ - 1]
----------------------------------------------------------------------------
(* The executor catalogs *)

Bound(cat) == UNION {cat[s].bound: s \in {t \in ExecSources: cat[t] # None}}
Enabled(cat) == UNION {cat[s].enabled: s \in {t \in ExecSources: cat[t] # None}}

\* resolve_exact_executor_binding: the current binding snapshot of an agent;
\* None for an agent without an enabled binding, an untyped agent.
Binding(cat, a) ==
    IF a \in Enabled(cat)
      THEN cat[CHOOSE s \in ExecSources: cat[s] # None /\ a \in cat[s].enabled]
      ELSE None

InFlight == {"pending", "running"}
DrainedQueue(s) == \A i \in DOMAIN jobs:
    ~(jobs[i].status = "pending" /\ jobs[i].binding # None /\ jobs[i].binding.source = s)
Drained(s) == \A i \in DOMAIN jobs:
    ~(jobs[i].status \in InFlight /\ jobs[i].binding # None /\ jobs[i].binding.source = s)

\* No source takes over an agent of another one.
Unowned(c) == \A s \in ExecSources \ {c.source}:
    catalog[s] # None => catalog[s].bound \cap c.bound = {}

\* The bindings and definitions of the source are deleted and inserted anew.
Replaced(c) == [catalog EXCEPT ![c.source] = c]

\* sync_executor_catalog; a refusal and a repetition of the current catalog
\* change nothing.
SyncExecutorCatalog(c) ==
    /\ Newer(c, catalog[c.source])
    /\ Unowned(c)
    /\ Drained(c.source)
    /\ catalog' = Replaced(c)
    /\ Spend("catalog")
    /\ UNCHANGED <<rosterVars, capacity, snapshot, agents, jobs, sub, claim>>
----------------------------------------------------------------------------
(* The capacity catalogs *)

Policies(cap) == {s \in CapSources: cap[s] # None}
PolicyAgents(cap) == UNION {DOMAIN cap[s].max: s \in Policies(cap)}
\* get_capacity_policy: the catalog an agent's policy row comes from.
PolicyOf(cap, a) ==
    IF a \in PolicyAgents(cap)
      THEN cap[CHOOSE s \in Policies(cap): a \in DOMAIN cap[s].max]
      ELSE None

Leased(i) == jobs[i].policy # None
ActiveLeases(a) == {i \in DOMAIN jobs: Leased(i) /\ jobs[i].agent = a}

\* Every policy has a binding, every enabled binding a policy.
Projected(cap) == /\ PolicyAgents(cap) \subseteq Bound(catalog)
                  /\ Enabled(catalog) \subseteq PolicyAgents(cap)
Owned(cap, s) == \A t \in Policies(cap) \ {s}:
    cap[s] # None => DOMAIN cap[t].max \cap DOMAIN cap[s].max = {}

ReferencedNever(s) == FALSE
\* A policy id that an active lease refers to is not replaced.
Referenced(s) == capacity[s] # None
    /\ \E a \in DOMAIN capacity[s].max: \E i \in ActiveLeases(a):
          jobs[i].policy = capacity[s]

Synced(c) == [capacity EXCEPT ![c.source] = c]
SyncCapacityCatalog(c) ==
    LET synced == Synced(c)
    IN  /\ Newer(c, capacity[c.source])
        /\ PolicyAgents(capacity) \subseteq Bound(catalog)
        /\ Owned(synced, c.source)
        /\ Projected(synced)
        /\ ~Referenced(c.source)
        /\ capacity' = synced
        /\ Spend("catalog")
        /\ UNCHANGED <<rosterVars, catalog, snapshot, agents, jobs, sub, claim>>

Others(cap, s) == [t \in CapSources \ {s} |-> cap[t]]

Envelope(s) == [target |-> s, captured |-> capacity[s],
                preserved |-> Others(capacity, s)]
CaptureCapacitySnapshot(s) ==
    /\ Projected(capacity)
    /\ snapshot' = Envelope(s)
    /\ Spend("catalog")
    /\ UNCHANGED <<rosterVars, catalog, capacity, agents, jobs, sub, claim>>

\* restore_capacity_snapshot: only the target's rows are written, and its
\* version may go back.
NoActiveLease == \A i \in DOMAIN jobs: ~Leased(i)
SameWitness(cap) == Others(cap, snapshot.target) = snapshot.preserved
Restored == [capacity EXCEPT ![snapshot.target] = snapshot.captured]
RestoreCapacitySnapshot ==
    /\ snapshot # None
    /\ Projected(capacity)
    /\ NoActiveLease
    /\ SameWitness(capacity)
    /\ Projected(Restored)
    /\ Owned(Restored, snapshot.target)
    /\ capacity' = Restored
    /\ Spend("catalog")
    /\ UNCHANGED <<rosterVars, catalog, snapshot, agents, jobs, sub, claim>>
----------------------------------------------------------------------------
(* Agents *)

\* register_agent: an agent may move to another host at any time.
RegisterAgent(a, h) ==
    /\ agents' = [agents EXCEPT ![a] = [host |-> h, live |-> TRUE]]
    /\ Spend("agent")
    /\ UNCHANGED <<rosterVars, catalog, capacity, snapshot, jobs, sub, claim>>

AgentLapses(a) ==
    /\ agents[a].live
    /\ agents' = [agents EXCEPT ![a].live = FALSE]
    /\ Spend("agent")
    /\ UNCHANGED <<rosterVars, catalog, capacity, snapshot, jobs, sub, claim>>
----------------------------------------------------------------------------
(* Submitting *)

Open == InFlight \cup {"timed_out"}
Load(a) == Cardinality({i \in DOMAIN jobs: jobs[i].agent = a /\ jobs[i].status \in Open})

\* resolve_routing_candidates: effective in the workspace, live, bound, and
\* accepted by the request.  (Every host has a profile of the workspace.)
Candidates(r) ==
    {a \in r.accepts \cap DOMAIN EffectiveAgents(roster, override):
        agents[a].live /\ Binding(catalog, a) # None}

\* The preferred host first, then the smaller load, then the smaller id.
Rank(r, a) == IF r.prefer = None \/ agents[a].host = r.prefer THEN 0 ELSE 1
Precedes(r, a, b) ==
    \/ Rank(r, a) < Rank(r, b)
    \/ Rank(r, a) = Rank(r, b) /\ Load(a) < Load(b)
    \/ Rank(r, a) = Rank(r, b) /\ Load(a) = Load(b) /\ a <= b

\* select_routing_decision: an operator's override must be a candidate.
Decides(r, a) ==
    /\ Resolvable(roster, override)
    /\ a \in Candidates(r)
    /\ IF r.target # None THEN a = r.target
       ELSE \A b \in Candidates(r): Precedes(r, a, b)

\* The event of a request is written with its job, so its key is taken when a
\* row that no retry copied has it.
Taken(key) == \E i \in DOMAIN jobs: jobs[i].request.key = key /\ ~jobs[i].copied

\* Up to its first write a submit reads the binding, or the candidates and the
\* decision, outside the transaction.
Reading(s, r, a) ==
    /\ sub[s] = None
    /\ ~Taken(r.key)
    /\ sub' = [sub EXCEPT ![s] =
         [request |-> r, agent |-> a, binding |-> Binding(catalog, a),
          host |-> agents[a].host]]
    /\ Spend("submit")
    /\ UNCHANGED <<rosterVars, catalog, capacity, snapshot, agents, jobs, claim>>
SubmitExactRead(s, r) == ~r.routed /\ Reading(s, r, r.target)
SubmitRoutedRead(s, r, a) == r.routed /\ Decides(r, a) /\ Reading(s, r, a)

\* Inside the transaction the event claims the key and the execution context is
\* resolved again, for the host the agent is on by then; the binding and the
\* decision are those that were read.
SubmittedRow(read) ==
    [request |-> read.request, agent |-> read.agent, binding |-> read.binding,
     host |-> agents[read.agent].host,
     decided |-> IF read.request.routed THEN read.host ELSE None,
     status |-> "pending", policy |-> None,
     raced |-> read.binding # Binding(catalog, read.agent), copied |-> FALSE]
Submitting(s) ==
    /\ ~Taken(sub[s].request.key)
    /\ Len(jobs) < MaxJobs
    /\ jobs' = Append(jobs, SubmittedRow(sub[s]))
    /\ sub' = [sub EXCEPT ![s] = None]
    /\ UNCHANGED <<rosterVars, catalog, capacity, snapshot, agents, claim, left>>
SubmitExactRequest(s) == sub[s] # None /\ ~sub[s].request.routed /\ Submitting(s)
SubmitRoutedRequest(s) == sub[s] # None /\ sub[s].request.routed /\ Submitting(s)

\* A submit that lost the key to another one answers with the stored event and
\* job, or with a conflict, and writes nothing.
Replaying(s) ==
    /\ Taken(sub[s].request.key)
    /\ sub' = [sub EXCEPT ![s] = None]
    /\ UNCHANGED <<rosterVars, catalog, capacity, snapshot, agents, jobs, claim, left>>
ReplayExactRequest(s) == sub[s] # None /\ ~sub[s].request.routed /\ Replaying(s)
ReplayRoutedRequest(s) == sub[s] # None /\ sub[s].request.routed /\ Replaying(s)

\* retry_job: the binding is copied as it is, the execution context is not; a
\* routed job is not retried.
RetryJob(i) ==
    /\ i \in DOMAIN jobs /\ jobs[i].status = "failed" /\ ~jobs[i].request.routed
    /\ Len(jobs) < MaxJobs
    /\ jobs' = Append(jobs, [jobs[i] EXCEPT !.host = None, !.status = "pending",
                                            !.copied = TRUE])
    /\ Spend("submit")
    /\ UNCHANGED <<rosterVars, catalog, capacity, snapshot, agents, sub, claim>>
----------------------------------------------------------------------------
(* Claiming *)

\* The queue of an agent in the order of created_at; a claim with recoverable
\* also takes what timed out.
Claimable(recoverable) == IF recoverable THEN {"pending", "timed_out"} ELSE {"pending"}
Queue(a, recoverable) ==
    {i \in DOMAIN jobs: jobs[i].agent = a /\ jobs[i].status \in Claimable(recoverable)}
HeadOf(q) == IF q = {} THEN 0 ELSE CHOOSE i \in q: \A j \in q: i <= j

\* _validate_claim_authority: the execution context is for the host the claim
\* is made from, the stored binding is the current one, and the routing decision
\* was for that host.
ContextFor(i, host) == IF jobs[i].host = None THEN host ELSE jobs[i].host
ContextValid(i, host) == jobs[i].host \in {None, host}
BindingValid(i) == jobs[i].binding # None
                   /\ jobs[i].binding = Binding(catalog, jobs[i].agent)
RoutingValid(i) == jobs[i].request.routed => jobs[i].decided = jobs[i].host
Authorised(i, host) == ContextValid(i, host) /\ BindingValid(i) /\ RoutingValid(i)

\* claim_job reads the agent's host and whether it is typed, and for an untyped
\* one the candidate and its context, outside the transaction.
ClaimBegin(a, recoverable) ==
    LET typed == Binding(catalog, a) # None
        i == HeadOf(Queue(a, recoverable))
    IN  /\ claim[a] = None
        /\ typed \/ (i # 0 /\ ContextValid(i, agents[a].host))
        /\ claim' = [claim EXCEPT ![a] =
             [leased |-> typed, row |-> i, host |-> agents[a].host,
              status |-> IF i = 0 THEN None ELSE jobs[i].status,
              recoverable |-> recoverable]]
        /\ agents' = [agents EXCEPT ![a].live = TRUE]
        /\ UNCHANGED <<rosterVars, catalog, capacity, snapshot, jobs, sub, left>>

HasCapacity(a) ==
    /\ PolicyOf(capacity, a) # None
    /\ Cardinality(ActiveLeases(a)) < PolicyOf(capacity, a).max[a]

\* claim_leased_job: everything is checked again inside the transaction, and the
\* head of the queue must be authorised, or nothing is claimed.  (What a claim
\* may skip, a row whose worktree is taken, is in RuntimeLease.)
ClaimLeased(a) ==
    LET i == HeadOf(Queue(a, claim[a].recoverable))
    IN  /\ claim[a] # None /\ claim[a].leased
        /\ IF /\ i # 0
              /\ claim[a].host = agents[a].host
              /\ HasCapacity(a)
              /\ Authorised(i, claim[a].host)
             THEN jobs' = [jobs EXCEPT ![i].status = "running",
                             ![i].policy = PolicyOf(capacity, a),
                             ![i].host = ContextFor(i, claim[a].host)]
             ELSE UNCHANGED jobs
        /\ claim' = [claim EXCEPT ![a] = None]
        /\ UNCHANGED <<rosterVars, catalog, capacity, snapshot, agents, sub, left>>

\* The legacy claim asks for no current binding and no capacity, and its update
\* only for the status it read.
ClaimLegacy(a) ==
    LET i == claim[a].row
    IN  /\ claim[a] # None /\ ~claim[a].leased
        /\ IF jobs[i].status = claim[a].status /\ RoutingValid(i)
             THEN jobs' = [jobs EXCEPT ![i].status = "running",
                             ![i].host = ContextFor(i, claim[a].host)]
             ELSE UNCHANGED jobs
        /\ claim' = [claim EXCEPT ![a] = None]
        /\ UNCHANGED <<rosterVars, catalog, capacity, snapshot, agents, sub, left>>

\* A report, an expiry or a cancel ends the attempt and closes its lease.
EndJob(i, status) ==
    /\ i \in DOMAIN jobs
    /\ jobs[i].status = "running" \/ (status = "failed" /\ jobs[i].status \in Open)
    /\ jobs' = [jobs EXCEPT ![i].status = status, ![i].policy = None]
    /\ UNCHANGED <<rosterVars, catalog, capacity, snapshot, agents, sub, claim, left>>
----------------------------------------------------------------------------
RosterStep ==
    /\ \/ \E o \in Operators, n \in Agents, id \in DiscordIds:
            SetWorkspaceAgentRead(o, n, id)
       \/ \E n \in Agents: RemoveWorkspaceAgentOverride(n) \/ OverrideExpires(n)
       \/ \E o \in Operators, r \in Rosters: SyncWorkspaceAgentsRead(o, r)
       \/ \E o \in Operators: SetWorkspaceAgent(o) \/ SyncWorkspaceAgents(o)
    /\ Spend("roster")
    /\ UNCHANGED <<catalog, capacity, snapshot, agents, jobs, sub, claim>>

CatalogStep ==
    \/ \E c \in ExecCatalogs: SyncExecutorCatalog(c)
    \/ \E c \in CapCatalogs: SyncCapacityCatalog(c)
    \/ \E s \in CapSources: CaptureCapacitySnapshot(s)
    \/ RestoreCapacitySnapshot

AgentStep ==
    \E a \in Agents: \/ \E h \in Hosts: RegisterAgent(a, h)
                     \/ AgentLapses(a)

JobStep ==
    \/ \E s \in Submitters:
         SubmitExactRequest(s) \/ SubmitRoutedRequest(s)
    \/ \E s \in Submitters:
         ReplayExactRequest(s) \/ ReplayRoutedRequest(s)
    \/ \E s \in Submitters: \/ \E r \in Requests: SubmitExactRead(s, r)
                           \/ \E r \in Requests, a \in Agents: SubmitRoutedRead(s, r, a)
    \/ \E a \in Agents, recoverable \in BOOLEAN: ClaimBegin(a, recoverable)
    \/ \E a \in Agents: ClaimLeased(a) \/ ClaimLegacy(a)
    \/ \E i \in 1..MaxJobs: \/ RetryJob(i)
                           \/ \E st \in {"done", "failed", "timed_out"}: EndJob(i, st)

Next == RosterStep \/ CatalogStep \/ AgentStep \/ JobStep
Spec == Init /\ [][Next]_vars
----------------------------------------------------------------------------
\* A leased execution runs under the binding the catalog has now, on the host
\* its routing decision was for, whatever is synced and wherever the agent moves.
LeasedRunIsAuthorised ==
    \A i \in DOMAIN jobs: Leased(i) =>
        /\ jobs[i].status = "running"
        /\ BindingValid(i)
        /\ RoutingValid(i)

\* The policies that active leases refer to are the current ones, and no agent
\* has more leases than they allow: capacity syncs and restores never take a
\* policy from under a lease.
LeaseWithinPolicy ==
    \A a \in Agents: ActiveLeases(a) # {} =>
        /\ \A i \in ActiveLeases(a): jobs[i].policy = PolicyOf(capacity, a)
        /\ Cardinality(ActiveLeases(a)) <= PolicyOf(capacity, a).max[a]

\* An idempotency key gets one job, whoever submits it, however often, and
\* wherever the router would send it by then.
OneJobPerKey ==
    \A i, j \in DOMAIN jobs:
        jobs[i].request.key = jobs[j].request.key /\ ~jobs[i].copied /\ ~jobs[j].copied
          => i = j

\* A queued row with a binding that is no longer current got it in one of the
\* two ways nothing guards: a catalog sync landed inside the submit, or
\* retry_job copied it.  (Such a row stops its agent's leased claims.)
StaleBindingExplained ==
    \A i \in DOMAIN jobs:
        jobs[i].status = "pending" /\ jobs[i].binding # None
          => BindingValid(i) \/ jobs[i].raced \/ jobs[i].copied

\* Whatever writes the policies leaves each agent one policy, no policy without
\* a binding and no enabled binding without a policy.  (An executor catalog may
\* break the last two; then captures and restores refuse.)
CapacityStaysSound ==
    [][capacity' # capacity
         => /\ \A a \in Agents: \A s, t \in Policies(capacity'):
                  a \in DOMAIN capacity'[s].max \cap DOMAIN capacity'[t].max => s = t
            /\ Enabled(catalog) \subseteq PolicyAgents(capacity')
            /\ PolicyAgents(capacity') \subseteq Bound(catalog)]_vars
============================================================================
