----------------------- MODULE ExecutorRoutingProofs -----------------------
(***************************************************************************)
(* Proofs about ExecutorRouting and the roster it extends, for any agents, *)
(* sources, catalogs, rosters, requests and operators, any number of       *)
(* commands that overlap and any budgets.                                  *)
(***************************************************************************)
EXTENDS ExecutorRouting, FiniteSetTheorems, WellFoundedInduction, TLAPS

(* A legacy claim goes on with a row that it found waiting. *)
LegacyClaimsQueued ==
  \A a \in Agents : claim[a] # None /\ ~claim[a].leased =>
    claim[a].status \in {"pending", "timed_out"}

(* Only a retry leaves the host to the claim, and a routed job has none. *)
RoutedRowsHosted ==
  \A i \in DOMAIN jobs : jobs[i].request.routed => jobs[i].host # None

CatalogInv ==
  /\ KeyedBindings(catalog) /\ KeyedPolicies(capacity)
JobInv ==
  /\ RoutedRowsHosted
  /\ LeasedRunIsAuthorised /\ LeaseWithinPolicy
  /\ StaleBindingExplained /\ OneJobPerKey
IInv == TypeOK /\ RosterResolves /\ LegacyClaimsQueued /\ CatalogInv /\ JobInv

----------------------------------------------------------------------------
(* The roster *)

(* A sync has passed its version rules against the row as it was then, and *)
(* the row has not changed since unless the sync was overlapped.           *)
ReadIsFresh ==
  \A o \in Operators :
    syncing[o] # None /\ ~overlapped[o] => Newer(syncing[o], roster)

RosterNext ==
  \/ \E o \in Operators, n \in Agents, id \in DiscordIds : SetWorkspaceAgentRead(o, n, id)
  \/ \E o \in Operators : SetWorkspaceAgent(o)
  \/ \E n \in Agents : RemoveWorkspaceAgentOverride(n) \/ OverrideExpires(n)
  \/ \E o \in Operators, r \in Rosters : SyncWorkspaceAgentsRead(o, r)
  \/ \E o \in Operators : SyncWorkspaceAgents(o)

(* Every step of a specification that extends the roster is a step of the  *)
(* roster, or leaves it alone.                                             *)
LEMMA RosterSteps == [Next]_vars => RosterNext \/ UNCHANGED rosterVars
<1> SUFFICES ASSUME [Next]_vars, ~UNCHANGED rosterVars PROVE RosterNext
  OBVIOUS
<1>1. CASE RosterStep
  BY <1>1 DEF RosterStep, RosterNext
<1>2. CASE CatalogStep
  BY <1>2 DEF CatalogStep, SyncExecutorCatalog, SyncCapacityCatalog,
              CaptureCapacitySnapshot, RestoreCapacitySnapshot
<1>3. CASE AgentStep
  BY <1>3 DEF AgentStep, RegisterAgent, AgentLapses
<1>4. CASE JobStep
  BY <1>4 DEF JobStep, SubmitExactRequest, SubmitRoutedRequest, Submitting,
              ReplayExactRequest, ReplayRoutedRequest, Replaying, SubmitExactRead,
              SubmitRoutedRead, Reading, ClaimBegin, ClaimLeased, ClaimLegacy,
              RetryJob, EndJob
<1>5. CASE UNCHANGED vars
  BY <1>5 DEF vars
<1> QED BY <1>1, <1>2, <1>3, <1>4, <1>5 DEF Next

LEMMA RosterTyped == RosterTypeOK /\ RosterNext => RosterTypeOK'
<1> SUFFICES ASSUME RosterTypeOK, RosterNext PROVE RosterTypeOK'
  OBVIOUS
<1> USE DEF RosterTypeOK
<1>1. ASSUME NEW o \in Operators, SetWorkspaceAgent(o) PROVE RosterTypeOK'
  <2>1. setting[o] \in Setting
    BY <1>1 DEF SetWorkspaceAgent
  <2>2. [id |-> setting[o].id, expired |-> FALSE] \in Override
    BY <2>1 DEF Setting, Override
  <2> QED BY <1>1, <2>1, <2>2 DEF SetWorkspaceAgent
<1>6. ASSUME NEW o \in Operators, NEW n \in Agents, NEW id \in DiscordIds,
             SetWorkspaceAgentRead(o, n, id)
      PROVE  RosterTypeOK'
  <2>1. [name |-> n, id |-> id, updates |-> override[n] # None] \in Setting
    BY DEF Setting
  <2> QED BY <1>6, <2>1 DEF SetWorkspaceAgentRead
<1>2. ASSUME NEW n \in Agents, RemoveWorkspaceAgentOverride(n)
      PROVE  RosterTypeOK'
  BY <1>2 DEF RemoveWorkspaceAgentOverride
<1>3. ASSUME NEW n \in Agents, OverrideExpires(n)
      PROVE  RosterTypeOK'
  <2>1. override[n] \in Override
    BY <1>3 DEF OverrideExpires, Live
  <2>2. [override[n] EXCEPT !.expired = TRUE] \in Override
    BY <2>1 DEF Override
  <2>3. override' = [override EXCEPT ![n] = [override[n] EXCEPT !.expired = TRUE]]
    BY <1>3 DEF OverrideExpires
  <2> QED BY <1>3, <2>2, <2>3 DEF OverrideExpires
<1>4. ASSUME NEW o \in Operators, NEW r \in Rosters, SyncWorkspaceAgentsRead(o, r)
      PROVE  RosterTypeOK'
  BY <1>4 DEF SyncWorkspaceAgentsRead
<1>5. ASSUME NEW o \in Operators, SyncWorkspaceAgents(o)
      PROVE  RosterTypeOK'
  <2>1. roster' \in Rosters \cup {None}
    BY <1>5 DEF SyncWorkspaceAgents
  <2>2. overlapped' \in [Operators -> BOOLEAN]
    BY <1>5 DEF SyncWorkspaceAgents
  <2> QED BY <1>5, <2>1, <2>2 DEF SyncWorkspaceAgents
<1> QED BY <1>1, <1>2, <1>3, <1>4, <1>5, <1>6 DEF RosterNext

(* Writes that change entries resolve or are rolled back, and an expiry    *)
(* leaves the expired override behind.                                     *)
LEMMA RosterKeeps ==
  RosterTypeOK /\ RosterResolves /\ RosterNext => RosterResolves'
<1> SUFFICES ASSUME RosterTypeOK, RosterResolves, RosterNext PROVE RosterResolves'
  OBVIOUS
<1>1. ASSUME NEW o \in Operators, SetWorkspaceAgent(o) PROVE RosterResolves'
  BY <1>1 DEF SetWorkspaceAgent, ProjectionWritable, RosterResolves
<1>6. ASSUME NEW o \in Operators, NEW n \in Agents, NEW id \in DiscordIds,
             SetWorkspaceAgentRead(o, n, id)
      PROVE  RosterResolves'
  BY <1>6 DEF SetWorkspaceAgentRead, RosterResolves
<1>2. ASSUME NEW n \in Agents, RemoveWorkspaceAgentOverride(n)
      PROVE  RosterResolves'
  BY <1>2 DEF RemoveWorkspaceAgentOverride, ProjectionWritable, RosterResolves
<1>3. ASSUME NEW n \in Agents, OverrideExpires(n)
      PROVE  RosterResolves'
  <2>1. override[n] \in Override
    BY <1>3 DEF OverrideExpires, Live, RosterTypeOK
  <2>2. override'[n] = [override[n] EXCEPT !.expired = TRUE]
    BY <1>3 DEF OverrideExpires, RosterTypeOK
  <2>3. override'[n] \in Override /\ override'[n].expired
    BY <2>1, <2>2 DEF Override
  <2> QED BY <2>3, RosterAssumption DEF RosterResolves
<1>4. ASSUME NEW o \in Operators, NEW r \in Rosters, SyncWorkspaceAgentsRead(o, r)
      PROVE  RosterResolves'
  BY <1>4 DEF SyncWorkspaceAgentsRead, RosterResolves
<1>5. ASSUME NEW o \in Operators, SyncWorkspaceAgents(o)
      PROVE  RosterResolves'
  BY <1>5 DEF SyncWorkspaceAgents, ProjectionWritable, RosterResolves
<1> QED BY <1>1, <1>2, <1>3, <1>4, <1>5, <1>6 DEF RosterNext

(* Without overrides the roster alone is resolved, which names an id once. *)
LEMMA RosterStarts == RosterInit => RosterTypeOK /\ RosterResolves
<1> SUFFICES ASSUME RosterInit PROVE RosterTypeOK /\ RosterResolves
  OBVIOUS
<1>1. RosterTypeOK
  BY RosterAssumption DEF RosterInit, RosterTypeOK
<1>2. Resolvable(roster, override)
  <2>1. \A n \in Agents : ~Live(override, n)
    BY DEF RosterInit, Live
  <2>2. CASE roster = None
    BY <2>1, <2>2 DEF Resolvable, EffectiveAgents, IdsOf
  <2>3. CASE roster \in Rosters
    BY <2>1, <2>3, RosterAssumption DEF Resolvable, EffectiveAgents, IdsOf, ParsedRoster
  <2> QED BY <2>2, <2>3, RosterAssumption DEF RosterInit
<1> QED BY <1>1, <1>2 DEF RosterResolves

----------------------------------------------------------------------------
(* Queues, bindings and policies *)

LEMMA Smallest ==
  ASSUME NEW S, S \subseteq Nat, S # {}
  PROVE  \E i \in S : \A j \in S : i <= j
<1> DEFINE R == OpToRel(<, Nat)
<1>1. PICK i \in S : \A j \in S : ~ (<<j, i>> \in R)
  <2> HIDE DEF R
  <2>1. IsWellFoundedOn(R, Nat)
    BY NatLessThanWellFounded DEF R
  <2> QED BY <2>1, WFMin
<1>2. \A j \in S : ~ (j < i)
  BY <1>1 DEF OpToRel
<1> QED BY <1>2

LEMMA HeadWaits ==
  ASSUME TypeOK, NEW a, NEW recoverable,
         HeadOf(Queue(a, recoverable)) # 0
  PROVE  HeadOf(Queue(a, recoverable)) \in Queue(a, recoverable)
<1> DEFINE q == Queue(a, recoverable)
<1>1. q # {}
  BY DEF HeadOf
<1>2. q \in SUBSET Nat
  BY DEF Queue, TypeOK
<1> HIDE DEF q
<1>3. \E i \in q : \A j \in q : i <= j
  BY <1>1, <1>2, Smallest
<1>4. HeadOf(q) \in q
  BY <1>1, <1>3 DEF HeadOf
<1> QED BY <1>4 DEF q

Catalogs == [ExecSources -> ExecCatalogs \cup {None}]
Capacities == [CapSources -> CapCatalogs \cup {None}]

LEMMA BindingBySource ==
  ASSUME NEW cat \in Catalogs, KeyedBindings(cat),
         NEW s \in ExecSources, cat[s] # None, NEW a \in cat[s].enabled
  PROVE  Binding(cat, a) = cat[s]
<1>1. a \in Enabled(cat)
  BY DEF Enabled
<1>2. \A t \in ExecSources : cat[t] # None /\ a \in cat[t].enabled => t = s
  <2> SUFFICES ASSUME NEW t \in ExecSources, cat[t] # None, a \in cat[t].enabled, t # s
               PROVE  FALSE
    OBVIOUS
  <2>1. ParsedCatalog(cat[s]) /\ ParsedCatalog(cat[t])
    BY CatalogAssumption DEF Catalogs
  <2>2. a \in cat[s].bound \cap cat[t].bound
    BY <2>1 DEF ParsedCatalog
  <2> QED BY <2>2 DEF KeyedBindings
<1>3. (CHOOSE t \in ExecSources : cat[t] # None /\ a \in cat[t].enabled) = s
  BY <1>2
<1> QED BY <1>1, <1>3 DEF Binding

LEMMA SourceOfBinding ==
  ASSUME NEW cat, NEW a, Binding(cat, a) # None
  PROVE  \E s \in ExecSources :
           cat[s] # None /\ a \in cat[s].enabled /\ Binding(cat, a) = cat[s]
<1>1. a \in Enabled(cat)
  BY DEF Binding
<1>2. \E s \in ExecSources : cat[s] # None /\ a \in cat[s].enabled
  BY <1>1 DEF Enabled
<1> QED BY <1>1, <1>2 DEF Binding

LEMMA PolicyBySource ==
  ASSUME NEW cap \in Capacities, KeyedPolicies(cap),
         NEW s \in CapSources, cap[s] # None, NEW a \in DOMAIN cap[s].max
  PROVE  PolicyOf(cap, a) = cap[s]
<1>1. s \in Policies(cap) /\ a \in PolicyAgents(cap)
  BY DEF PolicyAgents, Policies
<1>2. \A t \in Policies(cap) : a \in DOMAIN cap[t].max => t = s
  BY DEF Policies, KeyedPolicies
<1>3. (CHOOSE t \in Policies(cap) : a \in DOMAIN cap[t].max) = s
  BY <1>1, <1>2
<1> QED BY <1>1, <1>3 DEF PolicyOf

LEMMA SourceOfPolicy ==
  ASSUME NEW cap, NEW a, PolicyOf(cap, a) # None
  PROVE  \E s \in CapSources :
           cap[s] # None /\ a \in DOMAIN cap[s].max /\ PolicyOf(cap, a) = cap[s]
<1>1. a \in PolicyAgents(cap)
  BY DEF PolicyOf
<1>2. \E s \in Policies(cap) : a \in DOMAIN cap[s].max
  BY <1>1 DEF PolicyAgents
<1> QED BY <1>1, <1>2 DEF PolicyOf, Policies

LEMMA PolicyBounds ==
  ASSUME NEW cap \in Capacities, NEW a, PolicyOf(cap, a) # None
  PROVE  PolicyOf(cap, a) \in CapCatalogs /\ PolicyOf(cap, a).max[a] \in Nat \ {0}
BY SourceOfPolicy, CatalogAssumption DEF Capacities, ParsedCapacity

LEMMA BindingTyped ==
  ASSUME NEW cat \in Catalogs, NEW a
  PROVE  Binding(cat, a) \in ExecCatalogs \cup {None}
BY SourceOfBinding DEF Catalogs

(* The primary keys of the bindings and of the policies. *)
LEMMA ReplacedKeyed ==
  ASSUME TypeOK, KeyedBindings(catalog), NEW c \in ExecCatalogs, Unowned(c)
  PROVE  KeyedBindings(Replaced(c)) /\ Replaced(c) \in Catalogs
<1>1. c # None /\ c.source \in ExecSources
  BY CatalogAssumption DEF ParsedCatalog
<1> QED BY <1>1 DEF KeyedBindings, Unowned, Replaced, TypeOK, Catalogs

LEMMA SyncedKeyed ==
  ASSUME TypeOK, KeyedPolicies(capacity), NEW c \in CapCatalogs,
         Owned(Synced(c), c.source)
  PROVE  KeyedPolicies(Synced(c)) /\ Synced(c) \in Capacities
<1>1. c # None /\ c.source \in CapSources
  BY CatalogAssumption DEF ParsedCapacity
<1> QED BY <1>1 DEF KeyedPolicies, Owned, Policies, Synced, TypeOK, Capacities

LEMMA RestoredKeyed ==
  ASSUME TypeOK, KeyedPolicies(capacity), snapshot # None,
         Owned(Restored, snapshot.target)
  PROVE  KeyedPolicies(Restored) /\ Restored \in Capacities
<1> DEFINE t == snapshot.target
<1>1. /\ t \in CapSources
      /\ snapshot.captured # None =>
           snapshot.captured \in CapCatalogs /\ snapshot.captured.source = t
  BY DEF TypeOK, ParsedSnapshot, ParsedCaptured
<1>2. Restored \in Capacities /\ Restored[t] = snapshot.captured
      /\ \A s \in CapSources \ {t} : Restored[s] = capacity[s]
  BY <1>1 DEF Restored, TypeOK, Capacities
<1>3. \A s \in CapSources : Restored[s] # None => Restored[s].source = s
  BY <1>1, <1>2 DEF KeyedPolicies
<1>4. \A s \in CapSources \ {t} : Restored[t] # None /\ Restored[s] # None =>
        DOMAIN Restored[s].max \cap DOMAIN Restored[t].max = {}
  BY <1>2 DEF Owned, Policies
<1>5. \A s, u \in CapSources : Restored[s] # None /\ Restored[u] # None /\ s # u =>
        DOMAIN Restored[s].max \cap DOMAIN Restored[u].max = {}
  BY <1>2, <1>4 DEF KeyedPolicies
<1> QED BY <1>2, <1>3, <1>5 DEF KeyedPolicies

----------------------------------------------------------------------------
(* Type correctness *)

LEMMA RowsTyped ==
  ASSUME TypeOK, NEW i \in DOMAIN jobs
  PROVE  i \in 1 .. Len(jobs) /\ jobs[i] \in Row
BY DEF TypeOK

(* What a claim of a queue writes down. *)
LEMMA HeadTyped ==
  ASSUME TypeOK, NEW a, NEW recoverable \in BOOLEAN
  PROVE  LET i == HeadOf(Queue(a, recoverable))
         IN  /\ i \in 0 .. Len(jobs)
             /\ i # 0 => /\ i \in DOMAIN jobs
                         /\ jobs[i].agent = a
                         /\ jobs[i].status \in {"pending", "timed_out"}
<1> DEFINE i == HeadOf(Queue(a, recoverable))
<1>1. CASE i = 0
  <2>1. Len(jobs) \in Nat
    BY DEF TypeOK
  <2> QED BY <1>1, <2>1
<1>2. CASE i # 0
  <2>1. i \in Queue(a, recoverable)
    BY <1>2, HeadWaits
  <2>2. i \in DOMAIN jobs /\ jobs[i].agent = a /\ jobs[i].status \in {"pending", "timed_out"}
    BY <2>1 DEF Queue, Claimable
  <2>3. i \in 1 .. Len(jobs)
    BY <2>2, RowsTyped
  <2> QED BY <2>2, <2>3
<1> QED BY <1>1, <1>2

LEMMA InitTyped == Init => TypeOK
<1> SUFFICES ASSUME Init PROVE TypeOK
  OBVIOUS
<1>1. RosterTypeOK
  BY RosterStarts DEF Init
<1>2. agents \in [Agents -> [host : Hosts, live : BOOLEAN]]
  BY CatalogAssumption DEF Init
<1>3. left \in [Kinds -> Nat]
  BY CatalogAssumption DEF Init
<1>4. jobs \in Seq(Row)
  BY DEF Init
<1> QED BY <1>1, <1>2, <1>3, <1>4, CatalogAssumption DEF Init, TypeOK

LEMMA Spent ==
  ASSUME left \in [Kinds -> Nat], NEW kind \in Kinds, Spend(kind)
  PROVE  left' \in [Kinds -> Nat]
BY DEF Spend

LEMMA CatalogTyped == TypeOK /\ CatalogInv /\ CatalogStep => TypeOK' /\ CatalogInv'
<1> SUFFICES ASSUME TypeOK, CatalogInv, CatalogStep PROVE TypeOK' /\ CatalogInv'
  OBVIOUS
<1>0. "catalog" \in Kinds
  BY DEF Kinds
<1>1. ASSUME NEW c \in ExecCatalogs, SyncExecutorCatalog(c)
      PROVE  TypeOK' /\ CatalogInv'
  <2>1. KeyedBindings(catalog') /\ catalog' \in Catalogs
    BY <1>1, ReplacedKeyed DEF SyncExecutorCatalog, CatalogInv
  <2>2. left' \in [Kinds -> Nat]
    BY <1>0, <1>1, Spent DEF SyncExecutorCatalog, TypeOK
  <2>3. RosterTypeOK'
    BY <1>1 DEF SyncExecutorCatalog, TypeOK, RosterTypeOK, rosterVars
  <2>4. TypeOK'
    BY <1>1, <2>1, <2>2, <2>3 DEF SyncExecutorCatalog, TypeOK, Catalogs
  <2> QED BY <1>1, <2>1, <2>4 DEF SyncExecutorCatalog, CatalogInv
<1>2. ASSUME NEW c \in CapCatalogs, SyncCapacityCatalog(c)
      PROVE  TypeOK' /\ CatalogInv'
  <2>1. KeyedPolicies(capacity') /\ capacity' \in Capacities
    BY <1>2, SyncedKeyed DEF SyncCapacityCatalog, CatalogInv
  <2>2. left' \in [Kinds -> Nat]
    BY <1>0, <1>2, Spent DEF SyncCapacityCatalog, TypeOK
  <2>3. RosterTypeOK'
    BY <1>2 DEF SyncCapacityCatalog, TypeOK, RosterTypeOK, rosterVars
  <2>4. TypeOK'
    BY <1>2, <2>1, <2>2, <2>3 DEF SyncCapacityCatalog, TypeOK, Capacities
  <2> QED BY <1>2, <2>1, <2>4 DEF SyncCapacityCatalog, CatalogInv
<1>3. ASSUME NEW s \in CapSources, CaptureCapacitySnapshot(s)
      PROVE  TypeOK' /\ CatalogInv'
  <2>1. ParsedSnapshot(snapshot')
    BY <1>3 DEF CaptureCapacitySnapshot, Envelope, Others, ParsedSnapshot, ParsedCaptured,
                TypeOK, CatalogInv, KeyedPolicies
  <2>2. left' \in [Kinds -> Nat]
    BY <1>0, <1>3, Spent DEF CaptureCapacitySnapshot, TypeOK
  <2>3. RosterTypeOK'
    BY <1>3 DEF CaptureCapacitySnapshot, TypeOK, RosterTypeOK, rosterVars
  <2>4. TypeOK'
    BY <1>3, <2>1, <2>2, <2>3 DEF CaptureCapacitySnapshot, TypeOK
  <2> QED BY <1>3, <2>4 DEF CaptureCapacitySnapshot, CatalogInv
<1>4. ASSUME RestoreCapacitySnapshot
      PROVE  TypeOK' /\ CatalogInv'
  <2>1. KeyedPolicies(capacity') /\ capacity' \in Capacities
    BY <1>4, RestoredKeyed DEF RestoreCapacitySnapshot, CatalogInv
  <2>2. left' \in [Kinds -> Nat]
    BY <1>0, <1>4, Spent DEF RestoreCapacitySnapshot, TypeOK
  <2>3. RosterTypeOK'
    BY <1>4 DEF RestoreCapacitySnapshot, TypeOK, RosterTypeOK, rosterVars
  <2>4. TypeOK'
    BY <1>4, <2>1, <2>2, <2>3 DEF RestoreCapacitySnapshot, TypeOK, Capacities
  <2> QED BY <1>4, <2>1, <2>4 DEF RestoreCapacitySnapshot, CatalogInv
<1> QED BY <1>1, <1>2, <1>3, <1>4 DEF CatalogStep

(* The queue of jobs grows and its rows change, but none leaves. *)
LEMMA ClaimsTyped ==
  ASSUME TypeOK, claim' = claim, Len(jobs') \in Nat, Len(jobs) <= Len(jobs')
  PROVE  /\ claim' \in [Agents -> Claim \cup {None}]
         /\ \A a \in Agents : claim'[a] # None =>
              claim'[a].row \in 0 .. Len(jobs') /\ (~claim'[a].leased => claim'[a].row # 0)
<1>1. Len(jobs) \in Nat
  BY DEF TypeOK
<1>2. 0 .. Len(jobs) \subseteq 0 .. Len(jobs')
  BY <1>1
<1> QED BY <1>2 DEF TypeOK

LEMMA AppendedTyped ==
  ASSUME TypeOK, NEW row \in Row, jobs' = Append(jobs, row), claim' = claim,
         sub' \in [Submitters -> Read \cup {None}], left' \in [Kinds -> Nat],
         UNCHANGED <<rosterVars, catalog, capacity, snapshot, agents>>
  PROVE  TypeOK'
<1>1. jobs' \in Seq(Row) /\ Len(jobs') \in Nat /\ Len(jobs) <= Len(jobs')
  BY DEF TypeOK
<1>2. RosterTypeOK'
  BY DEF TypeOK, RosterTypeOK, rosterVars
<1> QED BY <1>1, <1>2, ClaimsTyped DEF TypeOK

LEMMA UpdatedTyped ==
  ASSUME TypeOK, NEW i \in DOMAIN jobs, NEW row \in Row,
         jobs' = [jobs EXCEPT ![i] = row] \/ jobs' = jobs,
         claim' = claim \/ \E a \in Agents : claim' = [claim EXCEPT ![a] = None],
         UNCHANGED <<rosterVars, catalog, capacity, snapshot, agents, sub, left>>
  PROVE  TypeOK'
<1>1. jobs' \in Seq(Row) /\ Len(jobs') = Len(jobs)
  BY RowsTyped DEF TypeOK
<1>2. RosterTypeOK'
  BY DEF TypeOK, RosterTypeOK, rosterVars
<1>3. claim' \in [Agents -> Claim \cup {None}]
  BY DEF TypeOK
<1>4. \A a \in Agents : claim'[a] # None =>
        claim'[a].row \in 0 .. Len(jobs') /\ (~claim'[a].leased => claim'[a].row # 0)
  BY <1>1 DEF TypeOK
<1> QED BY <1>1, <1>2, <1>3, <1>4 DEF TypeOK

----------------------------------------------------------------------------
(* What a step of the queue has to keep *)

(* One row of JobInv, for the catalog there is. *)
RowInv(row) ==
  /\ row.request.routed => row.host # None
  /\ row.policy # None =>
       /\ row.status = "running"
       /\ row.binding # None /\ row.binding = Binding(catalog, row.agent)
       /\ row.request.routed => row.decided = row.host
       /\ row.policy = PolicyOf(capacity, row.agent)
  /\ row.status = "pending" /\ row.binding # None =>
       row.binding = Binding(catalog, row.agent) \/ row.raced \/ row.copied

Within == \A a \in Agents : ActiveLeases(a) # {} =>
            Cardinality(ActiveLeases(a)) <= PolicyOf(capacity, a).max[a]

LEMMA ByRows ==
  TypeOK => (JobInv <=> /\ \A i \in DOMAIN jobs : RowInv(jobs[i])
                        /\ Within /\ OneJobPerKey)
<1> SUFFICES ASSUME TypeOK
             PROVE  JobInv <=> /\ \A i \in DOMAIN jobs : RowInv(jobs[i])
                               /\ Within /\ OneJobPerKey
  OBVIOUS
<1>1. \A i \in DOMAIN jobs : jobs[i].agent \in Agents
  BY RowsTyped DEF Row
<1>2. LeaseWithinPolicy <=>
        /\ \A i \in DOMAIN jobs : Leased(i) => jobs[i].policy = PolicyOf(capacity, jobs[i].agent)
        /\ Within
  BY <1>1 DEF LeaseWithinPolicy, Within, ActiveLeases
<1> QED BY <1>2 DEF JobInv, RowInv, RoutedRowsHosted, LeasedRunIsAuthorised,
                   StaleBindingExplained, Leased, BindingValid, RoutingValid

LEMMA ByRowsNext ==
  TypeOK' => (JobInv' <=> /\ \A i \in DOMAIN jobs' : RowInv(jobs[i])'
                          /\ Within' /\ OneJobPerKey')
<1>1. TypeOK' => (JobInv <=> /\ \A i \in DOMAIN jobs : RowInv(jobs[i])
                             /\ Within /\ OneJobPerKey)'
  BY ByRows, PTL
<1> QED BY <1>1

LEMMA LeasesFinite ==
  ASSUME TypeOK, NEW a
  PROVE  IsFiniteSet(ActiveLeases(a)) /\ Cardinality(ActiveLeases(a)) \in Nat
<1>1. ActiveLeases(a) \subseteq 1 .. Len(jobs) /\ Len(jobs) \in Nat
  BY DEF ActiveLeases, TypeOK
<1>2. IsFiniteSet(1 .. Len(jobs))
  BY <1>1, FS_Interval
<1>3. IsFiniteSet(ActiveLeases(a))
  BY <1>1, <1>2, FS_Subset
<1> QED BY <1>3, FS_CardinalityType

(* A row without a lease may join the queue. *)
LEMMA AppendedKeeps ==
  ASSUME TypeOK, JobInv, TypeOK', UNCHANGED <<catalog, capacity>>,
         NEW row \in Row, jobs' = Append(jobs, row),
         row.policy = None, RowInv(row), row.copied \/ ~Taken(row.request.key)
  PROVE  JobInv'
<1>1. /\ Len(jobs) \in Nat /\ DOMAIN jobs = 1 .. Len(jobs)
      /\ DOMAIN jobs' = 1 .. Len(jobs) + 1 /\ jobs'[Len(jobs) + 1] = row
      /\ \A i \in DOMAIN jobs : jobs'[i] = jobs[i]
  BY DEF TypeOK
<1>2. \A i \in DOMAIN jobs' : RowInv(jobs[i])' 
  <2> SUFFICES ASSUME NEW i \in DOMAIN jobs' PROVE RowInv(jobs'[i])
    BY DEF RowInv
  <2> QED BY <1>1, ByRows
<1>3. \A a \in Agents : ActiveLeases(a)' = ActiveLeases(a)
  BY <1>1 DEF ActiveLeases, Leased
<1>4. Within'
  BY <1>3, ByRows DEF Within
<1>5. OneJobPerKey'
  <2>1. \A i \in DOMAIN jobs : row.copied \/ jobs[i].copied
                             \/ jobs[i].request.key # row.request.key
    BY DEF Taken
  <2> QED BY <1>1, <2>1, ByRows DEF OneJobPerKey
<1> QED BY <1>2, <1>4, <1>5, ByRowsNext

(* What a row was asked and how it was bound never changes, and it leaves  *)
(* the queue for good; a row that is leased finds room in the policy.      *)
SameRequest(old, new) ==
  /\ new.request = old.request /\ new.agent = old.agent
  /\ new.binding = old.binding /\ new.copied = old.copied
LEMMA UpdatedKeeps ==
  ASSUME TypeOK, JobInv, TypeOK', UNCHANGED <<catalog, capacity>>,
         NEW i \in DOMAIN jobs, NEW row \in Row, jobs' = [jobs EXCEPT ![i] = row],
         SameRequest(jobs[i], row), RowInv(row),
         row.policy # None /\ ~Leased(i) => HasCapacity(row.agent)
  PROVE  JobInv'
<1>1. /\ DOMAIN jobs' = DOMAIN jobs /\ jobs'[i] = row
      /\ \A j \in DOMAIN jobs \ {i} : jobs'[j] = jobs[j]
  BY DEF TypeOK
<1>2. \A j \in DOMAIN jobs' : RowInv(jobs[j])'
  <2> SUFFICES ASSUME NEW j \in DOMAIN jobs' PROVE RowInv(jobs'[j])
    BY DEF RowInv
  <2> QED BY <1>1, ByRows
<1>3. Within'
  <2> SUFFICES ASSUME NEW a \in Agents, ActiveLeases(a)' # {}
               PROVE  Cardinality(ActiveLeases(a)') <= PolicyOf(capacity, a).max[a]
    BY DEF Within
  <2>1. CASE ActiveLeases(a)' \subseteq ActiveLeases(a)
    <3>1. Cardinality(ActiveLeases(a)') <= Cardinality(ActiveLeases(a))
      BY <2>1, LeasesFinite, FS_Subset
    <3>2. Cardinality(ActiveLeases(a)') \in Nat
      BY <2>1, LeasesFinite, FS_Subset, FS_CardinalityType
    <3>3. PICK k \in ActiveLeases(a) : TRUE
      BY <2>1
    <3>4. PolicyOf(capacity, a) # None
      BY <3>3, ByRows DEF ActiveLeases, Leased, RowInv
    <3>5. PolicyOf(capacity, a).max[a] \in Nat
      BY <3>4, PolicyBounds DEF TypeOK, Capacities
    <3>6. Cardinality(ActiveLeases(a)) <= PolicyOf(capacity, a).max[a]
      BY <3>3, ByRows DEF Within
    <3> QED BY <3>1, <3>2, <3>5, <3>6, LeasesFinite
  <2>2. CASE ~(ActiveLeases(a)' \subseteq ActiveLeases(a))
    <3>1. row.policy # None /\ ~Leased(i) /\ row.agent = a
      BY <1>1, <2>2 DEF ActiveLeases, Leased, SameRequest
    <3>2. ActiveLeases(a)' = ActiveLeases(a) \cup {i} /\ i \notin ActiveLeases(a)
      BY <1>1, <3>1 DEF ActiveLeases, Leased, SameRequest
    <3>3. Cardinality(ActiveLeases(a)') = Cardinality(ActiveLeases(a)) + 1
      BY <3>2, LeasesFinite, FS_AddElement
    <3>4. /\ PolicyOf(capacity, a).max[a] \in Nat
          /\ Cardinality(ActiveLeases(a)) < PolicyOf(capacity, a).max[a]
      BY <3>1, PolicyBounds DEF HasCapacity, TypeOK, Capacities
    <3> QED BY <3>3, <3>4, LeasesFinite
  <2> QED BY <2>1, <2>2
<1>4. OneJobPerKey'
  BY <1>1, ByRows DEF OneJobPerKey, SameRequest
<1> QED BY <1>2, <1>3, <1>4, ByRowsNext

----------------------------------------------------------------------------
(* The steps of the catalogs *)

(* A row in flight under the catalog of a source keeps its binding: the    *)
(* sync of another source neither takes its agent nor rebinds it.          *)
LEMMA BindingKept ==
  ASSUME TypeOK, CatalogInv, NEW c \in ExecCatalogs, Unowned(c),
         NEW a, Binding(catalog, a) # None, Binding(catalog, a).source # c.source
  PROVE  Binding(Replaced(c), a) = Binding(catalog, a)
<1>1. PICK s \in ExecSources : catalog[s] # None /\ a \in catalog[s].enabled
                              /\ Binding(catalog, a) = catalog[s]
  BY SourceOfBinding
<1>2. s # c.source
  BY <1>1 DEF CatalogInv, KeyedBindings
<1>3. Replaced(c)[s] = catalog[s]
  BY <1>2 DEF Replaced, TypeOK
<1>4. KeyedBindings(Replaced(c)) /\ Replaced(c) \in Catalogs
  BY ReplacedKeyed DEF CatalogInv
<1>5. Binding(Replaced(c), a) = Replaced(c)[s]
  BY <1>1, <1>3, <1>4, BindingBySource
<1> QED BY <1>1, <1>3, <1>5

LEMMA PolicyKept ==
  ASSUME TypeOK, CatalogInv, NEW c \in CapCatalogs, Owned(Synced(c), c.source),
         NEW a, PolicyOf(capacity, a) # None, PolicyOf(capacity, a) # capacity[c.source]
  PROVE  PolicyOf(Synced(c), a) = PolicyOf(capacity, a)
<1>1. PICK s \in CapSources : capacity[s] # None /\ a \in DOMAIN capacity[s].max
                             /\ PolicyOf(capacity, a) = capacity[s]
  BY SourceOfPolicy
<1>2. s # c.source
  BY <1>1
<1>3. Synced(c)[s] = capacity[s]
  BY <1>2 DEF Synced, TypeOK
<1>4. KeyedPolicies(Synced(c)) /\ Synced(c) \in Capacities
  BY SyncedKeyed DEF CatalogInv
<1>5. PolicyOf(Synced(c), a) = Synced(c)[s]
  BY <1>1, <1>3, <1>4, PolicyBySource
<1> QED BY <1>1, <1>3, <1>5

LEMMA CatalogKeeps == TypeOK /\ CatalogInv /\ JobInv /\ CatalogStep => JobInv'
<1> SUFFICES ASSUME TypeOK, CatalogInv, JobInv, CatalogStep PROVE JobInv'
  OBVIOUS
<1>0. TypeOK' /\ \A i \in DOMAIN jobs : RowInv(jobs[i])
  BY CatalogTyped, ByRows
<1>1. ASSUME NEW c \in ExecCatalogs, SyncExecutorCatalog(c) PROVE JobInv'
  <2>1. ASSUME NEW i \in DOMAIN jobs PROVE RowInv(jobs[i])'
    <3>1. ASSUME jobs[i].status \in InFlight, jobs[i].binding # None,
                 jobs[i].binding = Binding(catalog, jobs[i].agent)
          PROVE  jobs[i].binding = Binding(Replaced(c), jobs[i].agent)
      BY <1>1, <3>1, BindingKept DEF SyncExecutorCatalog, Drained
    <3> QED BY <1>0, <1>1, <3>1 DEF SyncExecutorCatalog, RowInv, InFlight
  <2>2. Within' /\ OneJobPerKey'
    BY <1>1, ByRows DEF SyncExecutorCatalog, Within, OneJobPerKey, ActiveLeases, Leased
  <2>3. jobs' = jobs
    BY <1>1 DEF SyncExecutorCatalog
  <2> QED BY <1>0, <2>1, <2>2, <2>3, ByRowsNext
<1>2. ASSUME NEW c \in CapCatalogs, SyncCapacityCatalog(c) PROVE JobInv'
  <2>0. jobs' = jobs /\ catalog' = catalog /\ capacity' = Synced(c)
    BY <1>2 DEF SyncCapacityCatalog
  <2>1. ASSUME NEW i \in DOMAIN jobs, Leased(i)
        PROVE  PolicyOf(Synced(c), jobs[i].agent) = PolicyOf(capacity, jobs[i].agent)
    <3>1. /\ jobs[i].policy = PolicyOf(capacity, jobs[i].agent)
          /\ jobs[i].policy # None
      BY <1>0, <2>1 DEF RowInv, Leased
    <3>2. PICK s \in CapSources : capacity[s] # None
                             /\ jobs[i].agent \in DOMAIN capacity[s].max
                             /\ jobs[i].policy = capacity[s]
      BY <3>1, SourceOfPolicy
    <3>3. i \in ActiveLeases(jobs[i].agent)
      BY <2>1 DEF ActiveLeases
    <3>4. s # c.source
      BY <1>2, <3>2, <3>3 DEF SyncCapacityCatalog, Referenced
    <3>5. capacity[s] # capacity[c.source]
      <4>1. c.source \in CapSources
        BY CatalogAssumption DEF ParsedCapacity
      <4> QED BY <3>2, <3>4, <4>1 DEF CatalogInv, KeyedPolicies
    <3> QED BY <1>2, <3>1, <3>2, <3>5, PolicyKept DEF SyncCapacityCatalog
  <2>2. ASSUME NEW i \in DOMAIN jobs PROVE RowInv(jobs[i])'
    BY <1>0, <2>0, <2>1 DEF RowInv, Leased
  <2>3. Within'
    <3> SUFFICES ASSUME NEW a \in Agents, ActiveLeases(a)' # {}
                 PROVE  Cardinality(ActiveLeases(a)') <= PolicyOf(capacity', a).max[a]
      BY DEF Within
    <3>1. ActiveLeases(a)' = ActiveLeases(a)
      BY <2>0 DEF ActiveLeases, Leased
    <3>2. PICK k \in DOMAIN jobs : Leased(k) /\ jobs[k].agent = a
      BY <3>1 DEF ActiveLeases
    <3>3. PolicyOf(capacity', a) = PolicyOf(capacity, a)
      BY <2>0, <2>1, <3>2
    <3> QED BY <3>1, <3>3, ByRows DEF Within
  <2>4. OneJobPerKey'
    BY <2>0, ByRows DEF OneJobPerKey
  <2> QED BY <1>0, <2>0, <2>2, <2>3, <2>4, ByRowsNext
<1>3. ASSUME NEW s \in CapSources, CaptureCapacitySnapshot(s) PROVE JobInv'
  <2>0. jobs' = jobs /\ catalog' = catalog /\ capacity' = capacity
    BY <1>3 DEF CaptureCapacitySnapshot
  <2>1. Within' /\ OneJobPerKey'
    BY <2>0, ByRows DEF Within, OneJobPerKey, ActiveLeases, Leased
  <2> QED BY <1>0, <2>0, <2>1, ByRowsNext DEF RowInv
<1>4. ASSUME RestoreCapacitySnapshot PROVE JobInv'
  <2>0. jobs' = jobs /\ catalog' = catalog /\ \A i \in DOMAIN jobs : ~Leased(i)
    BY <1>4 DEF RestoreCapacitySnapshot, NoActiveLease
  <2>1. ASSUME NEW i \in DOMAIN jobs PROVE RowInv(jobs[i])'
    BY <1>0, <2>0 DEF RowInv, Leased
  <2>2. Within'
    BY <2>0 DEF Within, ActiveLeases, Leased
  <2>3. OneJobPerKey'
    BY <2>0, ByRows DEF OneJobPerKey
  <2> QED BY <1>0, <2>0, <2>1, <2>2, <2>3, ByRowsNext
<1> QED BY <1>1, <1>2, <1>3, <1>4 DEF CatalogStep

(* A step that leaves the queue, the catalogs and the claims alone. *)
LEMMA StillKeeps ==
  ASSUME CatalogInv, JobInv, LegacyClaimsQueued,
         UNCHANGED <<catalog, capacity, jobs, claim>>
  PROVE  CatalogInv' /\ JobInv' /\ LegacyClaimsQueued'
<1>1. CatalogInv' /\ LegacyClaimsQueued'
  BY DEF CatalogInv, LegacyClaimsQueued
<1>2. RoutedRowsHosted' /\ StaleBindingExplained' /\ OneJobPerKey'
  BY DEF JobInv, RoutedRowsHosted, StaleBindingExplained, BindingValid, OneJobPerKey
<1>3. LeasedRunIsAuthorised' /\ LeaseWithinPolicy'
  BY DEF JobInv, LeasedRunIsAuthorised, LeaseWithinPolicy, ActiveLeases, Leased,
         BindingValid, RoutingValid
<1> QED BY <1>1, <1>2, <1>3 DEF JobInv

----------------------------------------------------------------------------
(* The steps of the queue *)

LEMMA ReadKeeps ==
  ASSUME IInv, NEW s \in Submitters, NEW r \in Requests, NEW a \in Agents,
         Reading(s, r, a)
  PROVE  IInv'
<1>0. "submit" \in Kinds
  BY DEF Kinds
<1>1. [request |-> r, agent |-> a, binding |-> Binding(catalog, a),
       host |-> agents[a].host] \in Read
  BY BindingTyped DEF Read, IInv, TypeOK, Catalogs
<1>2. sub' \in [Submitters -> Read \cup {None}]
  BY <1>1 DEF Reading, IInv, TypeOK
<1>3. left' \in [Kinds -> Nat]
  BY <1>0, Spent DEF Reading, IInv, TypeOK
<1>4. TypeOK' /\ RosterResolves'
  BY <1>2, <1>3 DEF Reading, IInv, TypeOK, RosterTypeOK, RosterResolves, rosterVars
<1> QED BY <1>4, StillKeeps DEF Reading, IInv

LEMMA SubmitKeeps ==
  ASSUME IInv, NEW s \in Submitters, sub[s] # None, Submitting(s)
  PROVE  IInv'
<1> DEFINE row == SubmittedRow(sub[s])
<1>1. sub[s] \in Read
  BY DEF IInv, TypeOK
<1>2. /\ row.request = sub[s].request /\ row.binding = sub[s].binding
      /\ row.agent = sub[s].agent /\ row.host = agents[sub[s].agent].host
      /\ row.status = "pending" /\ row.policy = None /\ ~row.copied
      /\ row.raced = (sub[s].binding # Binding(catalog, sub[s].agent))
  BY DEF SubmittedRow
<1>3. row \in Row /\ row.host # None
  BY <1>1, CatalogAssumption DEF SubmittedRow, Row, Read, IInv, TypeOK
<1>4. RowInv(row)
  BY <1>2, <1>3 DEF RowInv
<1> HIDE DEF row
<1>5. /\ jobs' = Append(jobs, row) /\ ~Taken(row.request.key)
      /\ UNCHANGED <<rosterVars, catalog, capacity, snapshot, agents, claim, left>>
  BY <1>2 DEF Submitting, row
<1>6. sub' \in [Submitters -> Read \cup {None}]
  BY DEF Submitting, IInv, TypeOK
<1>7. TypeOK'
  BY <1>3, <1>5, <1>6, AppendedTyped DEF IInv, TypeOK
<1>8. JobInv'
  BY <1>2, <1>3, <1>4, <1>5, <1>7, AppendedKeeps DEF IInv
<1> QED BY <1>5, <1>7, <1>8 DEF IInv, RosterResolves, rosterVars, LegacyClaimsQueued, CatalogInv

LEMMA ReplayKeeps ==
  ASSUME IInv, NEW s \in Submitters, Replaying(s)
  PROVE  IInv'
<1>1. TypeOK' /\ RosterResolves'
  BY DEF Replaying, IInv, TypeOK, RosterTypeOK, RosterResolves, rosterVars
<1> QED BY <1>1, StillKeeps DEF Replaying, IInv

LEMMA RetryKeeps ==
  ASSUME IInv, NEW i, RetryJob(i)
  PROVE  IInv'
<1> DEFINE row == [jobs[i] EXCEPT !.host = None, !.status = "pending", !.copied = TRUE]
<1>0. "submit" \in Kinds
  BY DEF Kinds
<1>1. /\ i \in DOMAIN jobs /\ jobs[i] \in Row /\ jobs[i].status = "failed"
      /\ ~jobs[i].request.routed /\ RowInv(jobs[i])
  BY RowsTyped, ByRows DEF RetryJob, IInv
<1>2. /\ row \in Row /\ row.request = jobs[i].request /\ row.copied
      /\ row.policy = jobs[i].policy
  BY <1>1 DEF Row
<1>3. row.policy = None /\ RowInv(row)
  BY <1>1, <1>2 DEF RowInv
<1> HIDE DEF row
<1>4. /\ jobs' = Append(jobs, row)
      /\ UNCHANGED <<rosterVars, catalog, capacity, snapshot, agents, sub, claim>>
  BY DEF RetryJob, row
<1>5. left' \in [Kinds -> Nat]
  BY <1>0, Spent DEF RetryJob, IInv, TypeOK
<1>6. TypeOK'
  BY <1>2, <1>4, <1>5, AppendedTyped DEF IInv, TypeOK
<1>7. JobInv'
  BY <1>2, <1>3, <1>4, <1>6, AppendedKeeps DEF IInv
<1> QED BY <1>4, <1>6, <1>7 DEF IInv, RosterResolves, rosterVars, LegacyClaimsQueued, CatalogInv

LEMMA ClaimBeginKeeps ==
  ASSUME IInv, NEW a \in Agents, NEW recoverable \in BOOLEAN, ClaimBegin(a, recoverable)
  PROVE  IInv'
<1> DEFINE typed == Binding(catalog, a) # None
           i == HeadOf(Queue(a, recoverable))
           begun == [leased |-> typed, row |-> i, host |-> agents[a].host,
                     status |-> IF i = 0 THEN None ELSE jobs[i].status,
                     recoverable |-> recoverable]
<1>1. i \in 0 .. Len(jobs) /\ (i # 0 => jobs[i].status \in {"pending", "timed_out"})
  BY HeadTyped DEF IInv
<1>2. begun \in Claim
  BY <1>1 DEF Claim, IInv, TypeOK
<1>3. /\ begun.row = i /\ begun.leased = typed
      /\ i # 0 => begun.status = jobs[i].status
  OBVIOUS
<1>4. claim' = [claim EXCEPT ![a] = begun] /\ (~typed => i # 0)
  BY DEF ClaimBegin
<1>5. agents' \in [Agents -> [host : Hosts, live : BOOLEAN]]
  BY DEF ClaimBegin, IInv, TypeOK
<1> HIDE DEF begun, i, typed
<1>6. TypeOK'
  BY <1>1, <1>2, <1>3, <1>4, <1>5 DEF ClaimBegin, IInv, TypeOK, RosterTypeOK, rosterVars
<1>7. LegacyClaimsQueued'
  BY <1>1, <1>3, <1>4 DEF IInv, TypeOK, LegacyClaimsQueued
<1>8. CatalogInv' /\ JobInv'
  BY <1>6, ByRows, ByRowsNext DEF ClaimBegin, IInv, CatalogInv, RowInv, Within, OneJobPerKey,
                                  ActiveLeases, Leased
<1> QED BY <1>6, <1>7, <1>8 DEF ClaimBegin, IInv, RosterResolves, rosterVars

LEMMA ClaimLeasedKeeps ==
  ASSUME IInv, NEW a \in Agents, ClaimLeased(a)
  PROVE  IInv'
<1> DEFINE i == HeadOf(Queue(a, claim[a].recoverable))
           row == [jobs[i] EXCEPT !.status = "running",
                                  !.policy = PolicyOf(capacity, a),
                                  !.host = ContextFor(i, claim[a].host)]
           goes == /\ i # 0 /\ claim[a].host = agents[a].host
                   /\ HasCapacity(a) /\ Authorised(i, claim[a].host)
<1>1. claim[a] \in Claim /\ claim[a].recoverable \in BOOLEAN
  BY DEF ClaimLeased, IInv, TypeOK, Claim
<1>2. LegacyClaimsQueued' /\ RosterResolves' /\ CatalogInv'
  BY DEF ClaimLeased, IInv, TypeOK, LegacyClaimsQueued, RosterResolves, rosterVars, CatalogInv
<1>3. CASE goes
  <2>1. i \in DOMAIN jobs /\ jobs[i].agent = a /\ jobs[i] \in Row
        /\ jobs[i].status \in {"pending", "timed_out"} /\ RowInv(jobs[i])
    BY <1>1, <1>3, HeadTyped, RowsTyped, ByRows DEF IInv
  <2>2. PolicyOf(capacity, a) \in CapCatalogs
    BY <1>3, PolicyBounds DEF HasCapacity, IInv, TypeOK, Capacities
  <2>3. /\ row \in Row /\ row.request = jobs[i].request /\ row.agent = a
        /\ row.binding = jobs[i].binding /\ row.copied = jobs[i].copied
        /\ row.status = "running" /\ row.policy = PolicyOf(capacity, a)
        /\ row.decided = jobs[i].decided
        /\ row.host = ContextFor(i, claim[a].host)
    BY <1>1, <2>1, <2>2 DEF Row, ContextFor, Claim
  <2>4. RowInv(row)
    <3>1. row.request.routed => row.host = jobs[i].host /\ row.host # None
      BY <2>1, <2>3 DEF RowInv, ContextFor
    <3> QED BY <1>3, <2>1, <2>3, <3>1 DEF RowInv, Authorised, BindingValid, RoutingValid
  <2>5. jobs' = [jobs EXCEPT ![i] = row]
    BY <1>3, <2>1 DEF ClaimLeased, IInv, TypeOK
  <2>6. SameRequest(jobs[i], row) /\ HasCapacity(row.agent)
    BY <1>3, <2>1, <2>3 DEF SameRequest
  <2> HIDE DEF row, i, goes
  <2>7. TypeOK'
    BY <2>1, <2>3, <2>5, UpdatedTyped DEF IInv, ClaimLeased
  <2>8. JobInv'
    BY <2>1, <2>3, <2>4, <2>5, <2>6, <2>7, UpdatedKeeps DEF IInv, ClaimLeased
  <2> QED BY <1>2, <2>7, <2>8 DEF IInv
<1>4. CASE ~goes
  <2>1. jobs' = jobs
    BY <1>4 DEF ClaimLeased
  <2>2. TypeOK'
    BY <2>1 DEF ClaimLeased, IInv, TypeOK, RosterTypeOK, rosterVars
  <2>3. JobInv'
    BY <2>1, <2>2, ByRows, ByRowsNext DEF ClaimLeased, IInv, RowInv, Within, OneJobPerKey,
                                          ActiveLeases, Leased
  <2> QED BY <1>2, <2>2, <2>3 DEF IInv
<1> QED BY <1>3, <1>4

LEMMA ClaimLegacyKeeps ==
  ASSUME IInv, NEW a \in Agents, ClaimLegacy(a)
  PROVE  IInv'
<1> DEFINE i == claim[a].row
           row == [jobs[i] EXCEPT !.status = "running",
                                  !.host = ContextFor(i, claim[a].host)]
           goes == jobs[i].status = claim[a].status /\ RoutingValid(i)
<1>1. /\ claim[a] \in Claim /\ i \in 1 .. Len(jobs) /\ i \in DOMAIN jobs
      /\ claim[a].status \in {"pending", "timed_out"}
  BY DEF ClaimLegacy, IInv, TypeOK, LegacyClaimsQueued
<1>2. LegacyClaimsQueued' /\ RosterResolves' /\ CatalogInv'
  BY DEF ClaimLegacy, IInv, TypeOK, LegacyClaimsQueued, RosterResolves, rosterVars, CatalogInv
<1>3. CASE goes
  <2>1. jobs[i] \in Row /\ RowInv(jobs[i]) /\ jobs[i].policy = None
    BY <1>1, <1>3, RowsTyped, ByRows DEF IInv, RowInv
  <2>2. /\ row \in Row /\ row.request = jobs[i].request /\ row.agent = jobs[i].agent
        /\ row.binding = jobs[i].binding /\ row.copied = jobs[i].copied
        /\ row.status = "running" /\ row.policy = None
        /\ row.host = ContextFor(i, claim[a].host)
    BY <1>1, <2>1 DEF Row, ContextFor, Claim
  <2>3. RowInv(row)
    BY <2>1, <2>2 DEF RowInv, ContextFor
  <2>4. jobs' = [jobs EXCEPT ![i] = row]
    BY <1>1, <1>3 DEF ClaimLegacy, IInv, TypeOK
  <2>5. SameRequest(jobs[i], row)
    BY <2>2 DEF SameRequest
  <2> HIDE DEF row, i, goes
  <2>6. TypeOK'
    BY <1>1, <2>2, <2>4, UpdatedTyped DEF IInv, ClaimLegacy
  <2>7. JobInv'
    BY <1>1, <2>2, <2>3, <2>4, <2>5, <2>6, UpdatedKeeps DEF IInv, ClaimLegacy
  <2> QED BY <1>2, <2>6, <2>7 DEF IInv
<1>4. CASE ~goes
  <2>1. jobs' = jobs
    BY <1>4 DEF ClaimLegacy
  <2>2. TypeOK'
    BY <2>1 DEF ClaimLegacy, IInv, TypeOK, RosterTypeOK, rosterVars
  <2>3. JobInv'
    BY <2>1, <2>2, ByRows, ByRowsNext DEF ClaimLegacy, IInv, RowInv, Within, OneJobPerKey,
                                          ActiveLeases, Leased
  <2> QED BY <1>2, <2>2, <2>3 DEF IInv
<1> QED BY <1>3, <1>4

LEMMA EndKeeps ==
  ASSUME IInv, NEW i, NEW st \in {"done", "failed", "timed_out"}, EndJob(i, st)
  PROVE  IInv'
<1> DEFINE row == [jobs[i] EXCEPT !.status = st, !.policy = None]
<1>1. i \in DOMAIN jobs /\ jobs[i] \in Row /\ RowInv(jobs[i])
  BY RowsTyped, ByRows DEF EndJob, IInv
<1>2. /\ row \in Row /\ row.policy = None /\ row.status # "pending"
      /\ row.request = jobs[i].request /\ row.host = jobs[i].host
      /\ SameRequest(jobs[i], row)
  BY <1>1 DEF Row, SameRequest
<1>3. RowInv(row)
  BY <1>1, <1>2 DEF RowInv
<1>4. jobs' = [jobs EXCEPT ![i] = row]
  BY <1>1 DEF EndJob, IInv, TypeOK
<1> HIDE DEF row
<1>5. TypeOK'
  BY <1>1, <1>2, <1>4, UpdatedTyped DEF IInv, EndJob
<1>6. JobInv'
  BY <1>1, <1>2, <1>3, <1>4, <1>5, UpdatedKeeps DEF IInv, EndJob
<1> QED BY <1>5, <1>6 DEF EndJob, IInv, RosterResolves, rosterVars, LegacyClaimsQueued, CatalogInv

----------------------------------------------------------------------------
(* The inductive invariant *)

LEMMA InitKeeps == Init => IInv
<1> SUFFICES ASSUME Init PROVE IInv
  OBVIOUS
<1>1. jobs = << >> /\ DOMAIN jobs = {}
  BY DEF Init
<1>2. JobInv
  BY <1>1 DEF JobInv, RoutedRowsHosted, LeasedRunIsAuthorised, LeaseWithinPolicy,
              ActiveLeases, StaleBindingExplained, OneJobPerKey
<1>3. CatalogInv
  BY CatalogAssumption DEF Init, CatalogInv
<1>4. LegacyClaimsQueued
  BY DEF Init, LegacyClaimsQueued
<1> QED BY <1>2, <1>3, <1>4, InitTyped, RosterStarts DEF Init, IInv

LEMMA RosterStepKeeps == IInv /\ RosterStep => IInv'
<1> SUFFICES ASSUME IInv, RosterStep PROVE IInv'
  OBVIOUS
<1>0. "roster" \in Kinds
  BY DEF Kinds
<1>1. RosterNext
  BY DEF RosterStep, RosterNext
<1>2. RosterTypeOK' /\ RosterResolves'
  BY <1>1, RosterTyped, RosterKeeps DEF IInv, TypeOK
<1>3. left' \in [Kinds -> Nat]
  BY <1>0, Spent DEF RosterStep, IInv, TypeOK
<1>4. TypeOK'
  BY <1>2, <1>3 DEF RosterStep, IInv, TypeOK
<1> QED BY <1>2, <1>4, StillKeeps DEF RosterStep, IInv

LEMMA AgentStepKeeps == IInv /\ AgentStep => IInv'
<1> SUFFICES ASSUME IInv, AgentStep PROVE IInv'
  OBVIOUS
<1>0. "agent" \in Kinds
  BY DEF Kinds
<1>1. /\ UNCHANGED <<rosterVars, catalog, capacity, snapshot, jobs, sub, claim>>
      /\ Spend("agent")
  BY DEF AgentStep, RegisterAgent, AgentLapses
<1>2. agents' \in [Agents -> [host : Hosts, live : BOOLEAN]]
  <2>1. PICK a \in Agents : (\E h \in Hosts : RegisterAgent(a, h)) \/ AgentLapses(a)
    BY DEF AgentStep
  <2>2. [agents[a] EXCEPT !.live = FALSE] \in [host : Hosts, live : BOOLEAN]
    BY DEF IInv, TypeOK
  <2>3. CASE AgentLapses(a)
    <3>1. agents' = [agents EXCEPT ![a] = [agents[a] EXCEPT !.live = FALSE]]
      BY <2>3 DEF AgentLapses, IInv, TypeOK
    <3> QED BY <2>2, <3>1 DEF IInv, TypeOK
  <2>4. ASSUME NEW h \in Hosts, RegisterAgent(a, h)
        PROVE  agents' \in [Agents -> [host : Hosts, live : BOOLEAN]]
    BY <2>4 DEF RegisterAgent, IInv, TypeOK
  <2> QED BY <2>1, <2>3, <2>4
<1>3. left' \in [Kinds -> Nat]
  BY <1>0, <1>1, Spent DEF IInv, TypeOK
<1>4. TypeOK' /\ RosterResolves'
  BY <1>1, <1>2, <1>3 DEF IInv, TypeOK, RosterTypeOK, RosterResolves, rosterVars
<1> QED BY <1>1, <1>4, StillKeeps DEF IInv

LEMMA CatalogStepKeeps == IInv /\ CatalogStep => IInv'
<1> SUFFICES ASSUME IInv, CatalogStep PROVE IInv'
  OBVIOUS
<1>1. TypeOK' /\ CatalogInv' /\ JobInv'
  BY CatalogTyped, CatalogKeeps DEF IInv
<1>2. UNCHANGED <<rosterVars, jobs, claim>>
  BY DEF CatalogStep, SyncExecutorCatalog, SyncCapacityCatalog,
         CaptureCapacitySnapshot, RestoreCapacitySnapshot
<1> QED BY <1>1, <1>2 DEF IInv, RosterResolves, rosterVars, LegacyClaimsQueued

LEMMA JobStepKeeps == IInv /\ JobStep => IInv'
<1> SUFFICES ASSUME IInv, JobStep PROVE IInv'
  OBVIOUS
<1>1. ASSUME NEW s \in Submitters, SubmitExactRequest(s) \/ SubmitRoutedRequest(s)
      PROVE  IInv'
  BY <1>1, SubmitKeeps DEF SubmitExactRequest, SubmitRoutedRequest
<1>2. ASSUME NEW s \in Submitters, ReplayExactRequest(s) \/ ReplayRoutedRequest(s)
      PROVE  IInv'
  BY <1>2, ReplayKeeps DEF ReplayExactRequest, ReplayRoutedRequest
<1>3. ASSUME NEW s \in Submitters, NEW r \in Requests, SubmitExactRead(s, r)
      PROVE  IInv'
  BY <1>3, ReadKeeps, CatalogAssumption DEF SubmitExactRead, ParsedRequest
<1>4. ASSUME NEW s \in Submitters, NEW r \in Requests, NEW a \in Agents,
             SubmitRoutedRead(s, r, a)
      PROVE  IInv'
  BY <1>4, ReadKeeps DEF SubmitRoutedRead
<1>5. ASSUME NEW a \in Agents, NEW recoverable \in BOOLEAN, ClaimBegin(a, recoverable)
      PROVE  IInv'
  BY <1>5, ClaimBeginKeeps
<1>6. ASSUME NEW a \in Agents, ClaimLeased(a) \/ ClaimLegacy(a)
      PROVE  IInv'
  BY <1>6, ClaimLeasedKeeps, ClaimLegacyKeeps
<1>7. ASSUME NEW i \in 1 .. MaxJobs, RetryJob(i)
      PROVE  IInv'
  BY <1>7, RetryKeeps
<1>8. ASSUME NEW i \in 1 .. MaxJobs, NEW st \in {"done", "failed", "timed_out"}, EndJob(i, st)
      PROVE  IInv'
  BY <1>8, EndKeeps
<1> QED BY <1>1, <1>2, <1>3, <1>4, <1>5, <1>6, <1>7, <1>8 DEF JobStep

LEMMA NextKeeps == IInv /\ [Next]_vars => IInv'
<1> SUFFICES ASSUME IInv, [Next]_vars PROVE IInv'
  OBVIOUS
<1>1. CASE UNCHANGED vars
  <2>1. TypeOK' /\ RosterResolves'
    BY <1>1 DEF vars, rosterVars, IInv, TypeOK, RosterTypeOK, RosterResolves
  <2> QED BY <1>1, <2>1, StillKeeps DEF vars, IInv
<1>2. CASE Next
  BY <1>2, RosterStepKeeps, CatalogStepKeeps, AgentStepKeeps, JobStepKeeps DEF Next
<1> QED BY <1>1, <1>2

LEMMA Inductive == Spec => []IInv
BY InitKeeps, NextKeeps, PTL DEF Spec

----------------------------------------------------------------------------
(* Theorems *)

(* Every table holds the rows its writers mean to write, whatever overlaps. *)
THEOREM TypeCorrect == Spec => []TypeOK
<1>1. IInv => TypeOK
  BY DEF IInv
<1> QED BY Inductive, <1>1, PTL

(* Two names answer to one Discord id only when an override has expired    *)
(* (set_workspace_agent, remove_workspace_agent_override and               *)
(* sync_workspace_agents roll the rest back).                              *)
THEOREM RosterStaysResolved == Spec => []RosterResolves
<1>1. IInv => RosterResolves
  BY DEF IInv
<1> QED BY Inductive, <1>1, PTL

(* A leased execution runs under the binding the catalog has now and on    *)
(* the host it was routed to: sync_executor_catalog waits until a source   *)
(* is drained, and claim_leased_job looks again inside its transaction.    *)
THEOREM RunsAuthorised == Spec => []LeasedRunIsAuthorised
<1>1. IInv => LeasedRunIsAuthorised
  BY DEF IInv, JobInv
<1> QED BY Inductive, <1>1, PTL

(* The leases of an agent are under its current policy and within it:      *)
(* sync_capacity_catalog refuses a referenced policy and                   *)
(* restore_capacity_snapshot any active lease.                             *)
THEOREM LeasesWithinPolicy == Spec => []LeaseWithinPolicy
<1>1. IInv => LeaseWithinPolicy
  BY DEF IInv, JobInv
<1> QED BY Inductive, <1>1, PTL

(* A queued row whose binding is stale was submitted across a catalog sync *)
(* or copied by retry_job; there is no third way.                          *)
THEOREM StaleBindingsExplained == Spec => []StaleBindingExplained
<1>1. IInv => StaleBindingExplained
  BY DEF IInv, JobInv
<1> QED BY Inductive, <1>1, PTL

(* An idempotency key is given one job, through the exact and the routed   *)
(* submit alike.                                                           *)
THEOREM KeyGivesOneJob == Spec => []OneJobPerKey
<1>1. IInv => OneJobPerKey
  BY DEF IInv, JobInv
<1> QED BY Inductive, <1>1, PTL

(* Only sync_capacity_catalog and restore_capacity_snapshot write policies, *)
(* and what they write binds policies and executors one to one.            *)
THEOREM CapacitySound == Spec => CapacityStaysSound
<1> DEFINE Sound ==
      /\ \A a \in Agents : \A s, t \in Policies(capacity') :
           a \in DOMAIN capacity'[s].max \cap DOMAIN capacity'[t].max => s = t
      /\ Enabled(catalog) \subseteq PolicyAgents(capacity')
      /\ PolicyAgents(capacity') \subseteq Bound(catalog)
<1>1. IInv /\ IInv' /\ [Next]_vars => [capacity' # capacity => Sound]_vars
  <2> SUFFICES ASSUME IInv, IInv', Next, capacity' # capacity PROVE Sound
    BY DEF vars
  <2>1. \A s, t \in Policies(capacity') :
          DOMAIN capacity'[s].max \cap DOMAIN capacity'[t].max # {} => s = t
    BY DEF IInv, CatalogInv, KeyedPolicies, Policies
  <2>2. Projected(capacity')
    <3>1. CASE CatalogStep
      BY <3>1 DEF CatalogStep, SyncExecutorCatalog, SyncCapacityCatalog,
                  CaptureCapacitySnapshot, RestoreCapacitySnapshot
    <3>2. CASE RosterStep \/ AgentStep
      BY <3>2 DEF RosterStep, AgentStep, RegisterAgent, AgentLapses
    <3>3. CASE JobStep
      BY <3>3 DEF JobStep, SubmitExactRequest, SubmitRoutedRequest, Submitting,
                  ReplayExactRequest, ReplayRoutedRequest, Replaying, SubmitExactRead,
                  SubmitRoutedRead, Reading, ClaimBegin, ClaimLeased, ClaimLegacy,
                  RetryJob, EndJob
    <3> QED BY <3>1, <3>2, <3>3 DEF Next
  <2> QED BY <2>1, <2>2 DEF Projected
<1>2. Spec => [][capacity' # capacity => Sound]_vars
  BY Inductive, <1>1, PTL DEF Spec
<1> QED BY <1>2 DEF CapacityStaysSound

(* The reads of a sync_workspace_agents that nothing overlapped still hold *)
(* at its SAVEPOINT.                                                       *)
LEMMA FreshKeeps == RosterTypeOK /\ ReadIsFresh /\ RosterNext => ReadIsFresh'
<1> SUFFICES ASSUME RosterTypeOK, ReadIsFresh, RosterNext PROVE ReadIsFresh'
  OBVIOUS
<1>1. CASE UNCHANGED <<roster, syncing, overlapped>>
  BY <1>1 DEF ReadIsFresh
<1>2. ASSUME NEW o \in Operators, NEW r \in Rosters, SyncWorkspaceAgentsRead(o, r)
      PROVE  ReadIsFresh'
  BY <1>2 DEF SyncWorkspaceAgentsRead, ReadIsFresh, RosterTypeOK
<1>3. ASSUME NEW o \in Operators, SyncWorkspaceAgents(o)
      PROVE  ReadIsFresh'
  BY <1>3 DEF SyncWorkspaceAgents, ReadIsFresh, RosterTypeOK
<1> QED BY <1>1, <1>2, <1>3 DEF RosterNext, SetWorkspaceAgentRead, SetWorkspaceAgent,
                                RemoveWorkspaceAgentOverride, OverrideExpires

(* The version of the roster goes back only when a sync landed between the *)
(* version rules of another one and its SAVEPOINT.                         *)
THEOREM RollbackRaced == Spec => RollbackIsRaced
<1>1. Init => ReadIsFresh
  BY DEF Init, RosterInit, ReadIsFresh
<1>2. RosterTypeOK /\ ReadIsFresh /\ [Next]_vars => ReadIsFresh'
  <2> SUFFICES ASSUME RosterTypeOK, ReadIsFresh, [Next]_vars PROVE ReadIsFresh'
    OBVIOUS
  <2>1. CASE UNCHANGED rosterVars
    BY <2>1 DEF rosterVars, ReadIsFresh
  <2> QED BY <2>1, RosterSteps, FreshKeeps
<1>3. RosterTypeOK /\ ReadIsFresh /\ [Next]_vars
        => [roster # None /\ roster' # roster /\ roster'.version <= roster.version
              => \E o \in Operators : overlapped[o] /\ syncing[o] = roster']_rosterVars
  <2> SUFFICES ASSUME RosterTypeOK, ReadIsFresh, [Next]_vars, ~UNCHANGED rosterVars,
                      roster # None, roster' # roster, roster'.version <= roster.version
               PROVE  \E o \in Operators : overlapped[o] /\ syncing[o] = roster'
    OBVIOUS
  <2>1. RosterNext
    BY RosterSteps
  <2>2. PICK o \in Operators : SyncWorkspaceAgents(o)
    BY <2>1 DEF RosterNext, SetWorkspaceAgentRead, SetWorkspaceAgent, RemoveWorkspaceAgentOverride,
                OverrideExpires, SyncWorkspaceAgentsRead
  <2>3. syncing[o] # None /\ roster' = syncing[o]
    BY <2>2 DEF SyncWorkspaceAgents
  <2>4. roster.version \in Nat /\ roster'.version \in Nat
    BY <2>3, RosterAssumption DEF RosterTypeOK, ParsedRoster
  <2>5. overlapped[o]
    BY <2>3, <2>4 DEF ReadIsFresh, Newer
  <2> QED BY <2>3, <2>5
<1>4. TypeOK => RosterTypeOK
  BY DEF TypeOK
<1>5. Spec => [][roster # None /\ roster' # roster /\ roster'.version <= roster.version
              => \E o \in Operators : overlapped[o] /\ syncing[o] = roster']_rosterVars
  BY <1>1, <1>2, <1>3, <1>4, TypeCorrect, PTL DEF Spec
<1> QED BY <1>5 DEF RollbackIsRaced

============================================================================
