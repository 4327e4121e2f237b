---------------------------- MODULE AgentRoster ----------------------------
(* The agent roster of one workspace (db.py): the rows an authoritative       *)
(* source syncs, and the overrides an operator sets by hand, which hide the   *)
(* row of the same name until they are removed or their expires_at passes.    *)
(* An expiry writes nothing: it only changes what every reader resolves.      *)
(* Display names, actors, reasons and the audit events are left out.          *)
EXTENDS Naturals, FiniteSets

CONSTANTS Agents, DiscordIds, Rosters, InitialRoster, Operators, None

\* A roster is what one version of the source file says: a Discord id per name,
\* and no id twice.
ParsedRoster(r) == /\ r.version \in Nat /\ DOMAIN r.ids \subseteq Agents
                   /\ \A n \in DOMAIN r.ids: r.ids[n] \in DiscordIds
                   /\ \A m, n \in DOMAIN r.ids: r.ids[m] = r.ids[n] => m = n

Override == [id: DiscordIds, expired: BOOLEAN]
Setting == [name: Agents, id: DiscordIds, updates: BOOLEAN]

ASSUME RosterAssumption ==
    /\ Agents \subseteq Nat
    /\ \A r \in Rosters: ParsedRoster(r)
    /\ None \notin Rosters /\ None \notin DiscordIds
    /\ None \notin Override /\ None \notin Setting
    /\ InitialRoster \in Rosters \cup {None}

VARIABLES roster,     \* row of workspace_agent_registry_sources with its entries
          override,   \* [Agents -> [id, expired]], the override entries
          setting,    \* [Operators -> an override whose set has passed its reads]
          syncing,    \* [Operators -> the roster whose sync has passed its reads]
          overlapped  \* history: [Operators -> a sync landed since the reads]

rosterVars == <<roster, override, setting, syncing, overlapped>>

RosterTypeOK ==
    /\ roster \in Rosters \cup {None}
    /\ override \in [Agents -> Override \cup {None}]
    /\ setting \in [Operators -> Setting \cup {None}]
    /\ syncing \in [Operators -> Rosters \cup {None}]
    /\ overlapped \in [Operators -> BOOLEAN]

RosterInit ==
    /\ roster = InitialRoster
    /\ override = [n \in Agents |-> None]
    /\ setting = [o \in Operators |-> None]
    /\ syncing = [o \in Operators |-> None]
    /\ overlapped = [o \in Operators |-> FALSE]
----------------------------------------------------------------------------
\* Active override first, then the authoritative row.  (Legacy rows go with the
\* first sync.)
Live(ov, n) == ov[n] # None /\ ~ov[n].expired
IdsOf(r) == IF r = None THEN <<>> ELSE r.ids
EffectiveAgents(r, ov) ==
    [n \in {m \in Agents: Live(ov, m) \/ m \in DOMAIN IdsOf(r)} |->
        IF Live(ov, n) THEN ov[n].id ELSE r.ids[n]]

\* resolve_effective_agents raises when two names resolve to one Discord id.
Resolvable(r, ov) ==
    LET e == EffectiveAgents(r, ov)
    IN  \A m, n \in DOMAIN e: e[m] = e[n] => m = n

\* Every write that changes entries regenerates agents_json from them, so what
\* does not resolve is rolled back with its SAVEPOINT.
ProjectionWritableAny(r, ov) == TRUE
ProjectionWritable(r, ov) == Resolvable(r, ov)

Idle(o) == setting[o] = None /\ syncing[o] = None

\* set_workspace_agent looks for the override's row and for another name with
\* the id before the SAVEPOINT.
SetWorkspaceAgentRead(o, n, id) ==
    LET effective == EffectiveAgents(roster, override)
    IN  /\ Idle(o) /\ Resolvable(roster, override)
        /\ \A m \in DOMAIN effective \ {n}: effective[m] # id
        /\ setting' = [setting EXCEPT ![o] =
                [name |-> n, id |-> id, updates |-> override[n] # None]]
        /\ UNCHANGED <<roster, override, syncing, overlapped>>

\* An INSERT of a row that has come since is refused, and an UPDATE of one that
\* has gone writes nothing.
SetWorkspaceAgent(o) ==
    LET s == setting[o]
        set == [override EXCEPT ![s.name] = [id |-> s.id, expired |-> FALSE]]
        lands == /\ s.updates = (override[s.name] # None)
                 /\ ProjectionWritable(roster, set)
    IN  /\ setting[o] # None
        /\ override' = IF lands THEN set ELSE override
        /\ setting' = [setting EXCEPT ![o] = None]
        /\ UNCHANGED <<roster, syncing, overlapped>>

RemoveWorkspaceAgentOverride(n) ==
    LET removed == [override EXCEPT ![n] = None]
    IN  /\ override[n] # None
        /\ ProjectionWritable(roster, removed)
        /\ override' = removed
        /\ UNCHANGED <<roster, setting, syncing, overlapped>>

OverrideExpires(n) ==
    /\ Live(override, n)
    /\ override' = [override EXCEPT ![n].expired = TRUE]
    /\ UNCHANGED <<roster, setting, syncing, overlapped>>

\* sync_workspace_agents: the rules against takeover, rollback and version
\* conflict read the source row before the SAVEPOINT.  (The same version with
\* the same hash is a no-op.)
Newer(r, current) == current # None => r.version > current.version
SyncWorkspaceAgentsRead(o, r) ==
    /\ Idle(o) /\ Newer(r, roster)
    /\ syncing' = [syncing EXCEPT ![o] = r]
    /\ overlapped' = [overlapped EXCEPT ![o] = FALSE]
    /\ UNCHANGED <<roster, override, setting>>

SyncWorkspaceAgents(o) ==
    /\ syncing[o] # None
    /\ \/ /\ ProjectionWritable(syncing[o], override)
          /\ roster' = syncing[o]
          /\ overlapped' = [p \in Operators |-> p # o]
       \/ /\ ~ProjectionWritable(syncing[o], override)
          /\ UNCHANGED <<roster, overlapped>>
    /\ syncing' = [syncing EXCEPT ![o] = None]
    /\ UNCHANGED <<override, setting>>
----------------------------------------------------------------------------
\* Two names never answer to one Discord id, whatever is set, removed and
\* synced, unless an override has expired and uncovered the row below it
\* (resolve_effective_agents fails closed for every reader then).
RosterResolves ==
    ~Resolvable(roster, override)
      => \E n \in Agents: override[n] # None /\ override[n].expired

\* The version of the source goes back only when another sync landed between
\* the reads of a sync and its SAVEPOINT.
RollbackIsRaced ==
    [][roster # None /\ roster' # roster /\ roster'.version <= roster.version
         => \E o \in Operators: overlapped[o] /\ syncing[o] = roster']_rosterVars

============================================================================
