# Coordinate: a TLA+ verification project

Coordinate is a Python control plane for coding agents. One SQLite database
holds the state; agents, a Discord daemon, HTTP and MCP servers, workers and
operator shells all open it and run the same library functions. The TLA+ modules
in this directory model the parts of that library whose correctness depends on
interleaving, crashes, lost answers or long sequences of calls. TLC checks them on
small instances and TLAPS proves the central ones for every value of the
constants.

Paths below are relative to `src/src/coordinate/` unless they say otherwise.

## 1. The system

| Component | State | Operations | Hard behaviour | What makes it correct |
|---|---|---|---|---|
| Leased runtime (`runtime.py`, `runtime_lease.py`, `execution_leases.py`, `agent_liveness.py`) | `agents`, `jobs`, `execution_attempt_leases`, claim markers and deactivation events | register, heartbeat, deactivate, submit, claim (with global reap and replay), renew, report, reap, cancel, retry | expiry races, crashed agents, repeated claims | one attempt per worktree, an active lease is of the current attempt, capacity holds, a claim key is good for one attempt, nothing waits for ever |
| Legacy runtime (`runtime.py`) | `agents`, `jobs` with an attempt token and no lease | claim, report, late result, cancel | the candidate is read outside the transaction that starts it | a late result lands on another attempt only when claims overlapped; a result stays |
| Local job runner (`jobs.py`, `job_repository.py`) | `jobs` | create, pump, run, cancel, retry | every statement commits on its own; killed runners | no pump runs a job twice, no started job is queued again, the queue drains past jobs that cannot run |
| Event pump (`daemon.py`, `policy.py`) | the `events` log, the daemon's cursor in memory | pump loop, pump and handoff commands | several threads share one cursor; one cycle has a limit | no event that the cursor passed is without its deliveries, but for those a scan left at its limit |
| Delivery outbox (`bus.py`, `worker.py`, `db.py`) | `deliveries` | create, send, retry, recover | a POST may be accepted and its answer lost | a row dies only after its attempts, a sent row is not sent again |
| Channel messages (`channel_delivery.py`, `channel_messages.py`) | `deliveries` with a message key | one-shot send | repeated calls, lost answers | at most one message per key, a definite receipt is true |
| Split operations (`split_operations.py`) | `split_operations`, `tasks`, `plan.ready` events; the checklist on host and control plane | the file half and the record half of `task.create`, `task.adopt`, `issue.materialize` | two machines without a common transaction, drift between the halves | announced once, recorded as deployed, no claim the ledger does not have |
| Completion receipts (`completion.py`, `completion_cli.py`, `checklist_io.py`) | the `completion.*` and `task.done` events; the checklist | prepare, preflight, claim, locked file write, apply, consume, repair | ledger and checklist share no transaction; expiry; lock-free writers | the chain never breaks, the file is written only from the state the receipt binds |
| Harness scripts (`scripts/harness/`) | the checklist | assign, accept, decline, renew, release, handoff, blocker, unblock, closeout, review, mark-done | they take no lock | see completion receipts |
| Channel binding and provisioning (`channel_provisioning.py`, `channel_binding_cli.py`, `daemon.py`, `db.py`) | `channel_bindings`, bind and release events, request and terminal events, the workspace's route; Discord channels and their topic markers | request, provision, bind, release | the channel exists before its row; a reconnect starts a second loop | rows are what their events say, one channel per workspace, every request is answered |
| Transitions, assignments, handoff, plan gate (`transitions.py`, `assignments.py`, `handoff.py`, `plan_gate.py`) | checklist items, task mirrors, events | accept, handoff, blocker, unblock, closeout, review, mark-done; approve, reject, prepare a handoff | script, event and reconcile are separate; keys that count | the ledger tells the truth about the item, a handoff stands on an approval, a decision is not lost |
| Task dependencies (`task_dependencies.py`) | the `dependencies` field of items, the mirror | add and remove, combined or file only | desired-state retries after half a success | a retry converges |
| Executor identity, capacity, routing (`executor_*.py`, `execution_resources.py`, the agent registry of `db.py`) | catalogs with bindings, capacity policies and snapshots, the agent roster with overrides | sync, restore, override, route, submit, claim | catalogs of several sources change under queued and running jobs | a leased run keeps a current binding, host and policy; the roster resolves |
| Pull requests, CI, reviews (`prs.py`, `pr_publishing.py`, `branches.py`, `ci.py`, `reviews.py`, `github.py`) | task mirrors, PR, CI and review events | allocate, link, publish, record, check, merge gate | GitHub is asked between a read and a write, and changes meanwhile | a binding is not lost, what is recorded was pushed, what is ready was verified |
| Usage evidence (`usage_evidence.py`, `usage_policy.py`) | usage rows, policy revisions, warnings | record, set policy, warn | evaluated inside the terminal report | one warning per policy revision |
| Issues (`issues.py`) | `issue.*` events, task mirrors | scan, triage, materialize | row and event are written separately | one decision per issue |
| Checklist and projection (`checklist_io.py`, `checklist_contract.py`, `task_projection.py`, `reconcile.py`, `projection_doctor.py`) | the checklist and its lock, task mirrors | locked write, full and targeted reconcile, diagnosis | read, merge and write of a whole row | coordinator-owned fields survive |
| Onboarding (`onboarding.py`, `harness.py`) | task mirrors, generated files | create, adopt, revise a plan | revision against record half and reconcile | one event per plan content |
| Servers, command line, presentation, migrations | none of their own | parse, dispatch, print | | |

The components meet in the database. `submit_request` and `retry_job` write the
`jobs` rows that claims and pumps take; claims write leases, which deactivation,
cancel and the reaper read; every operation appends to `events`, which the pump
turns into `deliveries`, which the outbox sends. Split operations and completion
receipts also meet in the checklist, a file that travels from a coding host to the
control plane by a deployment; reconcile, the record halves, `link_pr`, plan
revision and triage all write the `tasks` row of the same task.

Two facts about `sqlite3` decide what is atomic, and the models follow them. An
operation that executes `BEGIN IMMEDIATE` holds the database's write lock from
that point to its commit, so it is one step. An operation that only uses
`with conn:` or a SAVEPOINT opens its transaction at the first statement inside it;
what it read before that may be stale, so each such read is a step of its own.

## 2. The modules

| Module | Extends | Models |
|---|---|---|
| `RuntimeLease`, `WorktreeLock` | | leases, and the lock they implement |
| `LegacyClaim` | | the legacy claim |
| `EventPump`, `DeliveryOutbox`, `JobRunner` → `MCDelivery` | | one component each; the module for TLC runs the three, of which each behaviour is one |
| `AgentRoster` → `ExecutorRouting` | | the roster; catalogs, policies, submit and claim over it |
| `ChannelProvisioning` | | bindings and the daemon's provisioning |
| `TaskItem` → `Completion` | | one checklist item; receipts over it |
| `SplitOperations` → `ProjectionDoctor` | | the two halves and the other writers; the doctor's findings about them |
| `PullRequests` | | publication, links, checks, merge gate |
| `PlanGate`, `Transitions` → `MCTaskLifecycle` | | plan and handoff; the item's commands; both on one task |
| `MC*` | the module they instantiate | constants of an instance, and which part of it is in use |
| `RuntimeLeaseProofs`, `LegacyClaimProofs`, `ExecutorRoutingProofs`, `ChannelProvisioningProofs`, `CompletionProofs` | the module each is named after | theorems only |
| `DeliveryProofs` | `EventPump`, `DeliveryOutbox`, `JobRunner` | theorems only |
| `TaskLifecycleProofs` | `PlanGate`, `Transitions` | theorems only |
| `TaskMirrorProofs` | `ProjectionDoctor` (with `SplitOperations`), `PullRequests` | theorems only |

Beside some definitions stands a variant that is deliberately wrong, under a comment that says
which mistake it makes or with a name that says so (`...Any`, `...Never`, `...Always`). No
specification uses them; put in the place of the right definition, each one makes TLC find
a property violated, which shows that the property notices the mistake.

### RuntimeLease, WorktreeLock, RuntimeLeaseProofs

`RuntimeLease.tla` is the core. Its four variables are the `agents`, `jobs` and
`execution_attempt_leases` tables and the progress of each operator's `cancel_job`.

| Action | Code |
|---|---|
| `RegisterAgent`, `HeartbeatAgent`, `DeactivateAgent` | `runtime.register_agent`, `heartbeat_agent`, `deactivate_agent` |
| `SubmitRequest`, `RetryJob` | `runtime._submit_exact_request`, `jobs.retry_job` |
| `ClaimLeasedJob` | `runtime.claim_job` for a typed agent and `runtime_lease.claim_leased_job`: fence, replay, global reap, selection, compare-and-set, lease and marker in one transaction |
| `RenewManagedLease`, `ReportJobResult`, `ReapLease` | `renew_managed_lease`, `report_job_result`, `reap_exact_lease` and `reap_due_leases` |
| `CancelRead`, `CancelFindLease`, `CancelLeased`, `CancelMarkRead`, `CancelWrite`, `CancelEnd` | the statements of `jobs.cancel_job` and `job_repository.mark_job_cancelled`, which runs under `with conn:` |
| `Tick` | the clock that `expires_at` is compared with |

A lease row is keyed by (job, attempt token); status `none` is a row that does not
exist. Wall-clock time is abstracted to `left`, the number of ticks to the expiry. The
claim marker (`job.claim_request` event) is written in the transaction that writes
the lease and is stored with it as `key`. Errors, empty claims and replays of a stored
answer leave the tables as they were, so they are not steps.

`WorktreeLock.tla` is the abstract specification of what the leases are for: a set
of (attempt, worktree) pairs in which a worktree is granted only when nobody else
holds it, and an attempt is granted a lock once in its life. `ImplementsLock` says
that `RuntimeLease` implements it, with the active lease rows as the locks held.

### LegacyClaim

The path of `claim_job`, `report_job_result` and `_accept_late_result` for untyped
agents. A claim is three steps, as in the code: the agent's test, the selection of the
candidate outside the transaction, and the start under `BEGIN IMMEDIATE`, which
compares only the status. Two claims may be at any of these steps. A stored result carries the
claim that sent it as history (`by`), and `overlapped` is the history of the claims that
ran into another one of their job.

### JobRunner

`run_job`, `pump_jobs`, `cancel_job`, `retry_job`, one action per statement that
commits, with several pumps, each of which may be killed between any two. `fitness` is what
`run_job` makes of a pending job before it starts it: it is fit, refused (a `JobError`: unknown
workspace or profile, no working directory, which the pump notes and passes over) or raises
another exception, which ends the pump. A job that is refused stays pending, and its
fitness may change.

### EventPump

`_do_pump` and `pump_events`: the daemon's cursor, the cutoff, the scan of one
workspace after another with its limit, exceptions and restarts. Rendering is
abstracted to the number of deliveries an event gives, none to two; the second one of an
event is created without another look at the limit. `leftOver` is the history of the events that a scan
left behind at the limit.

### DeliveryOutbox

The generic senders (autocommit, retries, recovery of rows left `sending`) and the
one-shot channel sends (reservation and result under `BEGIN IMMEDIATE`). A row has an
adapter, an unknown platform (for which `bus_for_platform` raises before the row is marked, and
the unscoped pump ends there) or platform `none`, which pumps skip; `Behind` is a row that such a pump does not
come to. The chat platform is external: it accepts a POST or does not, and its answer arrives or does
not. Two assumptions about it are taken from how the code uses it: a 4xx answer means
that the message was not accepted, and a well-formed message answer that it was.

### TaskItem, Completion

`TaskItem.tla` is one checklist item: what each harness command leaves in the
fields that completion reads, the fingerprint that binds a receipt, and the file
half's changes. Its operators take and return items; it has no state.

`Completion.tla` composes it with the ledger. `PrepareGate` and `PrepareIssue` are the two
reads of `prepare_completion_receipt`; `FilesPreflight` to `ApplyInsert` are the
statements of `mark-done-files` (preflight, fingerprint, claim, locked write, apply),
`FilesRepair` and `FilesRepairReplace` its repair mode, `ConsumeRead` to `RepairInsert` the control plane's
`mark-done-record`, and `MarkBegin` to `MarkRecord` its `mark_done_task`, the third writer of
`task.done`. `ScriptRead` and `ScriptWrite` are a harness command that rewrites the
same file without the lock, `Deploy` the way of the file to the control plane,
`FilesCrash` and `MarkCrash` a killed command and `Expire` the receipt's end. Two histories see a
write under a receipt: `wrote` is the fingerprint of the file at the moment it was replaced, whoever
left it there, and `overrun` the receipts whose command held the lock while a script wrote. `ChainBroken` is the
whole decision of `lookup_receipt_for_preflight`, used by a guard and by
`ChainNeverBroken`.

### SplitOperations

One task and one issue. `FilesWrite` is the critical section of the three file halves;
`RecStart`, `RecItem`, `RecMirror` are what a record half reads, in its order, and
`RecApply` its SAVEPOINT. An envelope is the operation, its kind, the plan and the
item's body, which is what the fingerprints compare. The checks of a record half that
read the ledger one after the other are merged into one step: the ledger only
grows, so whatever passes them one by one passes the merged one or fails at the primary key.
`ReconItem`, `ReconRead`, `ReconWrite` are full reconcile and `ReconItem`, `ReconTask`
the targeted one; `LinkRead` and `LinkPr`, `RevisePlan`, `TriageMirror` and `TriageEvent`
are the other writers of the row. `EditItem`, `EditPlan`, `Deploy` and `RecCrash` are
the environment.

### AgentRoster, ExecutorRouting

`AgentRoster` is the agent registry of one workspace: the rows an authoritative source
syncs and the overrides operators set over them. `SyncWorkspaceAgentsRead` and
`SyncWorkspaceAgents` are the reads before the SAVEPOINT and the SAVEPOINT of
`sync_workspace_agents`, and `SetWorkspaceAgentRead` and `SetWorkspaceAgent` those of
`set_workspace_agent`, whose write is refused when a row came since and does nothing when it
went. `OverrideExpires` is the clock: it writes nothing and changes what
every reader resolves.

`ExecutorRouting` extends it. A catalog record stands for a version and its hash, so the
binding snapshot of an agent is the catalog that binds it, and a policy id is a capacity
catalog and an agent. `SubmitExactRead`/`SubmitExactRequest` and
`SubmitRoutedRead`/`SubmitRoutedRequest` are the reads outside and the insert inside the
transaction; `ReplayExactRequest` and `ReplayRoutedRequest` answer a used idempotency key.
`ClaimBegin` is what `claim_job` reads first, `ClaimLeased` and `ClaimLegacy` its two
transactions. Leases here are only the policy they refer to; their life is in `RuntimeLease`.

### ChannelProvisioning

`RequestChannel` records a durable request; `LoopStart` to `LoopTakes` are the pump loop's
pass over pending requests, `CommandStart` the channel command. `Acquire` to `Finalize` are
`_provision_discord_channel` under the workspace lock: inspect the rows, look for a marked
channel, create one, finalize. `BindRead`/`BindWrite` and `ReleaseRead`/`ReleaseWrite` serve
both the daemon and the command line: the reads outside the transaction and the
event-first write inside it. `SetRoute`, `Check` and `Finish` are the commits after it.
Discord is external: `Create`, `CreateRefused`, `CreateFails` and `CreateAnswerLost` are what
an API call may come to, `GatewayEvent` the client's cache catching up. `Restart` empties
the daemon. `ledger` is history: what the bound and released events of a channel add up to.

### PlanGate, Transitions, MCTaskLifecycle

`PlanGate` is the event log of one task with the idempotency keys that decide what a
command repeats: `ReviseRead`/`ReviseWrite` (a revision and its supersede link), `DecideRead`/
`DecideWrite` (`approve_plan`, `reject_plan`; the key counts opposite decisions), `HandoffGate`,
`HandoffPlan`, `HandoffWrite` (the three statements of `prepare_handoff`), briefings and review
requests. `Supersessions` is the doctor's judgement of the same log.

`Transitions` is one checklist item with the commands that run a harness script on it:
`Ask` looks for the hint's event, `Gate` is `mark_done_task`'s own check, `ScriptRead` and
`ScriptWrite` the script's unlocked read and replacement, `Record` the event it leads to,
`SyncRead` and `SyncWrite` the targeted reconcile. `ScriptDies` and `Die` are the two places
where a command ends half-way that matter: after the file was replaced, and before the event.

`MCTaskLifecycle` runs both on one task. The events of the two have different keys and
neither reads the other's, so each initial state leaves the budget to one of them.

### PullRequests

Two kinds of database: one a coding host may keep for itself, and the control plane's.
`Publish` to `FinalizeWrite` are `publish_pr` on a host: preflight, validation, fetch of the
head, discovery, creation with `gh`, finalization; `Record` is the record-only sink on the
control plane, `HostCrash` a killed command. `WriterRead`, `LinkTask` (`link_pr`), `AllocateBranch`,
`PlanDecision` and `ReconcileTask` are the other commands that write a task row they read before;
reconcile takes the phase, a branch and a PR from the item, and a closed task no longer reserves its
branch. Reconcile runs on the control plane's mirror. `CheckBegin`
to `Gate` are `check_pr_review`, `check_ci` and `check_merge_gate`, with the two `gh` calls
of a check as two steps; a review or CI check may be given a PR that the task does not have. `Push`, `Judge` and `ClosePr` are GitHub.

### ProjectionDoctor

Operators over the state of `SplitOperations`: the findings `projection_doctor.py` reports of
a recorded operation (`OperationFindings`), of its mirror (`MirrorFindings`) and of a file that
waits for its record half (`FilePending`). It adds no state; the `split` run uses it, so the
composed specification is that of `SplitOperations`.

## 3. What the checks show

Every property has a mutant: a definition changed the way a plausible bug would
change it, under which TLC finds the property violated.

| Run | Instance and size | What it shows |
|---|---|---|
| `lease_core` | 2 jobs, 1 agent of capacity 1, 2 hosts, 1 path, 1 claim key, 1 operator, leases of 2 ticks, 2 attempts per job; 438,680 states up to symmetry | with `cancel_job` interleaved at each of its statements, an active lease is of the current attempt (`ActiveLeaseIsCurrent`), `CapacityHeld`, a key is good for one attempt (`ClaimKeyOnce`), a closed or expired lease stays so (`LeaseNeverRevived`), and the tables implement `WorktreeLock` (`ImplementsLock`) |
| `lease_live` | 2 jobs, 2 agents of capacity 2 and 1, 1 worktree, 1 deactivation; 12,952 states, fairness | two agents compete for one worktree: the deactivation fence (`OfflineAgentIdle`), `PendingIsClaimed` and `LeaseCloses` |
| `legacy` | 1 job, 1 agent, 2 overlapping claims, 4 claims in all, 1 operator; 41,148 states | a late result lands on another execution only after an overlap of claims (`StaleResultOverlapped`), and an accepted one stays (`ResultImmutable`) |
| `legacy_token` | the same | expects the violation of `LateResultFenced`: two claims that overlap are given one token |
| `delivery` | the three modules in five parts: the event pump with 2 threads, 2 workspaces, 2 events, a limit of 2 and 1 fault; 2 outbox rows and 1 sender; 1 row and 1 key with 2 contents, 1 sender and 2 callers; 1 job pump over 3 jobs with a batch of 2; 2 job pumps over 2 jobs; 2 crashes or 1 kill, 1 operator; 201,488 states, fairness | what the cursor passed was delivered or left at the limit (`PassedIsDelivered`), `OneShot`, `ReceiptIsTrue`, no pump runs a job twice or again (`RunsOnceEach`); `EventIsDelivered`, `DeliveryEnds` and `PendingIsRun` unless something they name hinders it |
| `completion` | in three parts: 2 receipts; 1 receipt and 1 `mark_done_task`; 1 receipt and 2 overlapping files commands or repairs; each with 1 recorder, 1 deployment, 1 crash, and the first and the last with 1 script; 618,894 states, fairness | `ChainNeverBroken`, `WriteIsAuthorized`, `ConsumedIsShipped`, `WrittenIsApplied` |
| `completion_terminal` | 1 receipt, 1 recorder, 1 `mark_done_task` | expects the violation of `NoSecondTerminal`: a `mark_done_task` comes between the test of consume and its insert |
| `split` | 2 operations, 2 hosts, 2 record commands, 2 bodies, 2 plans, 3 disturbances (deployments, edits, crashes, revisions together); 387,050 states up to symmetry | `RecordedOnce`, `RecordedWasDeployed`, `AdoptionIsRecorded`, and what the doctor starts to report has a known cause (`FindingsAreExplained`) |
| `routing` | 2 agents, 2 hosts, 2 sources of each kind, 2 operators, 2 submitters, 2 jobs, 4 mixes of changes; 218,819 states up to symmetry | `LeasedRunIsAuthorised`, `LeaseWithinPolicy`, `RosterResolves` |
| `channel` | 2 workspaces, 2 channels, 1 request, 1 loop, 1 command, 2 operators, 4 mixes of faults, operations and commands; 101,479 states, fairness | `RowsMatchEvents`, `ChannelOnce`, `RequestAnswered` |
| `pr` | 2 tasks, 2 branches, 2 commits, 2 pull requests, a host with a database of its own and one on the control plane, 1 writer, 1 checker, 6 mixes of commands and budgets; 1,681,807 states up to symmetry | `FreshWriteKeepsPr`, `RecordedWasPushed`, `ReadyWasVerified` |
| `task` | planning: 2 shells, 2 scopes, 2 plan contents, 5 mixes of commands; item: 2 callers, 9 requests, 3 runs with a fault or 4 without; 732,969 states up to symmetry | `HandoffWasAllowed`, `ApprovedRevisionIsRecognised`, `DecisionHolds`; `ClosedFromReview` |

Some further definitions hold under the same configurations and can be added to them; section 4
proves each of them. They are the type invariant of every module that has one, `RunningIsLeased`
and `WorktreeExclusive` (`lease_core`), `AppliedIsWritten` (`completion`), `SecondRowOverlapped` (`split`),
`OneJobPerKey`, `StaleBindingExplained`, `CapacityStaysSound` and `RollbackIsRaced` (`routing`), `RouteIsBound`
(`channel`), `RecordedIsMirrored` (`pr`), `FailureIsTrue` (`task`), and, in `delivery`, `NoEarlyDeath`, for
its one sender, and `CancelSurvivesExit` when one pump is left.

### Bounds

Two attempts per job give a reclaim that races the first attempt's report or renewal;
leases of two ticks give a live, an overdue and a renewed lease; two jobs and one worktree
make the second wait for the first; three claims are the least that give a token to two
executions, and a fourth reclaims the job after that; an event of two deliveries fills a limit of two, and
the next one is left behind; three jobs and a batch of two leave one job to the next pump, and
two refused ones keep the third from it; two contents under
one key tell a replay from a conflict; two receipts are the least that compete for one item;
two operations on one task and two record commands overlap, and three disturbances deploy an
item, change it, and deploy or crash again. Two sources of each kind are the least for a
takeover, two agents for a routing choice and for an id that two names may claim. Two
channels let a creation be repeated after a lost answer; two operators race a release
against a bind. Two pull requests and two tasks are the least for a conflict between
tasks and for a replaced binding. Two plan contents let a revision go back to an earlier
one; two opposite decisions and a third reach a key that was used.

Instances of the wider modules start with a mix of budgets (`Budgets`, `Loads`): each
initial state has room for several changes of some kinds and few or none of the others.
Between them the mixes contain every pair of kinds a property is about, without the product of
all of them. `MaxAttempts`, `MaxDeactivations`, `MaxClaims`, `MaxCrashes`, `MaxKills`, `MaxEvents`,
`MaxFaults`, `MaxChanges`, `MaxScripts`, `MaxDeploys`, `MaxDisturbances`, `MaxJobs` and the budgets stop
counters the code does not bound.

`CHECK_DEADLOCK FALSE` is set where the system may really come to rest: the job queue
empty, the outbox with every row sent or dead, receipts that are all consumed or
expired, and catalogs, channels, pull requests and tasks when every command that was to
run has run.

Symmetry is used in safety runs only, over sets whose elements nothing orders or
chooses: hosts in `lease_core`, operations, hosts, shells and plans in `split`,
operators and submitters in `routing`, commits and pull requests in `pr`, shells, callers,
scopes and plans in `task`.

### Fairness

Safety runs use none. `lease_live`: a stopped agent is started again and registers, a
registered one polls, a process whose lease is good reports in the end, time passes, and
an operator reaps, as the runbook asks; nothing is assumed of renewals or of
cancellations. `delivery`: `subprocess.run` has a timeout and the job pump is run again while jobs are
pending; `_pump_loop` calls again after every `pump_interval`, exceptions
included; a sender goes on with its row, runs again while there is
something to send, and is restarted with `--recover-sending` after a crash
(`skills/coordinate-operator/subskills/messaging-delivery/references/delivery-and-bus.md:36`
at the repository's root). `completion`: the operator repeats the files command
until it answers, which is what `completion_cli.py` asks of a lost answer: weak fairness of the
statements of a command, strong fairness of its preflight, because a command that is
killed makes it possible again and again; of the two hosts one repeats its commands. `channel`: `on_ready` starts a loop after every start
of the daemon and the loop comes back after each interval, exceptions included; `asyncio` runs
every task that can go on, and its locks are first come, first served, which is strong
fairness of `Acquire`. Nothing is assumed of operators or of Discord.

### Known divergences

Five places where a text of the repository says more than the code does. The runs
`legacy_token` and `completion_terminal` show the second and the fifth. The first, the third and the fourth are
stated as definitions; adding the definition to the run's configuration makes TLC
print the trace.

1. `jobs.py:195`. `cancel_job` runs under `with conn:`, and `sqlite3` opens no transaction before the
   first UPDATE. A claim between the lookup of the active lease and the update leaves a
   cancelled job with an active lease, the state that `tests/test_runtime_lease.py:221`
   describes as from before a fix ("job cancellation committed, but its managed attempt lease
   remained active"). Once that lease is due, the global reap of every claim fails on it.
   `CancelledIsReleased` in `lease_core`.
2. `runtime.py:1721`. A legacy claim takes the attempt number from the row it read before
   `BEGIN IMMEDIATE` and compares only the status. Two claims that overlap a timeout are given the
   same token, and a late result of the first is accepted for the second, though
   `runtime.py:2377` says that "a late result from attempt N must not overwrite a job
   reclaimed as N+1". `LateResultFenced` in `legacy_token`; `StaleResultOverlapped` says that it
   takes the overlap.
3. `job_repository.py:140`. `mark_job_started` does not look at the status that `run_job` tested in another
   transaction, so two pumps that find a job pending both start it, and a cancellation in between is
   undone, though `jobs.py:98` says "only pending jobs can be run". `OnlyPendingIsRun` of `JobRunner` in
   `delivery`; `RunsOnceEach` says what still holds.
4. `completion.py:529`. The gate is evaluated on one read of the deployed checklist and the
   fingerprint taken from a second one; a deployment in between binds a receipt to a state that the
   gate never saw, though `completion.py:503` says the "gate (workflow status) must currently pass"
   and `completion.py:526` "Read from the same authoritative adapter the gate used".
   `ConsumedWasReviewed` in `completion`.
5. `completion.py:976`. `consume_completion_receipt` looks for another `task.done` before it reads the
   deployed item and inserts its own after; a repair or a `mark_done_task`, which looks for its own key
   only (`transitions.py:980`) and takes a done item for a success, comes in between, though
   `completion.py:975` says "Defence in depth: no second terminal under a different authority".
   `docs/runbook.md:713` (at the repository's root) asks operators not to mix the two. `NoSecondTerminal` in `completion_terminal`.

### Known limits of the code that the models show

These are windows the code leaves open. Each model is checked with the number of
processes named here, and states what still holds.

Runtime and delivery:

- One sender is assumed for `NoEarlyDeath`: the send loop (`bus.py:249`) checks and acts in separate
  transactions, so two senders may post one generic row twice. Channel sends are safe with
  any number of callers.
- `mark_job_cancelled` (`job_repository.py:209`) overwrites whatever status the job has by then,
  a completed one included.
- `pump_jobs` takes the first pending rows of any kind (`jobs.py:322`) and skips those it cannot run,
  so enough of them at the head keep the others from their turn, and one that raises ends every
  pump there. `PendingIsRun` excepts both (`Hindered`).
- A row of an unknown platform (`bus.py:254`) ends every unscoped pump before the rows behind it; `DeliveryEnds`
  excepts those.
- Past its limit `pump_events` leaves events over (`policy.py:565`), and `_do_pump` advances the
  cursor to the cutoff all the same (`daemon.py:694`), so they never get a delivery. `PassedIsDelivered` and `EventIsDelivered` except those events and no others.
- A managed claim looks at the first `LEASE_CLAIM_SCAN_LIMIT` rows and gives up at a row of another
  host (`runtime_lease.py:840`). `lease_live` has one host and stays below the limit, so
  `PendingIsClaimed` says nothing of the jobs behind either.
- The legacy claim tests the agent outside its transaction (`runtime.py:1495`).
- The daemon's cursor is in memory: what was appended before a restart and not yet pumped is skipped, by
  design of the first reading.

Executors:

- `retry_job` copies the old binding (`jobs.py:259`), and a catalog sync may land inside a submit. A row
  that is stale or not authorised makes its agent's leased claims fail as long as it is at the
  head of the queue (`runtime_lease.py:870` passes over busy worktrees, not over such rows).
- An executor catalog that drops an agent before the capacity catalog does blocks every capacity sync,
  because the existing policies are part of its guard (`executor_capacity.py:330`).
- The version rules of the roster are tested before the SAVEPOINT (`db.py:857`); two syncs that
  overlap can take the version back (`RollbackIsRaced`).
- An expired override uncovers the row below it; if its id was given to another name
  meanwhile, every reader fails closed until an operator acts.

Channels:

- After an operator released a channel that the daemon bound, provisioning the same pair again
  replays the old bind event (`daemon.py:513`) and leaves the route without a row.
- `ensure_discord_delivery_route` (`channel_provisioning.py:319`) writes a workspace row it read
  earlier; the fields other commands change are not in the model.

Tasks:

- A task may have two `task.done` events also without a race: `mark_done_task` after the consume of
  a receipt appends one under its own key.
- A receipt that expires between the file write and the apply can no longer be applied; a
  harness script that read the file before a locked write overwrites it, and one that wrote between the
  locked read and the replacement (`checklist_io.py:757`) is overwritten by it, which `WriteIsAuthorized` excepts
  by name (`overrun`); a files command
  that was paused may use its receipt for a second write after the receipt was consumed.
- A second approving review takes the approval back, because it records the status it found
  as its phase (`scripts/harness/workflow_transition.py:318` at the repository's root, tested at 366); a handoff or a blocker may reopen a done item.
- The keys of a blocker and of a failure are constant per task and actor
  (`transitions.py:343`): a second blocker after an unblock is swallowed, and a command that
  failed once is answered with that failure until it is given another hint. A success that is
  answered from its event does not reconcile again.
- The key of a decision counts the opposite decisions (`plan_gate.py:121`). The approval of a
  revised plan, after an approval of the earlier one, has the key of that approval, so its
  event is not written and `prepare_handoff` (`handoff.py:872`) goes on refusing until a
  rejection has changed the count. This is the exception that `DecisionHolds` mentions.

Projections and pull requests:

- Overlapping record halves of two operations may both get a ledger row for one
  task: the list of other operations is read before the SAVEPOINT and no unique index names
  the target (`split_operations.py:2717`). `SecondRowOverlapped` (proved, in no run) says it takes the overlap.
- `supersedes_plan_ready_event_id` is read before the SAVEPOINT (`split_operations.py:2780`); if a
  revision commits in between, a later exact retry is refused. Revising a plan back to an earlier
  content (`onboarding.py:1117`) reuses that revision's key with another link and is refused too.
- Full reconcile, `link_pr`, `allocate_branch`, the plan decisions and the adopt record half write
  back every column of a row they read earlier. For the commands in `PullRequests` `FreshWriteKeepsPr`
  says that only such a stale write gives a task another PR. Create and materialize record
  (`split_operations.py:2853`) and `triage_issue(accept)` (`issues.py:472`) write a row without a PR over a fresh one too;
  they are not in `PullRequests`. In `SplitOperations`, which has them but not the PR, their overwriting of the row is among the
  causes that `FindingsAreExplained` names.
- A repeated `link_pr` finds its old event and takes `last_event_id` back to it (`prs.py:147`).
- An adoption whose legacy mirror disagrees with the item is refused by `adopt-record` and, as
  file-pending, by reconcile, until the envelope is taken out by hand.
- A review or CI check asks GitHub for the status and for the head in two calls (`reviews.py:134`,
  `ci.py:171`); a push in between attaches the verdict to a head nobody looked at.
- A host whose record on the control plane was lost can publish the same commit again, but not a
  later one: the control plane knows no pull request, so the host is in its create path, where
  its own mirror refuses another commit (`ValidateCreate`).

### Assumptions on the environment

A 4xx answer of the chat platform means the message was not accepted. Legacy claims are made without a `claim_request_id`. Items always have a workflow
status, and what `--force` lifts is taken as lifted. Every host has a profile of the
workspace, and what a request requires of an executor is the set of agents that meet it. The
removal of a stale checklist lock by two processes is not modelled. The answer of a control
plane command that arrives after its host gave up is covered as an overlapping command.
Worktree exclusion is also backed by the unique index
`idx_execution_attempt_leases_active_resource` (`schema.py`), which the model does not use: the
exclusion follows from the operations alone.

## 4. What is proved

Eight modules hold the proofs. Every proof has the same outline: an inductive invariant, one
lemma per action or group of actions that it is kept, a lemma that it holds at first, and a
last temporal step. The invariant is called `IInv` in a module about one specification, and
`PumpInv`, `OutboxInv`, `RunnerInv`, `TInv`, `SplitInv` or `PullRequestsInv` where a module is about several.
The theorems hold for every value of the constants that satisfies the module's named
assumption (`RuntimeLeaseAssumption` and so on: what is finite, positive or distinct) and the assumption of the
theorem, if it has one.

| Module | Theorems, with the properties of section 3 that they state |
|---|---|
| `RuntimeLeaseProofs` | the nine in the table below |
| `ExecutorRoutingProofs` | `TypeCorrect`; `RosterStaysResolved` (`RosterResolves`); `RunsAuthorised` (`LeasedRunIsAuthorised`); `LeasesWithinPolicy` (`LeaseWithinPolicy`); `StaleBindingsExplained` (`StaleBindingExplained`); `KeyGivesOneJob` (`OneJobPerKey`); the action properties `CapacitySound` (`CapacityStaysSound`) and `RollbackRaced` (`RollbackIsRaced`) |
| `CompletionProofs` | `CompletionTyped`; `ChainsAreWhole` (`ChainNeverBroken`); `WritesAreAuthorized` (`WriteIsAuthorized`); `AppliedMeansWritten` (`AppliedIsWritten`); `ConsumedMeansShipped` (`ConsumedIsShipped`); `LedgerOnlyGrows`, an action property |
| `TaskMirrorProofs` | `SplitTyped`; `AnnouncedOnce` (`RecordedOnce`); `RecordedMeansDeployed` (`RecordedWasDeployed`); `AdoptionsAreRecorded` (`AdoptionIsRecorded`); the action properties `SecondRowsOverlapped` (`SecondRowOverlapped`) and `FindingsHaveCauses` (`FindingsAreExplained`); `PrTyped`; `FreshKeepsPr` (`FreshWriteKeepsPr`); `RecordsWerePushed` (`RecordedWasPushed`); `RecordsAreMirrored` (`RecordedIsMirrored`); `ReadyHeadsVerified` (`ReadyWasVerified`) |
| `TaskLifecycleProofs` | `PlanGateTyped`; `HandoffsAllowed` (`HandoffWasAllowed`); `DecisionsHold` (`DecisionHolds`), an action property; `ApprovalsRecognised` (`ApprovedRevisionIsRecognised`); `FailuresAreTrue` (`FailureIsTrue`); `ClosedAfterReview` (`ClosedFromReview`), an action property |
| `ChannelProvisioningProofs` | `ChannelTyped`; `RowsFollowEvents` (`RowsMatchEvents`); `RoutesAreBound` (`RouteIsBound`); `OneChannelEach` (`ChannelOnce`) |
| `DeliveryProofs` | `PassedAreDelivered` (`PassedIsDelivered`); `OutboxTyped`; `PostedOnce` (`OneShot`); `ReceiptsAreTrue` (`ReceiptIsTrue`); `SentIsPosted`; `EachPumpRunsOnce` (`RunsOnceEach`); for one sender, `OneSenderPersists` (`NoEarlyDeath`); for one pump, the action property `OnePumpKeepsCancelled` (`CancelSurvivesExit`) |
| `LegacyClaimProofs` | `LegacyTyped`; `StaleNeedsOverlap` (`StaleResultOverlapped`); the action property `ResultsStand` (`ResultImmutable`) |

Two theorems have an assumption beyond the module's, `OneSenderPersists` and `OnePumpKeepsCancelled`, and
each time it is a window of section 3. The others hold for any number of processes. The
bounds on faults, attempts and events are constants of the modules, so the theorems hold
for every one of them.

`SecondRowsOverlapped`, `StaleBindingsExplained` and `FailuresAreTrue` excuse the overlaps that they name and are
proved without a run of their own; what they add is that nothing but those overlaps is needed as an
excuse.

### RuntimeLeaseProofs

It proves, for every value of the constants that satisfies
`RuntimeLeaseAssumption` (job numbers are naturals and finitely many, capacities and lifetimes
positive, `None` not an agent, host, path or key):

| Theorem | Statement |
|---|---|
| `TypeCorrect` | `Spec => []TypeOK` |
| `RunningLeased`, `ActiveLeaseCurrent` | every running job has an active lease of its current attempt, and an active lease is of the current attempt of a running job, or of a cancelled one |
| `MutualExclusion` | two attempts never hold one worktree |
| `CapacityRespected` | live leases never exceed the capacity policy |
| `OfflineIdle` | a deactivated agent has no lease, no running job, nothing to recover |
| `ClaimIdempotent` | a claim key is good for one attempt |
| `NeverRevived` | `Spec => LeaseNeverRevived`, an action property |
| `LeasesImplementLock` | `Spec => ImplementsLock`, the refinement of `WorktreeLock` |

The inductive invariant is

    IInv == TypeOK /\ Tables(jobs, leases) /\ CancelTarget /\ CapacityHeld /\ OfflineAgentIdle

None of the properties is inductive alone. `Tables` holds what the two tables promise each
other: `Covered` and `Current` (running jobs and active leases belong to each other),
`Exclusive`, `KeyOnce`, and `Fresh` (no lease row above a job's attempt counter, and no key on a row that does not exist). `Fresh` is why a claim
never overwrites a row, and without it neither exclusion nor the claim keys survive a
claim. `CancelTarget` ties the locals of a `cancel_job` under way to the tables, so that its
delayed write can be shown to close the right row. `Tables` takes the tables as
parameters because a claim is a composition of table changes: global reap, then
reservation; one lemma shows that reaping keeps `Tables`, one that a reservation does, and
`ClaimKeeps` chains them. Capacity is the one statement on cardinalities: reaping only
shrinks the set of live leases (`LiveShrinks`) and a reservation adds one element under the
guard (`CapacityKept`). There is one lemma per group of operations, `Inductive` combines
them, and `InvariantHolds` adds the temporal step.

For the refinement, active rows map to held locks. Every step is shown to take locks away
(`TakesAway`) or to grant free ones to attempts that never had one (`Grants`, from `Fresh` and
`Exclusive`), which are the steps of `WorktreeLock`.

### ExecutorRoutingProofs

    IInv == TypeOK /\ RosterResolves /\ LegacyClaimsQueued /\ CatalogInv /\ JobInv

`RosterResolves` is kept by the roster's own steps (`RosterNext`), and `RosterSteps` shows that every
step of the composed specification is one of them or leaves the roster alone, so its proof does
not mention jobs. `CatalogInv` is the primary keys of the two tables: an agent is bound by one source and
has one policy, so "the binding of an agent" and "its policy" mean something. `JobInv` joins
the three properties on jobs with `OneJobPerKey` and with `RoutedRowsHosted`: only a retry leaves
the choice of a host to the claim, and a routed job always has one. A catalog sync is
kept from breaking `LeasedRunIsAuthorised` by its own guard, a capacity sync from breaking
`LeaseWithinPolicy`. `RollbackRaced` has an invariant of its own, `ReadIsFresh`: a sync that nobody
overtook is still newer than the roster it read.

### CompletionProofs

The chain is kept because each of a receipt's four events pins the same pair of fingerprints, the one
the receipt was issued for and the one mark-done makes of it (`ChainInv`). A files command
therefore takes nothing of its own from one step to the next that the ledger does not already say
(`FilesInv`), which is what makes it safe to kill or to repeat at each of them. That a write
happened is learned from the item's `completion_receipt`, which scripts copy but only a write under
that receipt sets (`ProvenanceInv`); `AppliedMeansWritten` follows from it. What a write replaces is known because
the lock is held from the read under it to the replacement (`LockInv`): until a script has overrun it, the
item is still in the state that the receipt binds (`BoundInv`), whatever other files commands, repairs and
deployments do. `RecordInv` says what a recorder saw, for `ConsumedMeansShipped` that the item it verified
was held by the control plane's copy; `GatedInv` that a receipt id is drawn by one prepare command.

### TaskMirrorProofs

Split operations: the ledger row and its event are written in one SAVEPOINT and point at each other
(`RowInv`, `EventInv`). The rest is about copies: a record half carries an envelope, a plan and a view of the
ledger across its steps (`RecordingInv`), a reconcile or a pull request link carries an item and a
row (`ProjectionInv`), and each has to stay true of the past after the original has moved on.
`FindingsHaveCauses` goes through the writers that read what they write in time: a merge, a link, a revision
and a record half of a deployed, unrivalled item each start no finding (`MergeIsClean`, `LinkIsClean`,
`RevisionIsClean`, `AnnouncedIsClean`), so what remains is a deployment or one of the named overlaps.

Pull requests: commits that were ever pushed only grow, so a publication that fetched its head
keeps the right to record it (`Published`). A row of a mirror has a version, and a row read at a
version is the row that is there as long as the version is (`WriterInv`); `FreshWriteKeepsPr` is this,
at the write. What `gh` said of a head was seen of that head, or the head moved between the two
reads (`Vouched`, in `CheckerInv` for a check under way and in `TaskInv` for what was recorded).

### TaskLifecycleProofs

Plan and handoff: the log only grows, so whatever a command read of a prefix of it stays true of that
prefix. `IInv` says of each event what was true of the log before it (`DecisionSound`, `HandoffSound`), and of each
shell that what it holds was read from a prefix (`DecisionRead`, `GateRead`, `PlanRead`). The second part is
what makes the first inductive: a handoff is written two steps after its gate was read.
`ApprovalsRecognised` speaks of `Reaches`, a recursive function on the chain of supersede links. A registered
plan supersedes an earlier one (`ReadySound`), so the links go down the log; that the
recursion has a solution (`WalkExists`, `ReachesIs`) and that every chain ends at the first plan
(`ReachesFirst`) follow from the least event that would be an exception, which needs no induction theorem.
`DecisionsHold` needs the count in a decision's key: when the counter still has the value the
command read, no opposite decision of the scope came after the event that has this key.

Commands on an item: `TInv` holds for each hint that is not in doubt (`HintInv`). Such a hint has
one run at a time (`OneRun`), no run after a failure (`FailedForGood`), and a run found no answer when it
began (`NotYetAnswered`); so a change of the item is recorded by the run that made it (`TakenIsRecorded`), which no failure can
be. For `ClosedAfterReview`, `AloneInv` says what a script that nobody overtook knows of the item: the
gate that opened is still open, and what it is about to write is an outcome of the present item.

### ChannelProvisioningProofs

`RowsFollowEvents` is inductive with the types: a write changes the row and the history of its events
together or not at all, whatever key is used again. `RoutesAreBound` needs `BindingsStand`, that a bound event's
channel is still bound or was released, also for a task on its way from the bind to the route.
`OneChannelEach` needs three facts about the lock and the cache: one task at a time is inside the
locked part for a workspace (`LockExcludes`), a marked channel that the client's cache does not have
is one whose answer was lost (`UnknownWereLost`), and a task that is about to create found no channel
(`CreatorFoundNone`). It counts channels, which is why `Channels` is assumed finite.

### DeliveryProofs, LegacyClaimProofs

Outbox: a caller that reserved a key has its row to itself until it ends (`CallerOf`, `OwnersApart`), because
reservation and result are compare-and-set under the write lock and the senders and the recovery
only take generic rows (`SenderOf`). `RowOf` is the life of a row: not posted before it is reserved, at most
once after. `SentIsPosted` follows from `Posted`: a sender that has a good answer, and a row that is sent,
have a message, and messages are not taken back. For one sender, `SenderKnows` says that the status, the post and the
attempts of the row it holds are still what it saw, which needs that nobody else sends.

Runner: a job that is not created or waits was never started by anyone (`QueueOf`), and a runner that saw its job
pending has not started it itself, whatever others wrote since (`RunnerOf`). No write puts a
job back in the queue, so a runner sees a job pending only before its first start of it. `OnePumpKeepsCancelled` uses the same invariant.

Legacy claim: the token of a claim and the number of claims that came after it add up to the job's
`attempt_count`, unless one of them ran into another (`TokenCounts`); a claim that saw the job after its
latest claim saw that count (`ClaimInv`). A claim that did not is recorded as overlapped when it commits, and
one whose token was read after the next claim when it is answered, so the sum needs no assumption on how many claims run.

Pump: a workspace that a call is through with is covered up to the call's cutoff, and the one it scans
up to where the scan is, or all but the second delivery of that event (`PumpOf`, `ScanOf`). A scan that ends at the cutoff has covered its
workspace; one that ends at the limit has put the rest into `leftOver`, which counts as covered (`Covered`). The cursor may go
backwards; nothing is lost by that, because `PassedIsDelivered` is about what lies below it.

### Only model-checked

Every invariant and every action property of a run that passes is stated by a theorem. What stays with TLC is
liveness: `PendingIsClaimed`, `LeaseCloses`, `PendingIsRun`, `EventIsDelivered`, `DeliveryEnds`,
`WrittenIsApplied` and `RequestAnswered`. It rests on fairness and so on `ENABLED`, which the provers do not handle.

## 5. What is not modelled, and what could follow

Not modelled, and why:

- Task dependencies (`task_dependencies.py`): validation and graph queries over one parsed checklist, sequential
  and without state of their own.
- Usage evidence and warnings: append-only rows and thresholds over their sums; nothing reads them
  to decide.
- The HTTP and MCP servers and the command line: parsing, authentication and dispatch onto the operations
  above, without state of their own.
- Presentation, reports and read-only diagnosis, apart from the doctor's findings in `ProjectionDoctor`.
- Parsing of checklist, plan, catalog and roster files; file generation from templates.
- Schema and migrations, which run once, at start.
- Inside modelled components: progress notes and usage rows of the runtime; proposals, leases of
  assignments and reviewer handoffs; the actor and workspace binding of receipts and their CI
  evidence; the delivery of a materialization; PR snapshots; the removal of stale checklist locks.

What could follow: the abstract specification of a ledger that only grows, which `Completion` and
`SplitOperations` both implement, with `LedgerOnlyGrows` as the first of two refinement proofs; assignment leases with their expiry; and liveness
of split operations (an applied, deployed, undrifted operation is recorded in the end) in a run
without symmetry.
