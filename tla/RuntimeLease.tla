---------------------------- MODULE RuntimeLease ----------------------------
(***************************************************************************)
(* The leased execution core of Coordinate: the jobs, the attempt leases   *)
(* and the agents of one SQLite database, and the operations of            *)
(* runtime.py, runtime_lease.py, execution_leases.py and jobs.py on them.  *)
(*                                                                         *)
(* Every operation that opens BEGIN IMMEDIATE is one action: SQLite lets   *)
(* one writer in at a time and the code re-reads what it uses under the    *)
(* write lock.  cancel_job is the exception.  It runs under "with conn:",  *)
(* and Python's sqlite3 opens the transaction only at the first UPDATE, so *)
(* its reads are separate steps that other writers may come between.       *)
(*                                                                         *)
(* Operations that end in an error, in an empty claim or in a replay of a  *)
(* stored answer roll back or only read, so they are not steps here.       *)
(***************************************************************************)
EXTENDS Integers, FiniteSets, Sequences

CONSTANTS
  Jobs,         \* job numbers; the order is that of (created_at, id)
  Agents,       \* typed agents (each has an executor binding)
  Hosts,        \* execution hosts
  Paths,        \* worktree paths; a resource is a (host, path) pair
  ClaimKeys,    \* claim_request_id values
  Operators,    \* operator shells that may run "job cancel"
  Capacity,     \* max_concurrent_jobs of each agent's capacity policy
  Ttls,         \* lease lifetimes, in clock ticks, a caller may ask for
  ReapBatch,    \* LEASE_REAP_BATCH_SIZE
  ScanLimit,    \* LEASE_CLAIM_SCAN_LIMIT
  None,         \* SQL NULL: no agent, host, path or key
  MaxAttempts, MaxDeactivations    \* bounds of the model

ASSUME RuntimeLeaseAssumption ==
  /\ Jobs \subseteq Nat /\ IsFiniteSet(Jobs)
  /\ Capacity \in [Agents -> Nat \ {0}]
  /\ Ttls \subseteq Nat \ {0}
  /\ ReapBatch \in Nat \ {0} /\ ScanLimit \in Nat \ {0}
  /\ None \notin Hosts \cup Agents \cup Paths \cup ClaimKeys
  /\ MaxAttempts \in Nat /\ MaxDeactivations \in Nat

VARIABLES
  agents,   \* the agents table, with the hosts of each audit chain
  jobs,     \* the jobs table
  leases,   \* the execution_attempt_leases table, by (job_id, attempt_token)
  cancel    \* per operator, where its cancel_job call stands

vars == <<agents, jobs, leases, cancel>>

-----------------------------------------------------------------------------
(* Types *)

Attempts == Jobs \X (1..MaxAttempts)

JobStatus == {"none", "pending", "running", "done", "failed", "timed_out",
              "cancelled"}
Terminal == {"done", "failed"}

JobRow == [status : JobStatus, attempt : 0..MaxAttempts,
           recoverable : BOOLEAN, agent : Agents \cup {None},
           host : Hosts \cup {None}, path : Paths \cup {None}]

(* UNIQUE(job_id, attempt_token) makes the attempt a key of the table, and *)
(* status "none" a row that is not there.  left is expires_at minus the    *)
(* current time, 0 once the lease is due or closed.  key stands for the    *)
(* job.claim_request marker that the claim appends with the row.           *)
LeaseRow == [status : {"none", "active", "released", "expired"},
             agent : Agents \cup {None}, host : Hosts \cup {None},
             path : Paths \cup {None}, key : ClaimKeys \cup {None},
             reason : {"none", "done", "failed", "timed_out", "job_cancelled"},
             left : Nat]

AgentRow == [state : {"absent", "online", "offline"},
             host : Hosts \cup {None}, audit : Seq(Hosts \cup {None})]

CancelState == [pc : {"idle", "read", "leased", "unleased", "write"},
                job : Jobs \cup {None}, attempt : 0..MaxAttempts]

TypeOK ==
  /\ agents \in [Agents -> AgentRow]
  /\ jobs \in [Jobs -> JobRow]
  /\ leases \in [Attempts -> LeaseRow]
  /\ cancel \in [Operators -> CancelState]

-----------------------------------------------------------------------------
(* Initial state: an empty database. *)

NoJob == [status |-> "none", attempt |-> 0, recoverable |-> FALSE,
          agent |-> None, host |-> None, path |-> None]

NoLease == [status |-> "none", agent |-> None, host |-> None, path |-> None,
            key |-> None, reason |-> "none", left |-> 0]

Idle == [pc |-> "idle", job |-> None, attempt |-> 0]

(* A job row, or a lease row, with some of its columns rewritten.          *)
JobAs(row, status, recoverable) ==
  [status |-> status, attempt |-> row.attempt, recoverable |-> recoverable,
   agent |-> row.agent, host |-> row.host, path |-> row.path]

LeaseAs(row, status, reason) ==
  [status |-> status, agent |-> row.agent, host |-> row.host,
   path |-> row.path, key |-> row.key, reason |-> reason, left |-> 0]

LeaseWith(row, left) ==
  [status |-> row.status, agent |-> row.agent, host |-> row.host,
   path |-> row.path, key |-> row.key, reason |-> row.reason, left |-> left]

Init ==
  /\ agents = [a \in Agents |-> [state |-> "absent", host |-> None,
                                 audit |-> << >>]]
  /\ jobs = [j \in Jobs |-> NoJob]
  /\ leases = [x \in Attempts |-> NoLease]
  /\ cancel = [o \in Operators |-> Idle]

-----------------------------------------------------------------------------
(* Agents *)

(* register_agent: an upsert, from any host, that always sets online.      *)
RegisterAgent(a, h) ==
  /\ agents' = [agents EXCEPT ![a] =
       [state |-> "online", host |-> h, audit |-> agents[a].audit]]
  /\ UNCHANGED <<jobs, leases, cancel>>

(* heartbeat_agent: only from the registered host; sets online again.      *)
HeartbeatAgent(a) ==
  /\ agents[a].state # "absent"
  /\ agents' = [agents EXCEPT ![a] =
       [state |-> "online", host |-> agents[a].host, audit |-> agents[a].audit]]
  /\ UNCHANGED <<jobs, leases, cancel>>

(* Mutant: recoverable jobs do not block. *)
BlockedByOpenWork(a) ==
  \/ \E x \in Attempts : leases[x].agent = a /\ leases[x].status = "active"
  \/ \E j \in Jobs : /\ jobs[j].agent = a
                     /\ jobs[j].status \in {"pending", "running"}

(* _deactivation_blockers *)
Blocked(a) ==
  \/ \E x \in Attempts : leases[x].agent = a /\ leases[x].status = "active"
  \/ \E j \in Jobs : /\ jobs[j].agent = a
                     /\ \/ jobs[j].status \in {"pending", "running"}
                        \/ jobs[j].status = "timed_out" /\ jobs[j].recoverable

(* _validated_deactivation_events: every earlier deactivation was made on  *)
(* the agent's current host.                                               *)
AuditValid(a) ==
  \A i \in DOMAIN agents[a].audit : agents[a].audit[i] = agents[a].host

(* deactivate_agent: the audit event and the offline state together.       *)
DeactivateAgent(a) ==
  /\ agents[a].state = "online" /\ ~Blocked(a) /\ AuditValid(a)
  /\ Len(agents[a].audit) < MaxDeactivations
  /\ agents' = [agents EXCEPT ![a] =
       [state |-> "offline", host |-> agents[a].host,
        audit |-> Append(agents[a].audit, agents[a].host)]]
  /\ UNCHANGED <<jobs, leases, cancel>>

-----------------------------------------------------------------------------
(* Jobs *)

(* Rows are created in the order of their numbers.                         *)
NextRow(j) ==
  /\ jobs[j].status = "none"
  /\ \A k \in Jobs : k < j => jobs[k].status # "none"

(* submit_request for a target agent: the request event and the job row in *)
(* one transaction.  The agent must be registered, online or not.          *)
SubmitRequest(j, a, p) ==
  /\ NextRow(j) /\ agents[a].state # "absent"
  /\ jobs' = [jobs EXCEPT ![j] =
       [status |-> "pending", attempt |-> 0, recoverable |-> FALSE,
        agent |-> a, host |-> agents[a].host, path |-> p]]
  /\ UNCHANGED <<agents, leases, cancel>>

(* retry_job: a new row without the execution context of the old one.      *)
RetryJob(source, j) ==
  /\ jobs[source].status \in {"failed", "cancelled"} /\ NextRow(j)
  /\ jobs' = [jobs EXCEPT ![j] =
       [status |-> "pending", attempt |-> 0, recoverable |-> FALSE,
        agent |-> jobs[source].agent, host |-> None,
        path |-> jobs[source].path]]
  /\ UNCHANGED <<agents, leases, cancel>>

-----------------------------------------------------------------------------
(* Reaping *)

Active(l) == l.status = "active"
Unexpired(l) == l.left > 0
Due(l) == Active(l) /\ ~Unexpired(l)

(* _expire_revalidated_lease: the lease and its job agree.                 *)
Consistent(x) ==
  /\ jobs[x[1]].status = "running"
  /\ jobs[x[1]].attempt = x[2]
  /\ jobs[x[1]].agent = leases[x].agent

(* The due leases one claim may take: all, or ReapBatch of them.           *)
DueBatches ==
  LET due == {x \in Attempts : Due(leases[x])} IN
  {S \in SUBSET due : /\ Cardinality(S) <= ReapBatch
                      /\ S # due => Cardinality(S) = ReapBatch}

ReapedLeases(S) ==
  [x \in Attempts |->
     IF x \in S THEN LeaseAs(leases[x], "expired", "none") ELSE leases[x]]

ReapedJobs(S) ==
  [j \in Jobs |-> IF \E x \in S : x[1] = j
                  THEN JobAs(jobs[j], "timed_out", TRUE)
                  ELSE jobs[j]]

(* reap_exact_lease, and one lease of reap_due_leases, whose older reading *)
(* of the clock only makes it skip more.                                   *)
ReapLease(x) ==
  /\ Due(leases[x]) /\ Consistent(x)
  /\ jobs' = ReapedJobs({x})
  /\ leases' = ReapedLeases({x})
  /\ UNCHANGED <<agents, cancel>>

-----------------------------------------------------------------------------
(* Claiming *)

LiveLeases(a, ls) ==
  {x \in Attempts : ls[x].agent = a /\ Active(ls[x]) /\ Unexpired(ls[x])}

(* Mutant: the claim that would exceed the capacity is still let in. *)
HasCapacityOffByOne(a, ls) == Cardinality(LiveLeases(a, ls)) <= Capacity[a]

(* count_active_leases_for_agent against max_concurrent_jobs               *)
HasCapacity(a, ls) == Cardinality(LiveLeases(a, ls)) < Capacity[a]

(* The rows select_claim_candidate scans: the first ScanLimit of the       *)
(* agent's claimable jobs.                                                 *)
Candidates(a, rec, js) ==
  LET all == {j \in Jobs : /\ js[j].agent = a
                           /\ \/ js[j].status = "pending"
                              \/ /\ rec
                                 /\ js[j].status = "timed_out"
                                 /\ js[j].recoverable}
  IN {j \in all : Cardinality({k \in all : k < j}) < ScanLimit}

(* A stored execution context must name the agent's current host; a job    *)
(* without one gets it at its first claim.                                 *)
AuthorityValid(j, h, js) == js[j].host \in {None, h}

(* Mutant: an overdue lease does not hold its worktree. *)
ResourceFreeOfLive(h, p, ls) ==
  ~ \E x \in Attempts : /\ Active(ls[x]) /\ Unexpired(ls[x])
                        /\ ls[x].host = h /\ ls[x].path = p

ResourceFree(h, p, ls) ==
  ~ \E x \in Attempts : Active(ls[x]) /\ ls[x].host = h /\ ls[x].path = p

(* Of the scanned rows the claim takes the first whose worktree is free,   *)
(* and gives up on a row of another host before that.                      *)
Selected(j, a, rec, js, ls) ==
  LET rows == Candidates(a, rec, js)
      h == agents[a].host
  IN /\ j \in rows
     /\ HasCapacity(a, ls)
     /\ AuthorityValid(j, h, js) /\ ResourceFree(h, js[j].path, ls)
     /\ \A k \in rows : k < j => /\ AuthorityValid(k, h, js)
                                 /\ ~ResourceFree(h, js[k].path, ls)

(* Mutant: the marker is looked up among the running jobs only. *)
AlreadyRunning(a, key) ==
  key # None /\ \E x \in Attempts : /\ leases[x].agent = a /\ leases[x].key = key
                                    /\ jobs[x[1]].status = "running"

(* A marker exists for the key, so the claim is answered from it.          *)
AlreadyClaimed(a, key) ==
  key # None /\ \E x \in Attempts : leases[x].agent = a /\ leases[x].key = key

(* reserve_attempt_lease: a row for the same attempt is an exact replay.   *)
Reserve(x, row, ls) ==
  IF ls[x].status = "none" THEN [ls EXCEPT ![x] = row] ELSE ls

StartedJob(a, row) ==
  [status |-> "running", attempt |-> row.attempt + 1, recoverable |-> FALSE,
   agent |-> a, host |-> agents[a].host, path |-> row.path]

NewLease(a, path, key, ttl) ==
  [status |-> "active", agent |-> a, host |-> agents[a].host, path |-> path,
   key |-> key, reason |-> "none", left |-> ttl]

(* The claim by which a takes job j, after reaping S: the selection, the   *)
(* job's compare-and-set, the lease and the marker.  An inconsistent due   *)
(* lease in the batch makes the whole claim fail.                          *)
Claims(a, rec, ttl, key, S, j) ==
  LET js == ReapedJobs(S)
      ls == ReapedLeases(S)
  IN /\ \A x \in S : Consistent(x)
     /\ Selected(j, a, rec, js, ls)
     /\ js[j].attempt < MaxAttempts
     /\ jobs' = [js EXCEPT ![j] = StartedJob(a, js[j])]
     /\ leases' = Reserve(<<j, js[j].attempt + 1>>,
                          NewLease(a, js[j].path, key, ttl), ls)

(* claim_job of a typed agent, claim_leased_job: the fence on the agent,   *)
(* the replay, the global reap (none in mode "none") and the claim.        *)
ClaimLeasedJob(a, rec, mode, ttl, key) ==
  /\ agents[a].state = "online" /\ ~AlreadyClaimed(a, key)
  /\ \E S \in IF mode = "global" THEN DueBatches ELSE {{}}, j \in Jobs :
       Claims(a, rec, ttl, key, S, j)
  /\ UNCHANGED <<agents, cancel>>

-----------------------------------------------------------------------------
(* Holding a lease *)

(* Mutant: the expiry is not checked. *)
AuthorisedWhileActive(x) ==
  /\ jobs[x[1]].status = "running" /\ jobs[x[1]].attempt = x[2]
  /\ Active(leases[x])

(* require_mutation_authority and require_active_unexpired_lease, for a    *)
(* caller that names the token and the lease of some earlier claim.        *)
Authorised(x) ==
  /\ jobs[x[1]].status = "running" /\ jobs[x[1]].attempt = x[2]
  /\ Active(leases[x]) /\ Unexpired(leases[x])

(* renew_managed_lease: the new expiry must be later than the stored one.  *)
RenewManagedLease(x, ttl) ==
  /\ Authorised(x) /\ ttl > leases[x].left
  /\ leases' = [leases EXCEPT ![x] = LeaseWith(leases[x], ttl)]
  /\ UNCHANGED <<agents, jobs, cancel>>

(* Mutant: the lease stays active. *)
ReportKeepsLease(x, status, resumable) ==
  /\ Authorised(x)
  /\ jobs' = [jobs EXCEPT ![x[1]] =
       JobAs(jobs[x[1]], status, status = "timed_out" /\ resumable)]
  /\ UNCHANGED <<agents, leases, cancel>>

(* report_job_result: the job's update and the release of its lease.       *)
(* Every other branch answers a managed attempt with a replay or an error. *)
ReportJobResult(x, status, resumable) ==
  /\ Authorised(x)
  /\ jobs' = [jobs EXCEPT ![x[1]] =
       JobAs(jobs[x[1]], status, status = "timed_out" /\ resumable)]
  /\ leases' = [leases EXCEPT ![x] = LeaseAs(leases[x], "released", status)]
  /\ UNCHANGED <<agents, cancel>>

-----------------------------------------------------------------------------
(* cancel_job *)

(* get_job, outside any transaction *)
CancelRead(o, j) ==
  /\ cancel[o].pc = "idle"
  /\ jobs[j].status \notin Terminal \cup {"none"}
  /\ cancel' = [cancel EXCEPT ![o] =
       [pc |-> "read", job |-> j, attempt |-> jobs[j].attempt]]
  /\ UNCHANGED <<agents, jobs, leases>>

(* The SELECT of the attempt's active lease and release_attempt_lease's    *)
(* own SELECT of it, still outside any transaction.                        *)
CancelFindLease(o) ==
  LET x == <<cancel[o].job, cancel[o].attempt>> IN
  /\ cancel[o].pc = "read"
  /\ cancel' = [cancel EXCEPT ![o] =
       [pc |-> IF x \in Attempts /\ Active(leases[x])
               THEN "leased" ELSE "unleased",
        job |-> cancel[o].job, attempt |-> cancel[o].attempt]]
  /\ UNCHANGED <<agents, jobs, leases>>

(* release_attempt_lease's UPDATE opens the transaction and does not look  *)
(* at the row's status; mark_job_cancelled then reads the job under the    *)
(* write lock.  A completed job raises and rolls the release back.         *)
CancelLeased(o) ==
  LET j == cancel[o].job
      x == <<j, cancel[o].attempt>>
  IN
  /\ cancel[o].pc = "leased"
  /\ jobs[j].status \notin Terminal
  /\ jobs' = [jobs EXCEPT ![j] =
       JobAs(jobs[j], "cancelled", jobs[j].recoverable)]
  /\ leases' = [leases EXCEPT ![x] =
       LeaseAs(leases[x], "released", "job_cancelled")]
  /\ cancel' = [cancel EXCEPT ![o] = Idle]
  /\ UNCHANGED agents

(* mark_job_cancelled's get_job when there was no lease to release         *)
CancelMarkRead(o) ==
  /\ cancel[o].pc = "unleased"
  /\ jobs[cancel[o].job].status \notin Terminal \cup {"cancelled"}
  /\ cancel' = [cancel EXCEPT ![o] =
       [pc |-> "write", job |-> cancel[o].job, attempt |-> cancel[o].attempt]]
  /\ UNCHANGED <<agents, jobs, leases>>

(* mark_job_cancelled's UPDATE: WHERE id = ?, whatever the status is now   *)
CancelWrite(o) ==
  LET j == cancel[o].job IN
  /\ cancel[o].pc = "write"
  /\ jobs' = [jobs EXCEPT ![j] =
       JobAs(jobs[j], "cancelled", jobs[j].recoverable)]
  /\ cancel' = [cancel EXCEPT ![o] = Idle]
  /\ UNCHANGED <<agents, leases>>

(* The call raises, finds the job cancelled already or is killed: it has   *)
(* written nothing.                                                        *)
CancelEnd(o) ==
  /\ cancel[o].pc # "idle"
  /\ cancel' = [cancel EXCEPT ![o] = Idle]
  /\ UNCHANGED <<agents, jobs, leases>>

-----------------------------------------------------------------------------
(* The clock reaches every open lease. *)
Tick ==
  /\ \E x \in Attempts : Active(leases[x]) /\ Unexpired(leases[x])
  /\ leases' = [x \in Attempts |->
       IF Unexpired(leases[x]) THEN LeaseWith(leases[x], leases[x].left - 1)
                               ELSE leases[x]]
  /\ UNCHANGED <<agents, jobs, cancel>>

AgentStep ==
  \E a \in Agents : \/ \E h \in Hosts : RegisterAgent(a, h)
                    \/ HeartbeatAgent(a)
                    \/ DeactivateAgent(a)

QueueStep ==
  \E j \in Jobs : \/ \E a \in Agents, p \in Paths : SubmitRequest(j, a, p)
                  \/ \E s \in Jobs : RetryJob(s, j)

ClaimStep ==
  \E a \in Agents, rec \in BOOLEAN, mode \in {"global", "none"},
     ttl \in Ttls, key \in ClaimKeys \cup {None} :
    ClaimLeasedJob(a, rec, mode, ttl, key)

LeaseStep ==
  \E x \in Attempts :
    \/ \E ttl \in Ttls : RenewManagedLease(x, ttl)
    \/ \E s \in {"done", "failed", "timed_out"}, r \in BOOLEAN :
         ReportJobResult(x, s, r)
    \/ ReapLease(x)

CancelStep ==
  \E o \in Operators :
    \/ \E j \in Jobs : CancelRead(o, j)
    \/ CancelFindLease(o)
    \/ CancelLeased(o)
    \/ CancelMarkRead(o)
    \/ CancelWrite(o)
    \/ CancelEnd(o)

Next == AgentStep \/ QueueStep \/ ClaimStep \/ LeaseStep \/ CancelStep \/ Tick

Spec == Init /\ [][Next]_vars

-----------------------------------------------------------------------------
(* Safety *)

(* Every running job is covered by an active lease of exactly its current  *)
(* attempt, held by its agent: no claim, report, reap or interleaved       *)
(* cancel leaves an execution that nothing will ever time out.             *)
RunningIsLeased ==
  \A j \in Jobs : jobs[j].status = "running" =>
    \E x \in Attempts : x = <<j, jobs[j].attempt>> /\ Active(leases[x])

(* An active lease belongs to the current attempt of a job that is running *)
(* for the lease's agent, or was cancelled.  So a job has one active lease *)
(* at most, an older attempt has none, and only a cancellation can leave   *)
(* a lease behind that the reaper will refuse (_expire_revalidated_lease). *)
ActiveLeaseIsCurrent ==
  \A x \in Attempts : Active(leases[x]) =>
    /\ jobs[x[1]].attempt = x[2]
    /\ jobs[x[1]].agent = leases[x].agent
    /\ jobs[x[1]].status \in {"running", "cancelled"}

(* Two active leases never name the same worktree of the same host, even   *)
(* when one of them is overdue and the claim did not reap.                 *)
WorktreeExclusive ==
  \A x, y \in Attempts :
    /\ Active(leases[x]) /\ Active(leases[y])
    /\ leases[x].host = leases[y].host /\ leases[x].path = leases[y].path
    => x = y

(* An agent never holds more unexpired leases than its capacity policy     *)
(* allows: an overdue lease is not counted by a claim, so it must not come *)
(* back to life afterwards.                                                *)
CapacityHeld ==
  \A a \in Agents : Cardinality(LiveLeases(a, leases)) <= Capacity[a]

(* Deactivation and claim fence each other: an offline agent has no active *)
(* lease, no running job and no job an operator could recover.             *)
OfflineAgentIdle ==
  \A a \in Agents : agents[a].state = "offline" =>
    /\ \A x \in Attempts : leases[x].agent = a => ~Active(leases[x])
    /\ \A j \in Jobs : jobs[j].agent = a =>
         /\ jobs[j].status # "running"
         /\ ~(jobs[j].status = "timed_out" /\ jobs[j].recoverable)

(* One claim_request_id yields one attempt, however often the agent sends  *)
(* it again after a lost answer.                                           *)
ClaimKeyOnce ==
  \A x, y \in Attempts :
    /\ leases[x].key # None /\ leases[x].key = leases[y].key
    /\ leases[x].agent = leases[y].agent
    => x = y

(* What a step may do to the lease rows that exist.                        *)
LeaseKept ==
  \A x \in Attempts : leases[x].status # "none" =>
    /\ Active(leases'[x]) => Active(leases[x])
    /\ ~Unexpired(leases[x]) => ~Unexpired(leases'[x])
    /\ leases'[x].agent = leases[x].agent /\ leases'[x].host = leases[x].host
    /\ leases'[x].path = leases[x].path /\ leases'[x].key = leases[x].key

(* A lease row is written once per attempt and never comes back: a closed  *)
(* lease is not reopened, an overdue one is not extended, and the attempt  *)
(* it names keeps its agent, worktree and claim key.                       *)
LeaseNeverRevived == [][LeaseKept]_vars

-----------------------------------------------------------------------------
(* Refinement: the active lease rows are the locks that are held. *)

Resources == (Hosts \cup {None}) \X (Paths \cup {None})

Held == {<<x, <<leases[x].host, leases[x].path>>>> :
           x \in {y \in Attempts : Active(leases[y])}}

Spent == {x \in Attempts : leases[x].status # "none"}

Lock == INSTANCE WorktreeLock WITH
          Attempt <- Attempts, Resource <- Resources,
          held <- Held, spent <- Spent

(* Every claim, report, reap, renewal and interleaved cancel is a step of  *)
(* the worktree lock, or none: a worktree passes to a new attempt only     *)
(* when no other holds it, and an attempt that lost it never holds again.  *)
ImplementsLock == Lock!LockSpec

-----------------------------------------------------------------------------
(* Liveness *)

(* A stopped agentd is started again and registers; a registered one polls *)
(* with the default reap_mode; a process whose lease stays good reports in *)
(* the end; time passes; and an operator reaps, as the runbook asks.       *)
Fairness ==
  /\ \A a \in Agents :
       /\ WF_vars(\E h \in Hosts : RegisterAgent(a, h))
       /\ WF_vars(\E ttl \in Ttls : ClaimLeasedJob(a, FALSE, "global", ttl, None))
  /\ \A x \in Attempts :
       /\ WF_vars(\E s \in {"done", "failed", "timed_out"}, r \in BOOLEAN :
                    ReportJobResult(x, s, r))
       /\ WF_vars(ReapLease(x))
  /\ WF_vars(Tick)

LiveSpec == Spec /\ Fairness

(* Every submitted job is claimed in the end: neither a busy or overdue    *)
(* worktree, a full agent, nor a deactivation keeps it pending for ever.   *)
PendingIsClaimed ==
  \A j \in Jobs : jobs[j].status = "pending" ~> jobs[j].status # "pending"

(* Every lease is closed in the end, by a report or by the reaper, so a    *)
(* crashed agent never keeps a worktree.                                   *)
LeaseCloses ==
  \A x \in Attempts : Active(leases[x]) ~> ~Active(leases[x])

-----------------------------------------------------------------------------
(* What the tests and messages say of cancel_job, and what the code does.  *)

(* A job that was cancelled has no active lease: "job cancellation         *)
(* committed, but its managed attempt lease remained active" is described  *)
(* as a state from before a fix.  The code does not have this guarantee: a *)
(* claim between cancel_job's reads and its write breaks it (README, known *)
(* divergences).                                                           *)
CancelledIsReleased ==
  \A x \in Attempts : Active(leases[x]) => jobs[x[1]].status # "cancelled"
=============================================================================
