----------------------------- MODULE LegacyClaim -----------------------------
(***************************************************************************)
(* Jobs of untyped agents, which are claimed without a lease: the legacy   *)
(* path of claim_job, report_job_result and _accept_late_result in         *)
(* runtime.py, with the attempt token as the only fence.                   *)
(*                                                                         *)
(* The legacy claim tests the agent and selects its candidate before       *)
(* BEGIN IMMEDIATE and compares only the status under it; the token it     *)
(* answers with is read again after the commit.  A report re-reads the job *)
(* under the write lock, so it is one step.                                *)
(***************************************************************************)
EXTENDS Integers, Sequences, FiniteSets

CONSTANTS
  Jobs,        \* job numbers; the order is that of (created_at, id)
  Agents,      \* untyped agents
  Claimers,    \* server threads inside claim_job
  Operators,   \* operator shells inside cancel_job
  None,
  MaxClaims    \* bound of the model: claims of one job

ASSUME LegacyClaimAssumption ==
  /\ Jobs \subseteq Nat /\ MaxClaims \in Nat
  /\ None \notin Jobs \cup Agents

VARIABLES
  online,    \* the agents that are online
  jobs,      \* the jobs table
  claimer,   \* per thread, the locals of its claim_job
  cancel,    \* per operator, the job its cancel_job is about to write
  claims,    \* history: per job, the token each claim was answered with
  overlapped \* history: per job, the claims that another claim ran into

vars == <<online, jobs, claimer, cancel, claims, overlapped>>

Terminal == {"done", "failed"}

(* by is the claim whose execution sent the stored result, and fenced says *)
(* that the report carried its attempt token.                              *)
JobRow == [status : {"none", "pending", "running", "done", "failed",
                     "timed_out", "cancelled"},
           agent : Agents \cup {None}, attempt : 0..MaxClaims,
           recoverable : BOOLEAN, by : 0..MaxClaims, fenced : BOOLEAN]

(* n is the number of claims the SELECT saw, then the number of the claim. *)
Claimer == [pc : {"idle", "online", "selected", "committed"},
            agent : Agents \cup {None}, job : Jobs \cup {None},
            status : {"none", "pending", "timed_out"},
            attempt : 0..MaxClaims, n : 0..MaxClaims]

TypeOK ==
  /\ online \subseteq Agents
  /\ jobs \in [Jobs -> JobRow]
  /\ claimer \in [Claimers -> Claimer]
  /\ cancel \in [Operators -> Jobs \cup {None}]
  /\ claims \in [Jobs -> Seq(0..MaxClaims)]
  /\ overlapped \in [Jobs -> SUBSET (1..MaxClaims)]

NoJob == [status |-> "none", agent |-> None, attempt |-> 0,
          recoverable |-> FALSE, by |-> 0, fenced |-> FALSE]

Idle == [pc |-> "idle", agent |-> None, job |-> None, status |-> "none",
         attempt |-> 0, n |-> 0]

Init ==
  /\ online = Agents
  /\ jobs = [j \in Jobs |-> NoJob]
  /\ claimer = [p \in Claimers |-> Idle]
  /\ cancel = [o \in Operators |-> None]
  /\ claims = [j \in Jobs |-> << >>]
  /\ overlapped = [j \in Jobs |-> {}]

-----------------------------------------------------------------------------
(* register_agent and heartbeat_agent                                      *)
ComeOnline(a) ==
  /\ online' = online \cup {a}
  /\ UNCHANGED <<jobs, claimer, cancel, claims, overlapped>>

(* deactivate_agent, behind _deactivation_blockers                         *)
DeactivateAgent(a) ==
  /\ a \in online
  /\ ~ \E j \in Jobs : /\ jobs[j].agent = a
                       /\ \/ jobs[j].status \in {"pending", "running"}
                          \/ jobs[j].status = "timed_out" /\ jobs[j].recoverable
  /\ online' = online \ {a}
  /\ UNCHANGED <<jobs, claimer, cancel, claims, overlapped>>

(* submit_request                                                          *)
SubmitRequest(j, a) ==
  /\ jobs[j].status = "none" /\ \A k \in Jobs : k < j => jobs[k].status # "none"
  /\ jobs' = [jobs EXCEPT ![j] = [NoJob EXCEPT !.status = "pending", !.agent = a]]
  /\ UNCHANGED <<online, claimer, cancel, claims, overlapped>>

-----------------------------------------------------------------------------
(* claim_job *)

(* _require_online_agent                                                   *)
ClaimBegin(p, a) ==
  /\ claimer[p].pc = "idle" /\ a \in online
  /\ claimer' = [claimer EXCEPT ![p] = [Idle EXCEPT !.pc = "online", !.agent = a]]
  /\ UNCHANGED <<online, jobs, cancel, claims, overlapped>>

Claimable(j, a, rec) ==
  /\ jobs[j].agent = a
  /\ \/ jobs[j].status = "pending"
     \/ rec /\ jobs[j].status = "timed_out" /\ jobs[j].recoverable

(* The SELECT of the oldest candidate; with none the call ends.            *)
ClaimSelect(p, rec) ==
  LET a == claimer[p].agent
      found == {j \in Jobs : Claimable(j, a, rec)}
  IN
  /\ claimer[p].pc = "online"
  /\ claimer' = [claimer EXCEPT ![p] =
       IF found = {} THEN Idle
       ELSE LET j == CHOOSE j \in found : \A k \in found : j <= k IN
            [pc |-> "selected", agent |-> a, job |-> j,
             status |-> jobs[j].status, attempt |-> jobs[j].attempt,
             n |-> Len(claims[j])]]
  /\ UNCHANGED <<online, jobs, cancel, claims, overlapped>>

(* Mutant: the UPDATE names the id only. *)
StatusKeptAny(p) == TRUE

(* The UPDATE's WHERE: the id, and the status that the SELECT saw.         *)
StatusKept(p) == jobs[claimer[p].job].status = claimer[p].status

(* The claim's transaction; the token is the selected row's count plus 1,  *)
(* whatever other claims wrote since.                                      *)
ClaimCommit(p) ==
  LET c == claimer[p]
      j == c.job
  IN
  /\ c.pc = "selected" /\ StatusKept(p)
  /\ Len(claims[j]) < MaxClaims
  /\ jobs' = [jobs EXCEPT ![j] =
       [@ EXCEPT !.status = "running", !.attempt = c.attempt + 1,
                 !.recoverable = FALSE]]
  /\ claims' = [claims EXCEPT ![j] = Append(@, 0)]
  /\ overlapped' = [overlapped EXCEPT ![j] =
       IF c.n = Len(claims[j]) THEN @ ELSE @ \cup {Len(claims[j]) + 1}]
  /\ claimer' = [claimer EXCEPT ![p] =
       [@ EXCEPT !.pc = "committed", !.n = Len(claims[j]) + 1]]
  /\ UNCHANGED <<online, cancel>>

(* rowcount = 0: the claim ends empty.                                     *)
ClaimLost(p) ==
  /\ claimer[p].pc = "selected" /\ ~StatusKept(p)
  /\ claimer' = [claimer EXCEPT ![p] = Idle]
  /\ UNCHANGED <<online, jobs, cancel, claims, overlapped>>

(* The job is read again, and its attempt_count is the answer's token.     *)
ClaimAnswer(p) ==
  LET j == claimer[p].job
      n == claimer[p].n
  IN
  /\ claimer[p].pc = "committed"
  /\ claims' = [claims EXCEPT ![j][n] = jobs[j].attempt]
  /\ overlapped' = [overlapped EXCEPT ![j] =
       IF n = Len(claims[j]) THEN @ ELSE @ \cup {n}]
  /\ claimer' = [claimer EXCEPT ![p] = Idle]
  /\ UNCHANGED <<online, jobs, cancel>>

-----------------------------------------------------------------------------
(* Results.  An execution reports at any time, more than once, with its    *)
(* token or (an old client) without.                                       *)

(* Mutant: the token is not compared. *)
TokenHoldsAny(j, n, fenced) == TRUE

TokenHolds(j, n, fenced) == fenced => jobs[j].attempt = claims[j][n]

(* report_job_result of a running job                                      *)
ReportRunning(j, n, fenced, status, resumable) ==
  /\ jobs[j].status = "running" /\ claims[j][n] > 0
  /\ TokenHolds(j, n, fenced)
  /\ jobs' = [jobs EXCEPT ![j] =
       [@ EXCEPT !.status = status, !.by = n, !.fenced = fenced,
                 !.recoverable = (status = "timed_out" /\ resumable)]]
  /\ UNCHANGED <<online, claimer, cancel, claims, overlapped>>

(* _accept_late_result: done or failed for a recoverable timed_out job     *)
AcceptLate(j, n, fenced, status) ==
  /\ jobs[j].status = "timed_out" /\ jobs[j].recoverable /\ claims[j][n] > 0
  /\ TokenHolds(j, n, fenced)
  /\ jobs' = [jobs EXCEPT ![j] =
       [@ EXCEPT !.status = status, !.by = n, !.fenced = fenced,
                 !.recoverable = FALSE]]
  /\ UNCHANGED <<online, claimer, cancel, claims, overlapped>>

-----------------------------------------------------------------------------
(* cancel_job: mark_job_cancelled reads the job and then writes it, with   *)
(* no transaction around the two.                                          *)
CancelRead(o, j) ==
  /\ cancel[o] = None
  /\ jobs[j].status \notin Terminal \cup {"none", "cancelled"}
  /\ cancel' = [cancel EXCEPT ![o] = j]
  /\ UNCHANGED <<online, jobs, claimer, claims, overlapped>>

CancelWrite(o) ==
  /\ cancel[o] # None
  /\ jobs' = [jobs EXCEPT ![cancel[o]].status = "cancelled"]
  /\ cancel' = [cancel EXCEPT ![o] = None]
  /\ UNCHANGED <<online, claimer, claims, overlapped>>

-----------------------------------------------------------------------------
AgentStep == \E a \in Agents : \/ ComeOnline(a) \/ DeactivateAgent(a)
                               \/ \E j \in Jobs : SubmitRequest(j, a)

ClaimStep ==
  \E p \in Claimers : \/ \E a \in Agents : ClaimBegin(p, a)
                      \/ \E rec \in BOOLEAN : ClaimSelect(p, rec)
                      \/ ClaimCommit(p) \/ ClaimLost(p) \/ ClaimAnswer(p)

ReportStep ==
  \E j \in Jobs : \E n \in DOMAIN claims[j], fenced \in BOOLEAN :
    \/ \E s \in {"done", "failed", "timed_out"}, r \in BOOLEAN :
         ReportRunning(j, n, fenced, s, r)
    \/ \E s \in Terminal : AcceptLate(j, n, fenced, s)

CancelStep == \E o \in Operators : \/ \E j \in Jobs : CancelRead(o, j)
                                   \/ CancelWrite(o)

Next == AgentStep \/ ClaimStep \/ ReportStep \/ CancelStep

Spec == Init /\ [][Next]_vars

-----------------------------------------------------------------------------
(* A stored result that came with a token is the result of the latest      *)
(* claim, or a claim made since then ran into another one: its SELECT saw  *)
(* an attempt_count that another claim wrote over, or its token was read   *)
(* back after the next claim.  Only then does one token stand for two      *)
(* executions; a late report alone never lands on a job that was           *)
(* reclaimed.                                                              *)
StaleResultOverlapped ==
  \A j \in Jobs : jobs[j].status \in Terminal /\ jobs[j].fenced =>
    \/ jobs[j].by = Len(claims[j])
    \/ \E m \in overlapped[j] : jobs[j].by <= m

(* What _accept_late_result says of its token ("a late result from attempt *)
(* N must not overwrite a job reclaimed as N+1"), for every pair of        *)
(* claims.  Two overlapping claims are answered with one token, and the    *)
(* late result of the first of them is stored.                             *)
LateResultFenced ==
  \A j \in Jobs : jobs[j].status \in Terminal /\ jobs[j].fenced =>
    jobs[j].by = Len(claims[j])

(* An accepted done or failed result stays what it is, whatever stale      *)
(* claims, reports and late results come after it; only a cancellation     *)
(* that read the job before may replace the status.                        *)
ResultImmutable ==
  [][\A j \in Jobs : jobs[j].status \in Terminal =>
       /\ jobs'[j].status \in {jobs[j].status, "cancelled"}
       /\ jobs'[j].by = jobs[j].by]_vars
=============================================================================
