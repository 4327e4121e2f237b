------------------------------ MODULE JobRunner ------------------------------
(***************************************************************************)
(* Local subprocess jobs: run_job, pump_jobs, cancel_job and retry_job of  *)
(* jobs.py over the rows of job_repository.py.  "job pump" and "job run"   *)
(* are shell commands, so several may be at work on one database; every    *)
(* statement they make is its own transaction.                             *)
(***************************************************************************)
EXTENDS Integers, FiniteSets

CONSTANTS
  Jobs,        \* job numbers; the order is that of (created_at, id)
  Runners,     \* processes inside "job pump" or "job run"
  Operators,   \* operator shells inside "job cancel"
  Batch,       \* pump_jobs' limit
  NoJob,
  MaxKills, MaxChanges   \* bounds of the model

ASSUME JobRunnerAssumption ==
  /\ Jobs \subseteq Nat /\ Batch \in Nat \ {0} /\ MaxKills \in Nat /\ MaxChanges \in Nat
  /\ NoJob \notin Jobs

VARIABLES
  jobs,      \* the status column of the jobs table
  fitness,   \* external: what run_job makes of each job before its start
  runner,    \* per process, the locals of pump_jobs and run_job
  cancel,    \* per operator, the job its cancel_job is about to write
  started,   \* history: per job and process, the subprocesses started
  kills,     \* history: processes killed
  changes    \* history: how often fitness changed

runnerVars == <<jobs, fitness, runner, cancel, started, kills, changes>>

Status == {"none", "pending", "running", "done", "failed", "cancelled"}
Completed == {"done", "failed"}

(* run_job starts a job that is fit.  It refuses one of an unknown         *)
(* workspace or runner profile, or whose working directory is missing, and *)
(* raises for a log or result path that cannot be prepared.                *)
Fitness == {"fit", "refused", "raises"}

(* "pump" is between two jobs of the list, "checked" has seen the job      *)
(* pending, "marked" has set it running, "exited" has the exit code.       *)
Runner == [pc : {"idle", "pump", "checked", "marked", "exited"},
           todo : SUBSET Jobs, job : Jobs \cup {NoJob},
           exit : {"none", "done", "failed"}]

RunnerTypeOK ==
  /\ jobs \in [Jobs -> Status]
  /\ runner \in [Runners -> Runner]
  /\ cancel \in [Operators -> Jobs \cup {NoJob}]
  /\ started \in [Jobs -> [Runners -> Nat]]
  /\ kills \in 0..MaxKills
  /\ fitness \in [Jobs -> Fitness] /\ changes \in 0..MaxChanges

IdleRunner == [pc |-> "idle", todo |-> {}, job |-> NoJob, exit |-> "none"]

RunnerInit ==
  /\ jobs = [j \in Jobs |-> "none"]
  /\ runner = [r \in Runners |-> IdleRunner]
  /\ cancel = [o \in Operators |-> NoJob]
  /\ started = [j \in Jobs |-> [r \in Runners |-> 0]]
  /\ kills = 0
  /\ fitness = [j \in Jobs |-> "fit"] /\ changes = 0

RunnerAt(r, pc, j, exit) ==
  runner' = [runner EXCEPT ![r] =
    [pc |-> pc, todo |-> runner[r].todo \ {j}, job |-> j, exit |-> exit]]

(* The rest of the list, or the end of the call.                           *)
NextInList(r) ==
  runner' = [runner EXCEPT ![r] =
    IF runner[r].todo = {} THEN IdleRunner
    ELSE [IdleRunner EXCEPT !.pc = "pump", !.todo = runner[r].todo]]

-----------------------------------------------------------------------------
(* create_job                                                              *)
CreateJob(j, f) ==
  /\ jobs[j] = "none" /\ \A k \in Jobs : k < j => jobs[k] # "none"
  /\ jobs' = [jobs EXCEPT ![j] = "pending"]
  /\ fitness' = [fitness EXCEPT ![j] = f]
  /\ UNCHANGED <<runner, cancel, started, kills, changes>>

(* retry_job copies a failed or cancelled job, its workspace, profile and  *)
(* worktree to a new row.                                                  *)
RetryJob(source, j) ==
  /\ jobs[source] \in {"failed", "cancelled"}
  /\ CreateJob(j, fitness[source])

(* A directory comes or goes, a profile is registered, a path is mended.   *)
FitnessChanges(j, f) ==
  /\ jobs[j] = "pending" /\ fitness[j] # f /\ changes < MaxChanges
  /\ fitness' = [fitness EXCEPT ![j] = f]
  /\ changes' = changes + 1
  /\ UNCHANGED <<jobs, runner, cancel, started, kills>>

(* pump_jobs: the first Batch pending jobs, read once.                     *)
PumpList(r) ==
  LET pending == {j \in Jobs : jobs[j] = "pending"} IN
  /\ runner[r].pc = "idle" /\ pending # {}
  /\ runner' = [runner EXCEPT ![r] = [IdleRunner EXCEPT !.pc = "pump",
       !.todo = {j \in pending : Cardinality({k \in pending : k < j}) < Batch}]]
  /\ UNCHANGED <<jobs, fitness, cancel, started, kills, changes>>

(* run_job has the next job of the list in hand. *)
InHand(r, j) ==
  /\ runner[r].pc = "pump"
  /\ j \in runner[r].todo /\ \A k \in runner[r].todo : j <= k

(* run_job's own reading: only a pending job that is fit goes on.          *)
RunCheck(r, j) ==
  /\ InHand(r, j) /\ jobs[j] = "pending" /\ fitness[j] = "fit"
  /\ RunnerAt(r, "checked", j, "none")
  /\ UNCHANGED <<jobs, fitness, cancel, started, kills, changes>>

Refused(j) == jobs[j] # "pending" \/ fitness[j] = "refused"

(* Mutant: the first JobError ends the pump. *)
RunRefusedEnds(r, j) ==
  /\ InHand(r, j) /\ Refused(j)
  /\ runner' = [runner EXCEPT ![r] = IdleRunner]
  /\ UNCHANGED <<jobs, fitness, cancel, started, kills, changes>>

(* JobError: the pump notes it and takes the next job; a pending job stays *)
(* pending, at its place in the queue.                                     *)
RunRefused(r, j) ==
  /\ InHand(r, j) /\ Refused(j)
  /\ runner' = [runner EXCEPT ![r] =
       IF runner[r].todo = {j} THEN IdleRunner
       ELSE [IdleRunner EXCEPT !.pc = "pump", !.todo = runner[r].todo \ {j}]]
  /\ UNCHANGED <<jobs, fitness, cancel, started, kills, changes>>

(* Any other exception ends the call, with the rest of its list.           *)
RunRaises(r, j) ==
  /\ InHand(r, j) /\ jobs[j] = "pending" /\ fitness[j] = "raises"
  /\ runner' = [runner EXCEPT ![r] = IdleRunner]
  /\ UNCHANGED <<jobs, fitness, cancel, started, kills, changes>>

(* mark_job_started: UPDATE ... WHERE id = ?, whatever the status is, and  *)
(* the subprocess starts.                                                  *)
MarkStarted(r) ==
  /\ runner[r].pc = "checked"
  /\ jobs' = [jobs EXCEPT ![runner[r].job] = "running"]
  /\ started' = [started EXCEPT ![runner[r].job][r] = @ + 1]
  /\ RunnerAt(r, "marked", runner[r].job, "none")
  /\ UNCHANGED <<fitness, cancel, kills, changes>>

(* The subprocess ends or times out, and its response is read.             *)
SubprocessEnds(r, exit) ==
  /\ runner[r].pc = "marked"
  /\ RunnerAt(r, "exited", runner[r].job, exit)
  /\ UNCHANGED <<jobs, fitness, cancel, started, kills, changes>>

(* Mutant: the completion returns the job to the queue. *)
MarkCompletedRequeues(r) ==
  /\ runner[r].pc = "exited"
  /\ jobs' = [jobs EXCEPT ![runner[r].job] =
       IF @ = "running" /\ runner[r].exit = "failed" THEN "pending" ELSE @]
  /\ NextInList(r)
  /\ UNCHANGED <<fitness, cancel, started, kills, changes>>

(* mark_job_completed: only a running job is completed, and a cancelled    *)
(* one is left as it is.  Any other status raises and ends the pump.       *)
MarkCompleted(r) ==
  LET j == runner[r].job IN
  /\ runner[r].pc = "exited"
  /\ jobs' = [jobs EXCEPT ![j] = IF @ = "running" THEN runner[r].exit ELSE @]
  /\ IF jobs[j] \in {"running", "cancelled"}
       THEN NextInList(r)
       ELSE runner' = [runner EXCEPT ![r] = IdleRunner]
  /\ UNCHANGED <<fitness, cancel, started, kills, changes>>

(* The process is killed, or an exception that run_job does not catch ends *)
(* the call; the job it ran stays as it is.                                *)
RunnerCrash(r) ==
  /\ runner[r].pc # "idle" /\ kills < MaxKills
  /\ kills' = kills + 1
  /\ runner' = [runner EXCEPT ![r] = IdleRunner]
  /\ UNCHANGED <<jobs, fitness, cancel, started, changes>>

(* mark_job_cancelled's reading and its write, which looks no further      *)
CancelRead(o, j) ==
  /\ cancel[o] = NoJob
  /\ jobs[j] \notin Completed \cup {"none", "cancelled"}
  /\ cancel' = [cancel EXCEPT ![o] = j]
  /\ UNCHANGED <<jobs, fitness, runner, started, kills, changes>>

CancelWrite(o) ==
  /\ cancel[o] # NoJob
  /\ jobs' = [jobs EXCEPT ![cancel[o]] = "cancelled"]
  /\ cancel' = [cancel EXCEPT ![o] = NoJob]
  /\ UNCHANGED <<fitness, runner, started, kills, changes>>

-----------------------------------------------------------------------------
RunStep(r) ==
  \/ \E j \in Jobs : RunCheck(r, j) \/ RunRefused(r, j) \/ RunRaises(r, j)
  \/ MarkStarted(r) \/ MarkCompleted(r)
  \/ \E e \in Completed : SubprocessEnds(r, e)

QueueStep ==
  \E j \in Jobs : \/ \E f \in Fitness : CreateJob(j, f) \/ FitnessChanges(j, f)
                  \/ \E s \in Jobs : RetryJob(s, j)

CancelStep == \E o \in Operators : \/ \E j \in Jobs : CancelRead(o, j)
                                   \/ CancelWrite(o)

RunnerNext ==
  \/ QueueStep \/ CancelStep
  \/ \E r \in Runners : PumpList(r) \/ RunStep(r) \/ RunnerCrash(r)

RunnerSpec == RunnerInit /\ [][RunnerNext]_runnerVars

-----------------------------------------------------------------------------
(* No pump runs a job twice, and no job that any pump has started is in    *)
(* the queue again: neither a crash, a retry nor a cancellation, whose     *)
(* write may cross the start, brings a row back.                           *)
RunsOnceEach ==
  \A j \in Jobs, r \in Runners :
    /\ started[j][r] <= 1
    /\ started[j][r] > 0 => jobs[j] \notin {"none", "pending"}

(* "only pending jobs can be run", for the pumps together.  Two of them    *)
(* that both find a job pending both start it: mark_job_started does not   *)
(* look at the status again.                                               *)
OnlyPendingIsRun ==
  [][\A j \in Jobs : started'[j] # started[j] => jobs[j] = "pending"]_runnerVars

(* A cancellation that comes after the job started is final: the exit code *)
(* of the subprocess does not replace it.                                  *)
CancelSurvivesExit ==
  [][\A j \in Jobs : jobs[j] = "cancelled" /\ (\E r \in Runners : started[j][r] > 0) =>
       jobs'[j] = "cancelled"]_runnerVars

-----------------------------------------------------------------------------
(* The subprocess ends (subprocess.run has a timeout), the pump goes on    *)
(* with its list, and someone pumps again while there are pending jobs.    *)
RunnerFairness == \A r \in Runners : WF_runnerVars(RunStep(r)) /\ WF_runnerVars(PumpList(r))

RunnerLiveSpec == RunnerSpec /\ RunnerFairness

(* What keeps a pending job in the queue: run_job will not start it, an    *)
(* older pending job ends every pump before its turn, or the older pending *)
(* jobs that are refused fill every list.                                  *)
Hindered(j) ==
  LET older == {k \in Jobs : k < j /\ jobs[k] = "pending"} IN
  \/ fitness[j] # "fit"
  \/ \E k \in older : fitness[k] = "raises"
  \/ Cardinality({k \in older : fitness[k] = "refused"}) >= Batch

(* A pending job leaves the queue, behind jobs that fail and beside fewer  *)
(* than Batch that are refused, unless it is hindered again and again.     *)
PendingIsRun ==
  \A j \in Jobs : jobs[j] = "pending" ~> jobs[j] # "pending" \/ Hindered(j)
=============================================================================
