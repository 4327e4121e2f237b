------------------------- MODULE RuntimeLeaseProofs -------------------------
(***************************************************************************)
(* Proofs about RuntimeLease, for any jobs, agents, hosts, worktrees,      *)
(* capacities, lifetimes and operators.                                    *)
(***************************************************************************)
EXTENDS RuntimeLease, FiniteSetTheorems, TLAPS

USE RuntimeLeaseAssumption

-----------------------------------------------------------------------------
(* Types *)

(* A reap keeps the types of both tables.                                  *)
LEMMA ReapTypes ==
  ASSUME TypeOK, NEW S
  PROVE  /\ ReapedJobs(S) \in [Jobs -> JobRow]
         /\ ReapedLeases(S) \in [Attempts -> LeaseRow]
<1>1. ReapedJobs(S) \in [Jobs -> JobRow]
  BY DEF TypeOK, ReapedJobs, JobAs, JobRow, JobStatus
<1>2. ReapedLeases(S) \in [Attempts -> LeaseRow]
  BY DEF TypeOK, ReapedLeases, LeaseAs, LeaseRow
<1> QED BY <1>1, <1>2

(* No action takes a table out of its type.                                *)
LEMMA TypeStep == TypeOK /\ [Next]_vars => TypeOK'
<1> SUFFICES ASSUME TypeOK, [Next]_vars PROVE TypeOK'
  OBVIOUS
<1>1. CASE AgentStep
  <2> SUFFICES agents' \in [Agents -> AgentRow]
    BY <1>1 DEF TypeOK, AgentStep, RegisterAgent, HeartbeatAgent, DeactivateAgent
  <2>1. ASSUME NEW a \in Agents, NEW h \in Hosts, RegisterAgent(a, h)
        PROVE  agents' \in [Agents -> AgentRow]
    BY <2>1 DEF TypeOK, RegisterAgent, AgentRow
  <2>2. ASSUME NEW a \in Agents, HeartbeatAgent(a)
        PROVE  agents' \in [Agents -> AgentRow]
    BY <2>2 DEF TypeOK, HeartbeatAgent, AgentRow
  <2>3. ASSUME NEW a \in Agents, DeactivateAgent(a)
        PROVE  agents' \in [Agents -> AgentRow]
    <3>1. Append(agents[a].audit, agents[a].host) \in Seq(Hosts \cup {None})
      BY DEF TypeOK, AgentRow
    <3> QED BY <2>3, <3>1 DEF TypeOK, DeactivateAgent, AgentRow
  <2> QED BY <1>1, <2>1, <2>2, <2>3 DEF AgentStep
<1>2. CASE QueueStep
  <2>1. ASSUME NEW j \in Jobs, NEW a \in Agents, NEW p \in Paths,
               SubmitRequest(j, a, p)
        PROVE  TypeOK'
    <3>1. agents[a].host \in Hosts \cup {None}
      BY DEF TypeOK, AgentRow
    <3> QED BY <2>1, <3>1 DEF TypeOK, SubmitRequest, JobRow, JobStatus
  <2>2. ASSUME NEW j \in Jobs, NEW s \in Jobs, RetryJob(s, j)
        PROVE  TypeOK'
    <3>1. /\ jobs[s].agent \in Agents \cup {None}
          /\ jobs[s].path \in Paths \cup {None}
      BY DEF TypeOK, JobRow
    <3> QED BY <2>2, <3>1 DEF TypeOK, RetryJob, JobRow, JobStatus
  <2> QED BY <1>2, <2>1, <2>2 DEF QueueStep
<1>3. CASE ClaimStep
  <2>1. PICK a \in Agents, rec \in BOOLEAN, mode \in {"global", "none"},
             ttl \in Ttls, key \in ClaimKeys \cup {None} :
               ClaimLeasedJob(a, rec, mode, ttl, key)
    BY <1>3 DEF ClaimStep
  <2>2. PICK S \in IF mode = "global" THEN DueBatches ELSE {{}},
             j \in Jobs : Claims(a, rec, ttl, key, S, j)
    BY <2>1 DEF ClaimLeasedJob
  <2> DEFINE js == ReapedJobs(S)
             ls == ReapedLeases(S)
  <2>3. js \in [Jobs -> JobRow] /\ ls \in [Attempts -> LeaseRow]
    BY ReapTypes
  <2>4. /\ agents[a].host \in Hosts \cup {None}
        /\ js[j].attempt + 1 \in 0..MaxAttempts
        /\ js[j].path \in Paths \cup {None}
        /\ ttl \in Nat
    <3> HIDE DEF js
    <3> QED BY <2>2, <2>3 DEF TypeOK, AgentRow, JobRow, Claims, js
  <2>5. jobs' \in [Jobs -> JobRow]
    <3>1. jobs' = [js EXCEPT ![j] = StartedJob(a, js[j])]
      BY <2>2 DEF Claims
    <3>2. StartedJob(a, js[j]) \in JobRow
      <4> HIDE DEF js
      <4> QED BY <2>4 DEF StartedJob, JobRow, JobStatus
    <3> HIDE DEF js
    <3> QED BY <2>3, <3>1, <3>2
  <2>6. leases' \in [Attempts -> LeaseRow]
    <3>1. leases' = Reserve(<<j, js[j].attempt + 1>>,
                            NewLease(a, js[j].path, key, ttl), ls)
      BY <2>2 DEF Claims
    <3>2. NewLease(a, js[j].path, key, ttl) \in LeaseRow
      <4> HIDE DEF js
      <4> QED BY <2>4 DEF NewLease, LeaseRow
    <3> HIDE DEF js, ls
    <3> QED BY <2>3, <3>1, <3>2 DEF Reserve
  <2> QED BY <2>1, <2>5, <2>6 DEF TypeOK, ClaimLeasedJob
<1>4. CASE LeaseStep
  <2>1. ASSUME NEW x \in Attempts, NEW ttl \in Ttls, RenewManagedLease(x, ttl)
        PROVE  TypeOK'
    BY <2>1 DEF TypeOK, RenewManagedLease, LeaseWith, LeaseRow
  <2>2. ASSUME NEW x \in Attempts, NEW s \in {"done", "failed", "timed_out"},
               NEW r \in BOOLEAN, ReportJobResult(x, s, r)
        PROVE  TypeOK'
    BY <2>2 DEF TypeOK, ReportJobResult, LeaseAs, JobAs, LeaseRow, JobRow,
                JobStatus
  <2>3. ASSUME NEW x \in Attempts, ReapLease(x)
        PROVE  TypeOK'
    BY <2>3, ReapTypes DEF TypeOK, ReapLease
  <2> QED BY <1>4, <2>1, <2>2, <2>3 DEF LeaseStep
<1>5. CASE CancelStep
  <2>1. ASSUME NEW o \in Operators, NEW j \in Jobs, CancelRead(o, j)
        PROVE  TypeOK'
    <3>1. jobs[j].attempt \in 0..MaxAttempts
      BY DEF TypeOK, JobRow
    <3> QED BY <2>1, <3>1 DEF TypeOK, CancelRead, CancelState
  <2>2. ASSUME NEW o \in Operators, CancelFindLease(o)
        PROVE  TypeOK'
    BY <2>2 DEF TypeOK, CancelFindLease, CancelState
  <2>3. ASSUME NEW o \in Operators, CancelLeased(o)
        PROVE  TypeOK'
    <3> USE <2>3 DEF CancelLeased, TypeOK
    <3>1. jobs' \in [Jobs -> JobRow]
      BY DEF JobAs, JobRow, JobStatus
    <3>2. leases' \in [Attempts -> LeaseRow]
      BY DEF LeaseAs, LeaseRow
    <3>3. cancel' \in [Operators -> CancelState]
      BY DEF Idle, CancelState
    <3> QED BY <3>1, <3>2, <3>3
  <2>4. ASSUME NEW o \in Operators, CancelMarkRead(o)
        PROVE  TypeOK'
    BY <2>4 DEF TypeOK, CancelMarkRead, CancelState
  <2>5. ASSUME NEW o \in Operators, CancelWrite(o)
        PROVE  TypeOK'
    <3> USE <2>5 DEF CancelWrite, TypeOK
    <3>1. jobs' \in [Jobs -> JobRow]
      BY DEF JobAs, JobRow, JobStatus
    <3>2. cancel' \in [Operators -> CancelState]
      BY DEF Idle, CancelState
    <3> QED BY <3>1, <3>2
  <2>6. ASSUME NEW o \in Operators, CancelEnd(o)
        PROVE  TypeOK'
    BY <2>6 DEF TypeOK, CancelEnd, CancelState, Idle
  <2> QED BY <1>5, <2>1, <2>2, <2>3, <2>4, <2>5, <2>6 DEF CancelStep
<1>6. CASE Tick
  BY <1>6 DEF TypeOK, Tick, LeaseWith, LeaseRow, Unexpired
<1>7. CASE UNCHANGED vars
  BY <1>7 DEF TypeOK, vars
<1> QED BY <1>1, <1>2, <1>3, <1>4, <1>5, <1>6, <1>7 DEF Next

(* Every table of the database stays within its type.                      *)
THEOREM TypeCorrect == Spec => []TypeOK
<1>1. Init => TypeOK
  BY DEF Init, TypeOK, NoJob, NoLease, Idle, AgentRow, JobRow, JobStatus,
         LeaseRow, CancelState
<1> QED BY <1>1, TypeStep, PTL DEF Spec

-----------------------------------------------------------------------------
(* The inductive invariant.  Its parts are stated of a pair of tables, so  *)
(* that they can also be stated of the tables between the two halves of a  *)
(* claim: after its reap and before its reservation.                       *)

Covered(js, ls) ==
  \A j \in Jobs : js[j].status = "running" =>
    <<j, js[j].attempt>> \in Attempts /\ Active(ls[<<j, js[j].attempt>>])

Current(js, ls) ==
  \A x \in Attempts : Active(ls[x]) =>
    /\ js[x[1]].attempt = x[2]
    /\ js[x[1]].agent = ls[x].agent
    /\ js[x[1]].status \in {"running", "cancelled"}

Exclusive(ls) ==
  \A x, y \in Attempts :
    /\ Active(ls[x]) /\ Active(ls[y])
    /\ ls[x].host = ls[y].host /\ ls[x].path = ls[y].path
    => x = y

KeyOnce(ls) ==
  \A x, y \in Attempts :
    /\ ls[x].key # None /\ ls[x].key = ls[y].key /\ ls[x].agent = ls[y].agent
    => x = y

(* An attempt that was never started has no lease row, and a row that is   *)
(* not there holds no key: what makes a reservation always an insertion.   *)
Fresh(js, ls) ==
  /\ \A j \in Jobs : js[j].status = "none" => js[j].attempt = 0
  /\ \A x \in Attempts : ls[x].status # "none" => x[2] <= js[x[1]].attempt
  /\ \A x \in Attempts : ls[x].status = "none" => ls[x].key = None

Tables(js, ls) ==
  /\ js \in [Jobs -> JobRow]
  /\ ls \in [Attempts -> LeaseRow]
  /\ Covered(js, ls) /\ Current(js, ls)
  /\ Exclusive(ls) /\ KeyOnce(ls) /\ Fresh(js, ls)

(* A cancel_job call under way names a job, and the lease it found is a    *)
(* row of that job.                                                        *)
CancelTarget ==
  \A o \in Operators : cancel[o].pc # "idle" =>
    /\ cancel[o].job \in Jobs
    /\ cancel[o].pc = "leased" =>
         /\ <<cancel[o].job, cancel[o].attempt>> \in Attempts
         /\ leases[<<cancel[o].job, cancel[o].attempt>>].status # "none"

IInv ==
  /\ TypeOK /\ Tables(jobs, leases) /\ CancelTarget
  /\ CapacityHeld /\ OfflineAgentIdle

-----------------------------------------------------------------------------
(* Lemmas on the tables *)

(* An attempt is a pair of a job and a token, and is known by the two.     *)
LEMMA AttemptPairs ==
  /\ \A x \in Attempts : x[1] \in Jobs /\ x[2] \in 1..MaxAttempts
  /\ \A x, y \in Attempts : x[1] = y[1] /\ x[2] = y[2] => x = y
  /\ \A j \in Jobs, n \in 1..MaxAttempts : <<j, n>> \in Attempts
BY DEF Attempts

(* Reaping due leases that agree with their jobs keeps the tables good.    *)
LEMMA ReapTables ==
  ASSUME TypeOK, Tables(jobs, leases), NEW S \in SUBSET Attempts,
         \A x \in S : Due(leases[x]) /\ Consistent(x)
  PROVE  Tables(ReapedJobs(S), ReapedLeases(S))
<1> DEFINE js == ReapedJobs(S)
           ls == ReapedLeases(S)
<1>1. js \in [Jobs -> JobRow] /\ ls \in [Attempts -> LeaseRow]
  BY ReapTypes
<1>2. \A j \in Jobs :
        /\ js[j].attempt = jobs[j].attempt /\ js[j].agent = jobs[j].agent
        /\ \A x \in S : x[1] = j => js[j].status = "timed_out"
        /\ (\A x \in S : x[1] # j) => js[j] = jobs[j]
  BY DEF ReapedJobs, JobAs
<1>3. \A x \in Attempts :
        /\ ls[x].agent = leases[x].agent /\ ls[x].host = leases[x].host
        /\ ls[x].path = leases[x].path /\ ls[x].key = leases[x].key
        /\ x \in S => ls[x].status = "expired"
        /\ x \notin S => ls[x] = leases[x]
  BY DEF ReapedLeases, LeaseAs
<1>4. \A x \in S : /\ jobs[x[1]].status = "running"
                   /\ jobs[x[1]].attempt = x[2]
                   /\ leases[x].status = "active"
  BY DEF Due, Consistent, Active
<1> HIDE DEF js, ls
<1>5. Covered(js, ls)
  <2> SUFFICES ASSUME NEW j \in Jobs, js[j].status = "running"
               PROVE  /\ <<j, js[j].attempt>> \in Attempts
                      /\ Active(ls[<<j, js[j].attempt>>])
    BY DEF Covered
  <2>1. \A x \in S : x[1] # j
    BY <1>2
  <2>2. js[j] = jobs[j]
    BY <1>2, <2>1
  <2>3. <<j, js[j].attempt>> \in Attempts /\ Active(leases[<<j, js[j].attempt>>])
    BY <2>2 DEF Tables, Covered
  <2>4. <<j, js[j].attempt>> \notin S
    BY <2>1
  <2> QED BY <1>3, <2>3, <2>4
<1>6. Current(js, ls)
  <2> SUFFICES ASSUME NEW x \in Attempts, Active(ls[x])
               PROVE  /\ js[x[1]].attempt = x[2]
                      /\ js[x[1]].agent = ls[x].agent
                      /\ js[x[1]].status \in {"running", "cancelled"}
    BY DEF Current
  <2>1. x \notin S /\ ls[x] = leases[x]
    BY <1>3 DEF Active
  <2>2. /\ jobs[x[1]].attempt = x[2] /\ jobs[x[1]].agent = ls[x].agent
        /\ jobs[x[1]].status \in {"running", "cancelled"}
    BY <2>1 DEF Tables, Current
  <2>3. \A y \in S : y[1] # x[1]
    BY <1>4, <2>1, <2>2, AttemptPairs
  <2> QED BY <1>2, <2>2, <2>3, AttemptPairs
<1>7. Exclusive(ls) /\ KeyOnce(ls)
  BY <1>3 DEF Tables, Exclusive, KeyOnce, Active
<1>8. Fresh(js, ls)
  <2>1. ASSUME NEW j \in Jobs, js[j].status = "none"
        PROVE  js[j].attempt = 0
    <3>1. \A x \in S : x[1] # j
      BY <1>2, <2>1
    <3> QED BY <1>2, <2>1, <3>1 DEF Tables, Fresh
  <2>2. \A x \in Attempts : ls[x].status # "none" => leases[x].status # "none"
    BY <1>3, <1>4
  <2>3. \A x \in Attempts : ls[x].status # "none" => x[2] <= js[x[1]].attempt
    BY <1>2, <2>2, AttemptPairs DEF Tables, Fresh
  <2>4. \A x \in Attempts : ls[x].status = "none" => ls[x].key = None
    BY <1>3 DEF Tables, Fresh
  <2> QED BY <2>1, <2>3, <2>4 DEF Fresh
<1> QED BY <1>1, <1>5, <1>6, <1>7, <1>8 DEF Tables, js, ls

(* Starting a claimable job and inserting the lease of its new attempt     *)
(* keeps them good.                                                        *)
LEMMA ReserveTables ==
  ASSUME NEW js, NEW ls, Tables(js, ls), NEW j \in Jobs,
         js[j].status \in {"pending", "timed_out"},
         js[j].attempt < MaxAttempts,
         NEW job \in JobRow, job.status = "running",
         job.attempt = js[j].attempt + 1,
         NEW row \in LeaseRow, row.status = "active", row.agent = job.agent,
         ResourceFree(row.host, row.path, ls),
         row.key # None => \A y \in Attempts :
           ~(ls[y].agent = row.agent /\ ls[y].key = row.key)
  PROVE  /\ Tables([js EXCEPT ![j] = job],
                   Reserve(<<j, js[j].attempt + 1>>, row, ls))
         /\ <<j, js[j].attempt + 1>> \in Attempts
         /\ ls[<<j, js[j].attempt + 1>>].status = "none"
<1> DEFINE n == js[j].attempt + 1
           x == <<j, n>>
           js1 == [js EXCEPT ![j] = job]
           ls1 == [ls EXCEPT ![x] = row]
<1>1. js \in [Jobs -> JobRow] /\ ls \in [Attempts -> LeaseRow]
  BY DEF Tables
<1>2. n \in 1..MaxAttempts /\ x \in Attempts
  BY <1>1, AttemptPairs DEF JobRow
<1>3. ls[x].status = "none"
  <2>1. ~(x[2] <= js[x[1]].attempt)
    BY <1>1, <1>2 DEF JobRow
  <2> QED BY <1>2, <2>1 DEF Tables, Fresh
<1>4. Reserve(x, row, ls) = ls1
  BY <1>3 DEF Reserve
<1>5. /\ js1 \in [Jobs -> JobRow] /\ js1[j] = job
      /\ \A k \in Jobs : k # j => js1[k] = js[k]
  BY <1>1
<1>6. /\ ls1 \in [Attempts -> LeaseRow] /\ ls1[x] = row
      /\ \A y \in Attempts : y # x => ls1[y] = ls[y]
  BY <1>1, <1>2
<1>7. \A y \in Attempts : y[1] = j => ~Active(ls[y])
  BY DEF Tables, Current
<1>8. x[1] = j /\ x[2] = n
  OBVIOUS
<1> HIDE DEF js1, ls1, x
<1>9. Covered(js1, ls1)
  <2> SUFFICES ASSUME NEW k \in Jobs, js1[k].status = "running"
               PROVE  /\ <<k, js1[k].attempt>> \in Attempts
                      /\ Active(ls1[<<k, js1[k].attempt>>])
    BY DEF Covered
  <2>1. CASE k = j
    BY <2>1, <1>2, <1>5, <1>6 DEF Active, x
  <2>2. CASE k # j
    <3>1. <<k, js[k].attempt>> \in Attempts /\ Active(ls[<<k, js[k].attempt>>])
      BY <1>5, <2>2 DEF Tables, Covered
    <3>2. <<k, js[k].attempt>> # x
      BY <2>2 DEF x
    <3> QED BY <1>5, <1>6, <2>2, <3>1, <3>2
  <2> QED BY <2>1, <2>2
<1>10. Current(js1, ls1)
  <2> SUFFICES ASSUME NEW y \in Attempts, Active(ls1[y])
               PROVE  /\ js1[y[1]].attempt = y[2]
                      /\ js1[y[1]].agent = ls1[y].agent
                      /\ js1[y[1]].status \in {"running", "cancelled"}
    BY DEF Current
  <2>1. CASE y = x
    BY <2>1, <1>5, <1>6, <1>8
  <2>2. CASE y # x
    <3>1. ls1[y] = ls[y] /\ y[1] # j /\ y[1] \in Jobs
      BY <1>6, <1>7, <2>2, AttemptPairs
    <3> QED BY <1>5, <3>1 DEF Tables, Current
  <2> QED BY <2>1, <2>2
<1>11. Exclusive(ls1)
  BY <1>2, <1>6 DEF Tables, Exclusive, ResourceFree
<1>12. KeyOnce(ls1)
  BY <1>2, <1>6 DEF Tables, KeyOnce
<1>13. Fresh(js1, ls1)
  <2>1. \A k \in Jobs : js1[k].status = "none" => js1[k].attempt = 0
    BY <1>5 DEF Tables, Fresh
  <2>2. \A y \in Attempts : ls1[y].status = "none" => ls1[y].key = None
    BY <1>2, <1>6 DEF Tables, Fresh
  <2>3. ASSUME NEW y \in Attempts, ls1[y].status # "none"
        PROVE  y[2] <= js1[y[1]].attempt
    <3>1. CASE y = x
      BY <3>1, <1>2, <1>5, <1>8
    <3>2. CASE y # x
      <4>1. y[2] <= js[y[1]].attempt /\ y[1] \in Jobs /\ y[2] \in Nat
        BY <2>3, <3>2, <1>6, AttemptPairs DEF Tables, Fresh
      <4>2. CASE y[1] = j
        BY <4>1, <4>2, <1>1, <1>5 DEF JobRow
      <4>3. CASE y[1] # j
        BY <4>1, <4>3, <1>5
      <4> QED BY <4>2, <4>3
    <3> QED BY <3>1, <3>2
  <2> QED BY <2>1, <2>2, <2>3 DEF Fresh
<1>14. Tables(js1, ls1)
  BY <1>5, <1>6, <1>9, <1>10, <1>11, <1>12, <1>13 DEF Tables
<1> QED BY <1>2, <1>3, <1>4, <1>14 DEF js1, x

-----------------------------------------------------------------------------
(* Each action keeps the tables good *)

(* Creating a job row.                                                     *)
LEMMA NewRowTables ==
  ASSUME TypeOK, Tables(jobs, leases), NEW j \in Jobs, jobs[j].status = "none",
         NEW job \in JobRow, job.status = "pending", job.attempt = 0
  PROVE  Tables([jobs EXCEPT ![j] = job], leases)
<1> DEFINE js == [jobs EXCEPT ![j] = job]
<1>1. /\ js \in [Jobs -> JobRow] /\ js[j] = job
      /\ \A k \in Jobs : k # j => js[k] = jobs[k]
  BY DEF TypeOK
<1>2. \A x \in Attempts : x[1] = j => ~Active(leases[x])
  BY DEF Tables, Current
<1>3. jobs[j].attempt = 0
  BY DEF Tables, Fresh
<1> HIDE DEF js
<1>4. Covered(js, leases)
  BY <1>1 DEF Tables, Covered
<1>5. Current(js, leases)
  <2>1. \A x \in Attempts : Active(leases[x]) => js[x[1]] = jobs[x[1]]
    BY <1>1, <1>2, AttemptPairs
  <2> QED BY <2>1 DEF Tables, Current
<1>6. Fresh(js, leases)
  BY <1>1, <1>3, AttemptPairs DEF Tables, Fresh
<1> QED BY <1>1, <1>4, <1>5, <1>6 DEF Tables, js

(* Ending the current attempt of a job, with its lease.                    *)
LEMMA EndTables ==
  ASSUME TypeOK, Tables(jobs, leases), NEW x \in Attempts,
         leases[x].status # "none",
         NEW job \in JobRow, job.status \notin {"none", "running"},
         job.attempt = jobs[x[1]].attempt, job.agent = jobs[x[1]].agent,
         job.status = "cancelled" \/ jobs[x[1]].attempt = x[2],
         NEW row \in LeaseRow, row.status \in {"released", "expired"},
         row.key = leases[x].key, row.agent = leases[x].agent
  PROVE  Tables([jobs EXCEPT ![x[1]] = job], [leases EXCEPT ![x] = row])
<1> DEFINE j == x[1]
           js == [jobs EXCEPT ![j] = job]
           ls == [leases EXCEPT ![x] = row]
<1>1. /\ j \in Jobs /\ js \in [Jobs -> JobRow] /\ js[j] = job
      /\ \A k \in Jobs : k # j => js[k] = jobs[k]
  BY AttemptPairs DEF TypeOK
<1>2. /\ ls \in [Attempts -> LeaseRow] /\ ls[x] = row
      /\ \A y \in Attempts : y # x => ls[y] = leases[y]
  BY DEF TypeOK
<1> HIDE DEF js, ls
<1>3. Covered(js, ls)
  <2> SUFFICES ASSUME NEW k \in Jobs, js[k].status = "running"
               PROVE  /\ <<k, js[k].attempt>> \in Attempts
                      /\ Active(ls[<<k, js[k].attempt>>])
    BY DEF Covered
  <2>1. k # j /\ js[k] = jobs[k]
    BY <1>1
  <2>2. <<k, js[k].attempt>> \in Attempts /\ Active(leases[<<k, js[k].attempt>>])
    BY <2>1 DEF Tables, Covered
  <2>3. <<k, js[k].attempt>> # x
    BY <2>1
  <2> QED BY <1>2, <2>2, <2>3
<1>4. Current(js, ls)
  <2> SUFFICES ASSUME NEW y \in Attempts, Active(ls[y])
               PROVE  /\ js[y[1]].attempt = y[2]
                      /\ js[y[1]].agent = ls[y].agent
                      /\ js[y[1]].status \in {"running", "cancelled"}
    BY DEF Current
  <2>1. y # x /\ ls[y] = leases[y]
    BY <1>2 DEF Active
  <2>2. /\ jobs[y[1]].attempt = y[2] /\ jobs[y[1]].agent = ls[y].agent
        /\ jobs[y[1]].status \in {"running", "cancelled"}
    BY <2>1 DEF Tables, Current
  <2>3. CASE y[1] = j
    <3>1. job.status = "cancelled"
      BY <2>1, <2>2, <2>3, AttemptPairs
    <3> QED BY <1>1, <2>2, <2>3, <3>1
  <2>4. CASE y[1] # j
    BY <1>1, <2>2, <2>4, AttemptPairs
  <2> QED BY <2>3, <2>4
<1>5. Exclusive(ls)
  BY <1>2 DEF Tables, Exclusive, Active
<1>6. KeyOnce(ls)
  BY <1>2 DEF Tables, KeyOnce
<1>7. Fresh(js, ls)
  <2>1. \A k \in Jobs : js[k].status = "none" => js[k].attempt = 0
    BY <1>1 DEF Tables, Fresh
  <2>2. \A y \in Attempts : ls[y].status # "none" => y[2] <= js[y[1]].attempt
    BY <1>1, <1>2, AttemptPairs DEF Tables, Fresh
  <2>3. \A y \in Attempts : ls[y].status = "none" => ls[y].key = None
    BY <1>2 DEF Tables, Fresh
  <2> QED BY <2>1, <2>2, <2>3 DEF Fresh
<1> QED BY <1>1, <1>2, <1>3, <1>4, <1>5, <1>6, <1>7 DEF Tables, js, ls

(* Cancelling a job without looking for its lease.                         *)
LEMMA CancelTables ==
  ASSUME TypeOK, Tables(jobs, leases), NEW j \in Jobs,
         NEW job \in JobRow, job.status = "cancelled",
         job.attempt = jobs[j].attempt, job.agent = jobs[j].agent
  PROVE  Tables([jobs EXCEPT ![j] = job], leases)
<1> DEFINE js == [jobs EXCEPT ![j] = job]
<1>1. /\ js \in [Jobs -> JobRow] /\ js[j] = job
      /\ \A k \in Jobs : k # j => js[k] = jobs[k]
  BY DEF TypeOK
<1> HIDE DEF js
<1>2. Covered(js, leases)
  BY <1>1 DEF Tables, Covered
<1>3. Current(js, leases)
  BY <1>1, AttemptPairs DEF Tables, Current
<1>4. Fresh(js, leases)
  BY <1>1, AttemptPairs DEF Tables, Fresh
<1> QED BY <1>1, <1>2, <1>3, <1>4 DEF Tables, js

(* Moving the expiry of leases, by a renewal or by the clock.              *)
LEMMA ExpiryTables ==
  ASSUME Tables(jobs, leases), NEW ls \in [Attempts -> LeaseRow],
         \A x \in Attempts :
           /\ ls[x].status = leases[x].status /\ ls[x].agent = leases[x].agent
           /\ ls[x].host = leases[x].host /\ ls[x].path = leases[x].path
           /\ ls[x].key = leases[x].key
  PROVE  Tables(jobs, ls)
<1>1. Covered(jobs, ls)
  BY DEF Tables, Covered, Active
<1>2. Current(jobs, ls)
  BY DEF Tables, Current, Active
<1>3. Exclusive(ls) /\ KeyOnce(ls)
  BY DEF Tables, Exclusive, KeyOnce, Active
<1>4. Fresh(jobs, ls)
  BY DEF Tables, Fresh
<1> QED BY <1>1, <1>2, <1>3, <1>4 DEF Tables

(* The tables a claim starts from are the ones its reap leaves.            *)
LEMMA ClaimReaps ==
  ASSUME TypeOK, Tables(jobs, leases), NEW mode,
         NEW S \in IF mode = "global" THEN DueBatches ELSE {{}},
         \A x \in S : Consistent(x)
  PROVE  /\ S \in SUBSET Attempts
         /\ \A x \in S : Due(leases[x])
         /\ Tables(ReapedJobs(S), ReapedLeases(S))
<1>1. S \in SUBSET Attempts /\ \A x \in S : Due(leases[x])
  BY DEF DueBatches
<1> QED BY <1>1, ReapTables

-----------------------------------------------------------------------------
(* Capacity *)

(* Only finitely many leases are unexpired, so their number can be         *)
(* compared with the capacity.                                             *)
LEMMA LiveFinite ==
  ASSUME NEW a, NEW ls
  PROVE  IsFiniteSet(LiveLeases(a, ls))
<1>1. IsFiniteSet(1..MaxAttempts)
  BY FS_Interval
<1>2. IsFiniteSet(Attempts)
  BY <1>1, FS_Product DEF Attempts
<1>3. LiveLeases(a, ls) \subseteq Attempts
  BY DEF LiveLeases
<1> QED BY <1>2, <1>3, FS_Subset

(* No agent gains a live lease when leases only close, run down or are     *)
(* renewed while they are live.                                            *)
LEMMA LiveShrinks ==
  ASSUME NEW ls, NEW new, NEW a,
         \A x \in Attempts : Active(new[x]) /\ Unexpired(new[x]) =>
           Active(ls[x]) /\ Unexpired(ls[x]) /\ new[x].agent = ls[x].agent
  PROVE  Cardinality(LiveLeases(a, new)) <= Cardinality(LiveLeases(a, ls))
<1>1. LiveLeases(a, new) \subseteq LiveLeases(a, ls)
  BY DEF LiveLeases
<1> QED BY <1>1, LiveFinite, FS_Subset

(* A step that makes no lease live keeps every agent within its capacity.  *)
LEMMA CapacityKept ==
  ASSUME CapacityHeld,
         \A x \in Attempts : Active(leases'[x]) /\ Unexpired(leases'[x]) =>
           /\ Active(leases[x]) /\ Unexpired(leases[x])
           /\ leases'[x].agent = leases[x].agent
  PROVE  CapacityHeld'
<1> SUFFICES ASSUME NEW a \in Agents
             PROVE  Cardinality(LiveLeases(a, leases')) <= Capacity[a]
  BY DEF CapacityHeld
<1>1. Cardinality(LiveLeases(a, leases')) <= Cardinality(LiveLeases(a, leases))
  BY LiveShrinks
<1>2. /\ Cardinality(LiveLeases(a, leases')) \in Nat
      /\ Cardinality(LiveLeases(a, leases)) \in Nat
  BY LiveFinite, FS_CardinalityType
<1>3. Cardinality(LiveLeases(a, leases)) <= Capacity[a] /\ Capacity[a] \in Nat
  BY DEF CapacityHeld
<1> QED BY <1>1, <1>2, <1>3

-----------------------------------------------------------------------------
(* Each action keeps the invariant *)

(* Registration, heartbeat and deactivation keep the invariant; the last   *)
(* one because its blockers are exactly what an offline agent must not     *)
(* have.                                                                   *)
LEMMA AgentKeeps == IInv /\ TypeOK' /\ AgentStep => IInv'
<1> SUFFICES ASSUME IInv, TypeOK', AgentStep PROVE IInv'
  OBVIOUS
<1>1. UNCHANGED <<jobs, leases, cancel>>
  BY DEF AgentStep, RegisterAgent, HeartbeatAgent, DeactivateAgent
<1>2. Tables(jobs, leases)' /\ CancelTarget' /\ CapacityHeld'
  BY <1>1 DEF IInv, Tables, Covered, Current, Exclusive, KeyOnce, Fresh,
              CancelTarget, CapacityHeld
<1>3. OfflineAgentIdle'
  <2>1. PICK a \in Agents : \/ \E h \in Hosts : RegisterAgent(a, h)
                            \/ HeartbeatAgent(a)
                            \/ DeactivateAgent(a)
    BY DEF AgentStep
  <2>2. \A b \in Agents \ {a} : agents'[b] = agents[b]
    BY <2>1 DEF IInv, TypeOK, RegisterAgent, HeartbeatAgent, DeactivateAgent
  <2>3. agents'[a].state = "offline" => ~Blocked(a)
    BY <2>1 DEF IInv, TypeOK, RegisterAgent, HeartbeatAgent, DeactivateAgent
  <2> QED BY <1>1, <2>2, <2>3 DEF IInv, OfflineAgentIdle, Blocked, Active
<1> QED BY <1>2, <1>3 DEF IInv

(* A new job row is pending, so it covers nothing and blocks nothing.      *)
LEMMA QueueKeeps == IInv /\ TypeOK' /\ QueueStep => IInv'
<1> SUFFICES ASSUME IInv, TypeOK', QueueStep PROVE IInv'
  OBVIOUS
<1>1. UNCHANGED <<agents, leases, cancel>>
  BY DEF QueueStep, SubmitRequest, RetryJob
<1>a. PICK j \in Jobs :
        \E job : /\ jobs[j].status = "none" /\ jobs' = [jobs EXCEPT ![j] = job]
                 /\ job.status = "pending" /\ job.attempt = 0
  <2>1. ASSUME NEW j \in Jobs, NEW a \in Agents, NEW p \in Paths,
               SubmitRequest(j, a, p)
        PROVE  \E job : /\ jobs[j].status = "none"
                        /\ jobs' = [jobs EXCEPT ![j] = job]
                        /\ job.status = "pending" /\ job.attempt = 0
    <3> DEFINE job == [status |-> "pending", attempt |-> 0, recoverable |-> FALSE,
                       agent |-> a, host |-> agents[a].host, path |-> p]
    <3>1. job.status = "pending" /\ job.attempt = 0
      OBVIOUS
    <3>2. jobs[j].status = "none" /\ jobs' = [jobs EXCEPT ![j] = job]
      BY <2>1 DEF SubmitRequest, NextRow
    <3> HIDE DEF job
    <3> QED BY <3>1, <3>2
  <2>2. ASSUME NEW j \in Jobs, NEW s \in Jobs, RetryJob(s, j)
        PROVE  \E job : /\ jobs[j].status = "none"
                        /\ jobs' = [jobs EXCEPT ![j] = job]
                        /\ job.status = "pending" /\ job.attempt = 0
    <3> DEFINE job == [status |-> "pending", attempt |-> 0, recoverable |-> FALSE,
                       agent |-> jobs[s].agent, host |-> None,
                       path |-> jobs[s].path]
    <3>1. job.status = "pending" /\ job.attempt = 0
      OBVIOUS
    <3>2. jobs[j].status = "none" /\ jobs' = [jobs EXCEPT ![j] = job]
      BY <2>2 DEF RetryJob, NextRow
    <3> HIDE DEF job
    <3> QED BY <3>1, <3>2
  <2> QED BY <2>1, <2>2 DEF QueueStep
<1>2. PICK job :
        /\ jobs[j].status = "none" /\ jobs' = [jobs EXCEPT ![j] = job]
        /\ job.status = "pending" /\ job.attempt = 0
  BY <1>a
<1>3. job \in JobRow /\ jobs'[j] = job
  <2>1. jobs'[j] = job
    BY <1>2 DEF IInv, TypeOK
  <2> QED BY <2>1 DEF TypeOK
<1>4. Tables(jobs, leases)'
  BY <1>1, <1>2, <1>3, NewRowTables DEF IInv
<1>5. CancelTarget' /\ CapacityHeld'
  BY <1>1 DEF IInv, CancelTarget, CapacityHeld
<1>6. OfflineAgentIdle'
  BY <1>1, <1>2, <1>3 DEF IInv, TypeOK, OfflineAgentIdle
<1> QED BY <1>4, <1>5, <1>6 DEF IInv

(* claim_leased_job keeps the invariant: first its reap, then its          *)
(* reservation.                                                            *)
LEMMA ClaimKeeps == IInv /\ TypeOK' /\ ClaimStep => IInv'
<1> SUFFICES ASSUME IInv, TypeOK', ClaimStep PROVE IInv'
  OBVIOUS
<1>1. PICK a \in Agents, rec \in BOOLEAN, mode \in {"global", "none"},
           ttl \in Ttls, key \in ClaimKeys \cup {None} :
             ClaimLeasedJob(a, rec, mode, ttl, key)
  BY DEF ClaimStep
<1>2. PICK S \in IF mode = "global" THEN DueBatches ELSE {{}},
           j \in Jobs : Claims(a, rec, ttl, key, S, j)
  BY <1>1 DEF ClaimLeasedJob
<1>3. UNCHANGED <<agents, cancel>> /\ agents[a].state = "online"
  BY <1>1 DEF ClaimLeasedJob
<1> DEFINE js == ReapedJobs(S)
           ls == ReapedLeases(S)
           x == <<j, js[j].attempt + 1>>
           job == StartedJob(a, js[j])
           row == NewLease(a, js[j].path, key, ttl)
<1>4. /\ S \in SUBSET Attempts /\ \A y \in S : Due(leases[y]) /\ Consistent(y)
      /\ Tables(js, ls)
  BY <1>2, ClaimReaps DEF IInv, Claims
<1>5. /\ Selected(j, a, rec, js, ls) /\ js[j].attempt < MaxAttempts
      /\ jobs' = [js EXCEPT ![j] = job] /\ leases' = Reserve(x, row, ls)
  BY <1>2 DEF Claims
<1>6. \A y \in Attempts :
        /\ ls[y].agent = leases[y].agent /\ ls[y].key = leases[y].key
        /\ y \in S => ls[y].status = "expired"
        /\ y \notin S => ls[y] = leases[y]
  BY DEF ReapedLeases, LeaseAs
<1>7. /\ js \in [Jobs -> JobRow] /\ ls \in [Attempts -> LeaseRow]
      /\ agents[a].host \in Hosts \cup {None}
  BY <1>4 DEF Tables, IInv, TypeOK, AgentRow
<1>8. /\ job \in JobRow /\ job.status = "running" /\ job.agent = a
      /\ job.attempt = js[j].attempt + 1
  <2> HIDE DEF js
  <2>1. js[j].attempt + 1 \in 0..MaxAttempts /\ js[j].path \in Paths \cup {None}
    <3>1. js[j].attempt < MaxAttempts /\ js[j] \in JobRow
      BY <1>5, <1>7
    <3> QED BY <3>1 DEF JobRow
  <2> QED BY <1>7, <2>1 DEF StartedJob, JobRow, JobStatus
<1>9. /\ row \in LeaseRow /\ row.status = "active" /\ row.agent = a
      /\ row.key = key /\ row.host = agents[a].host /\ row.path = js[j].path
  <2> HIDE DEF js
  <2>1. js[j].path \in Paths \cup {None} /\ ttl \in Nat
    BY <1>7 DEF JobRow
  <2> QED BY <1>7, <2>1 DEF NewLease, LeaseRow
<1>10. js[j].status \in {"pending", "timed_out"}
  <2> HIDE DEF js, ls
  <2> QED BY <1>5 DEF Selected, Candidates
<1>11. ResourceFree(row.host, row.path, ls)
  <2>1. ResourceFree(agents[a].host, js[j].path, ls)
    BY <1>5 DEF Selected
  <2> QED BY <1>9, <2>1
<1>12. row.key # None => \A y \in Attempts :
         ~(ls[y].agent = row.agent /\ ls[y].key = row.key)
  BY <1>1, <1>6, <1>9 DEF ClaimLeasedJob, AlreadyClaimed
<1>13. Cardinality(LiveLeases(a, ls)) < Capacity[a]
  BY <1>5 DEF Selected, HasCapacity
<1> HIDE DEF js, ls, job, row
<1>14. /\ Tables(jobs', leases')
       /\ x \in Attempts /\ ls[x].status = "none"
  <2>1. js[j].attempt < MaxAttempts /\ row.agent = job.agent
    BY <1>5, <1>8, <1>9
  <2>2. /\ Tables([js EXCEPT ![j] = job],
                  Reserve(<<j, js[j].attempt + 1>>, row, ls))
        /\ <<j, js[j].attempt + 1>> \in Attempts
        /\ ls[<<j, js[j].attempt + 1>>].status = "none"
    BY <1>4, <1>8, <1>9, <1>10, <1>11, <1>12, <2>1, ReserveTables
  <2> QED BY <1>5, <2>2
<1>15. leases' = [ls EXCEPT ![x] = row]
  BY <1>5, <1>14 DEF Reserve
<1>16. leases'[x] = row /\ \A y \in Attempts : y # x => leases'[y] = ls[y]
  BY <1>7, <1>14, <1>15
<1> HIDE DEF x
<1>17. CancelTarget'
  <2>1. \A y \in Attempts : leases[y].status # "none" => leases'[y].status # "none"
    BY <1>6, <1>9, <1>16
  <2> QED BY <1>3, <2>1 DEF IInv, CancelTarget
<1>18. CapacityHeld'
  <2> SUFFICES ASSUME NEW b \in Agents
               PROVE  Cardinality(LiveLeases(b, leases')) <= Capacity[b]
    BY DEF CapacityHeld
  <2>1. CASE b = a
    <3>1. LiveLeases(a, leases') \subseteq LiveLeases(a, ls) \cup {x}
      BY <1>16 DEF LiveLeases
    <3>2. IsFiniteSet(LiveLeases(a, ls)) /\ IsFiniteSet(LiveLeases(a, leases'))
      BY LiveFinite
    <3>3. x \notin LiveLeases(a, ls)
      BY <1>14 DEF LiveLeases, Active
    <3>4. /\ IsFiniteSet(LiveLeases(a, ls) \cup {x})
          /\ Cardinality(LiveLeases(a, ls) \cup {x})
               = Cardinality(LiveLeases(a, ls)) + 1
      BY <3>2, <3>3, FS_AddElement
    <3>5. Cardinality(LiveLeases(a, leases'))
            <= Cardinality(LiveLeases(a, ls) \cup {x})
      BY <3>1, <3>4, FS_Subset
    <3>6. /\ Cardinality(LiveLeases(a, leases')) \in Nat
          /\ Cardinality(LiveLeases(a, ls)) \in Nat /\ Capacity[a] \in Nat
      BY <3>2, FS_CardinalityType
    <3> QED BY <1>13, <2>1, <3>4, <3>5, <3>6
  <2>2. CASE b # a
    <3>1. LiveLeases(b, leases') \subseteq LiveLeases(b, leases)
      BY <1>6, <1>9, <1>16, <2>2 DEF LiveLeases, Active
    <3>2. IsFiniteSet(LiveLeases(b, leases)) /\ IsFiniteSet(LiveLeases(b, leases'))
      BY LiveFinite
    <3>3. Cardinality(LiveLeases(b, leases')) <= Cardinality(LiveLeases(b, leases))
      BY <3>1, <3>2, FS_Subset
    <3>4. /\ Cardinality(LiveLeases(b, leases')) \in Nat
          /\ Cardinality(LiveLeases(b, leases)) \in Nat /\ Capacity[b] \in Nat
      BY <3>2, FS_CardinalityType
    <3> QED BY <3>3, <3>4 DEF IInv, CapacityHeld
  <2> QED BY <2>1, <2>2
<1>19. OfflineAgentIdle'
  <2> SUFFICES ASSUME NEW b \in Agents, agents[b].state = "offline"
               PROVE  /\ \A y \in Attempts : leases'[y].agent = b => ~Active(leases'[y])
                      /\ \A k \in Jobs : jobs'[k].agent = b =>
                           /\ jobs'[k].status # "running"
                           /\ ~(jobs'[k].status = "timed_out" /\ jobs'[k].recoverable)
    BY <1>3 DEF OfflineAgentIdle
  <2>1. b # a
    BY <1>3
  <2>2. ASSUME NEW y \in Attempts, leases'[y].agent = b
        PROVE  ~Active(leases'[y])
    BY <1>6, <1>9, <1>16, <2>1, <2>2 DEF IInv, OfflineAgentIdle, Active
  <2>3. ASSUME NEW k \in Jobs, jobs'[k].agent = b
        PROVE  /\ jobs'[k].status # "running"
               /\ ~(jobs'[k].status = "timed_out" /\ jobs'[k].recoverable)
    <3>1. k # j /\ jobs'[k] = js[k]
      BY <1>5, <1>7, <1>8, <2>1, <2>3
    <3>2. js[k] = jobs[k]
      <4>1. \A y \in S : y[1] # k
        <5> SUFFICES ASSUME NEW y \in S, y[1] = k PROVE FALSE
          OBVIOUS
        <5>1. jobs[k].agent = b
          BY <2>3, <3>1 DEF js, ReapedJobs, JobAs
        <5> QED BY <1>4, <5>1 DEF IInv, OfflineAgentIdle, Due, Consistent
      <4> QED BY <4>1 DEF js, ReapedJobs
    <3> QED BY <2>3, <3>1, <3>2 DEF IInv, OfflineAgentIdle
  <2> QED BY <2>2, <2>3
<1> QED BY <1>14, <1>17, <1>18, <1>19 DEF IInv

(* renew_managed_lease extends only a lease that was counted already.      *)
LEMMA RenewKeeps ==
  ASSUME IInv, TypeOK', NEW x \in Attempts, NEW ttl \in Ttls,
         RenewManagedLease(x, ttl)
  PROVE  IInv'
<1>1. UNCHANGED <<agents, jobs, cancel>> /\ Authorised(x)
  BY DEF RenewManagedLease
<1>2. \A y \in Attempts :
        /\ leases'[y].status = leases[y].status /\ leases'[y].agent = leases[y].agent
        /\ leases'[y].host = leases[y].host /\ leases'[y].path = leases[y].path
        /\ leases'[y].key = leases[y].key
        /\ y # x => leases'[y] = leases[y]
  BY DEF IInv, TypeOK, RenewManagedLease, LeaseWith
<1>3. Tables(jobs, leases)'
  BY <1>1, <1>2, ExpiryTables DEF IInv, TypeOK
<1>4. CapacityHeld'
  BY <1>1, <1>2, CapacityKept DEF IInv, Authorised, Active
<1>5. CancelTarget' /\ OfflineAgentIdle'
  BY <1>1, <1>2 DEF IInv, CancelTarget, OfflineAgentIdle, Active
<1> QED BY <1>3, <1>4, <1>5 DEF IInv

(* report_job_result ends the job and its lease together.                  *)
LEMMA ReportKeeps ==
  ASSUME IInv, TypeOK', NEW x \in Attempts,
         NEW s \in {"done", "failed", "timed_out"}, NEW r \in BOOLEAN,
         ReportJobResult(x, s, r)
  PROVE  IInv'
<1> DEFINE j == x[1]
           job == JobAs(jobs[j], s, s = "timed_out" /\ r)
           row == LeaseAs(leases[x], "released", s)
<1>1. /\ jobs' = [jobs EXCEPT ![j] = job] /\ leases' = [leases EXCEPT ![x] = row]
      /\ UNCHANGED <<agents, cancel>>
  BY DEF ReportJobResult
<1>2. /\ jobs[j].status = "running" /\ jobs[j].attempt = x[2]
      /\ leases[x].status = "active" /\ j \in Jobs
  BY AttemptPairs DEF ReportJobResult, Authorised, Active
<1>3. /\ job.status = s /\ job.attempt = jobs[j].attempt
      /\ job.agent = jobs[j].agent
      /\ row.status = "released" /\ row.key = leases[x].key
      /\ row.agent = leases[x].agent
  BY DEF JobAs, LeaseAs
<1> HIDE DEF job, row
<1>4. /\ jobs'[j] = job /\ leases'[x] = row
      /\ \A k \in Jobs : k # j => jobs'[k] = jobs[k]
      /\ \A y \in Attempts : y # x => leases'[y] = leases[y]
  BY <1>1, <1>2 DEF IInv, TypeOK
<1>5. job \in JobRow /\ row \in LeaseRow
  BY <1>2, <1>4 DEF TypeOK
<1>6. Tables(jobs, leases)'
  <2>1. leases[x].status # "none" /\ job.status \notin {"none", "running"}
    BY <1>2, <1>3
  <2> QED BY <1>1, <1>2, <1>3, <1>5, <2>1, EndTables DEF IInv
<1>7. CapacityHeld'
  BY <1>3, <1>4, CapacityKept DEF IInv, Active
<1>8. CancelTarget'
  BY <1>1, <1>3, <1>4 DEF IInv, CancelTarget
<1>9. OfflineAgentIdle'
  BY <1>1, <1>2, <1>3, <1>4 DEF IInv, OfflineAgentIdle, Active
<1> QED BY <1>6, <1>7, <1>8, <1>9 DEF IInv

(* Reaping one lease takes its job from running to timed_out.              *)
LEMMA ReapKeeps ==
  ASSUME IInv, TypeOK', NEW x \in Attempts, ReapLease(x)
  PROVE  IInv'
<1>1. /\ jobs' = ReapedJobs({x}) /\ leases' = ReapedLeases({x})
      /\ Due(leases[x]) /\ Consistent(x) /\ UNCHANGED <<agents, cancel>>
  BY DEF ReapLease
<1>2. Tables(jobs, leases)'
  <2>1. Tables(ReapedJobs({x}), ReapedLeases({x}))
    BY <1>1, ReapTables DEF IInv
  <2> QED BY <1>1, <2>1
<1>3. /\ leases'[x].status = "expired"
      /\ \A y \in Attempts : y # x => leases'[y] = leases[y]
  BY <1>1 DEF ReapedLeases, LeaseAs
<1>4. /\ jobs'[x[1]].agent = jobs[x[1]].agent
      /\ \A k \in Jobs : k # x[1] => jobs'[k] = jobs[k]
  BY <1>1, AttemptPairs DEF ReapedJobs, JobAs
<1>5. CapacityHeld'
  BY <1>3, CapacityKept DEF IInv, Active
<1>6. CancelTarget'
  BY <1>1, <1>3 DEF IInv, CancelTarget
<1>7. OfflineAgentIdle'
  <2>1. \A a \in Agents : agents[a].state = "offline" => jobs[x[1]].agent # a
    BY <1>1, AttemptPairs DEF IInv, OfflineAgentIdle, Consistent
  <2>2. UNCHANGED agents
    BY <1>1
  <2>3. \A y \in Attempts : Active(leases'[y]) => leases'[y] = leases[y]
    BY <1>3 DEF Active
  <2>4. \A k \in Jobs : \A a \in Agents :
          agents[a].state = "offline" /\ jobs'[k].agent = a => jobs'[k] = jobs[k]
    BY <1>4, <2>1
  <2> QED BY <2>2, <2>3, <2>4 DEF IInv, OfflineAgentIdle
<1> QED BY <1>2, <1>5, <1>6, <1>7 DEF IInv

(* The two steps of cancel_job that write.                                 *)
LEMMA CancelWriteKeeps ==
  ASSUME IInv, TypeOK', NEW o \in Operators, CancelLeased(o) \/ CancelWrite(o)
  PROVE  IInv'
<1> DEFINE j == cancel[o].job
           x == <<j, cancel[o].attempt>>
           job == JobAs(jobs[j], "cancelled", jobs[j].recoverable)
           row == LeaseAs(leases[x], "released", "job_cancelled")
<1>1. /\ j \in Jobs /\ jobs' = [jobs EXCEPT ![j] = job]
      /\ UNCHANGED agents /\ cancel' = [cancel EXCEPT ![o] = Idle]
  BY DEF IInv, CancelTarget, CancelLeased, CancelWrite
<1>2. /\ job.status = "cancelled" /\ job.attempt = jobs[j].attempt
      /\ job.agent = jobs[j].agent
      /\ row.status = "released" /\ row.key = leases[x].key
      /\ row.agent = leases[x].agent
  BY DEF JobAs, LeaseAs
<1>3. \/ UNCHANGED leases
      \/ /\ x \in Attempts /\ leases[x].status # "none"
         /\ leases' = [leases EXCEPT ![x] = row]
  BY DEF IInv, CancelTarget, CancelLeased, CancelWrite
<1>4. x[1] = j
  OBVIOUS
<1>5. /\ \A p \in Operators : p # o => cancel'[p] = cancel[p]
      /\ cancel'[o].pc = "idle"
  BY <1>1 DEF IInv, TypeOK, Idle
<1> HIDE DEF job, row, x
<1>6. /\ jobs'[j] = job /\ job \in JobRow
      /\ \A k \in Jobs : k # j => jobs'[k] = jobs[k]
  BY <1>1 DEF IInv, TypeOK
<1>7. /\ Tables(jobs, leases)'
      /\ \A y \in Attempts : leases'[y] = leases[y]
                               \/ /\ leases'[y].status = "released"
                                  /\ leases[y].status # "none"
  <2>1. CASE UNCHANGED leases
    BY <1>1, <1>2, <1>6, <2>1, CancelTables DEF IInv
  <2>2. CASE /\ x \in Attempts /\ leases[x].status # "none"
             /\ leases' = [leases EXCEPT ![x] = row]
    <3>1. /\ leases'[x] = row /\ row \in LeaseRow
          /\ \A y \in Attempts : y # x => leases'[y] = leases[y]
      BY <2>2 DEF IInv, TypeOK
    <3>2. Tables([jobs EXCEPT ![x[1]] = job], [leases EXCEPT ![x] = row])
      BY <1>2, <1>4, <1>6, <2>2, <3>1, EndTables DEF IInv
    <3> QED BY <1>1, <1>2, <1>4, <2>2, <3>1, <3>2
  <2> QED BY <1>3, <2>1, <2>2
<1>8. CapacityHeld'
  BY <1>7, CapacityKept DEF IInv, Active
<1>9. CancelTarget'
  <2>1. \A y \in Attempts : leases[y].status # "none" => leases'[y].status # "none"
    BY <1>7
  <2> QED BY <1>5, <2>1 DEF IInv, CancelTarget
<1>10. OfflineAgentIdle'
  <2>1. \A y \in Attempts : Active(leases'[y]) => leases'[y] = leases[y]
    BY <1>7 DEF Active
  <2> QED BY <1>1, <1>2, <1>6, <2>1 DEF IInv, OfflineAgentIdle
<1> QED BY <1>7, <1>8, <1>9, <1>10 DEF IInv

(* The steps of cancel_job that only read.                                 *)
LEMMA CancelReadKeeps ==
  ASSUME IInv, TypeOK', NEW o \in Operators,
         \/ \E j \in Jobs : CancelRead(o, j)
         \/ CancelFindLease(o) \/ CancelMarkRead(o) \/ CancelEnd(o)
  PROVE  IInv'
<1>1. UNCHANGED <<agents, jobs, leases>>
  BY DEF CancelRead, CancelFindLease, CancelMarkRead, CancelEnd
<1>2. Tables(jobs, leases)' /\ CapacityHeld' /\ OfflineAgentIdle'
  BY <1>1 DEF IInv, Tables, Covered, Current, Exclusive, KeyOnce, Fresh,
              CapacityHeld, OfflineAgentIdle
<1>3. \A p \in Operators : p # o => cancel'[p] = cancel[p]
  BY DEF IInv, TypeOK, CancelRead, CancelFindLease, CancelMarkRead, CancelEnd
<1>4. cancel'[o].pc # "idle" => cancel'[o].job \in Jobs
  BY DEF IInv, TypeOK, CancelTarget, CancelRead, CancelFindLease,
         CancelMarkRead, CancelEnd, Idle
<1>5. cancel'[o].pc = "leased" =>
        /\ <<cancel'[o].job, cancel'[o].attempt>> \in Attempts
        /\ leases[<<cancel'[o].job, cancel'[o].attempt>>].status # "none"
  <2>1. CASE CancelFindLease(o)
    <3> DEFINE x == <<cancel[o].job, cancel[o].attempt>>
    <3>1. /\ cancel'[o].job = cancel[o].job /\ cancel'[o].attempt = cancel[o].attempt
          /\ cancel'[o].pc = IF x \in Attempts /\ Active(leases[x])
                             THEN "leased" ELSE "unleased"
      BY <2>1 DEF IInv, TypeOK, CancelFindLease
    <3> QED BY <3>1 DEF Active
  <2>2. CASE ~CancelFindLease(o)
    BY <2>2 DEF IInv, TypeOK, CancelRead, CancelMarkRead, CancelEnd, Idle
  <2> QED BY <2>1, <2>2
<1>6. CancelTarget'
  BY <1>1, <1>3, <1>4, <1>5 DEF IInv, CancelTarget
<1> QED BY <1>2, <1>6 DEF IInv

(* The passing of time can only end leases.                                *)
LEMMA TickKeeps == IInv /\ TypeOK' /\ Tick => IInv'
<1> SUFFICES ASSUME IInv, TypeOK', Tick PROVE IInv'
  OBVIOUS
<1>1. UNCHANGED <<agents, jobs, cancel>>
  BY DEF Tick
<1>2. \A y \in Attempts :
        /\ leases'[y].status = leases[y].status /\ leases'[y].agent = leases[y].agent
        /\ leases'[y].host = leases[y].host /\ leases'[y].path = leases[y].path
        /\ leases'[y].key = leases[y].key
        /\ Unexpired(leases'[y]) => Unexpired(leases[y])
  BY DEF IInv, TypeOK, Tick, LeaseWith, LeaseRow, Unexpired
<1>3. Tables(jobs, leases)'
  BY <1>1, <1>2, ExpiryTables DEF IInv, TypeOK
<1>4. CapacityHeld'
  BY <1>2, CapacityKept DEF IInv, Active
<1>5. CancelTarget' /\ OfflineAgentIdle'
  BY <1>1, <1>2 DEF IInv, CancelTarget, OfflineAgentIdle, Active
<1> QED BY <1>3, <1>4, <1>5 DEF IInv

-----------------------------------------------------------------------------
(* The theorems *)

(* Every step keeps the invariant.                                         *)
LEMMA Inductive == IInv /\ [Next]_vars => IInv'
<1> SUFFICES ASSUME IInv, [Next]_vars PROVE IInv'
  OBVIOUS
<1>1. TypeOK'
  BY TypeStep DEF IInv
<1>2. CASE AgentStep
  BY <1>1, <1>2, AgentKeeps
<1>3. CASE QueueStep
  BY <1>1, <1>3, QueueKeeps
<1>4. CASE ClaimStep
  BY <1>1, <1>4, ClaimKeeps
<1>5. CASE LeaseStep
  BY <1>1, <1>5, RenewKeeps, ReportKeeps, ReapKeeps DEF LeaseStep
<1>6. CASE CancelStep
  BY <1>1, <1>6, CancelReadKeeps, CancelWriteKeeps DEF CancelStep
<1>7. CASE Tick
  BY <1>1, <1>7, TickKeeps
<1>8. CASE UNCHANGED vars
  BY <1>1, <1>8 DEF vars, IInv, Tables, Covered, Current, Exclusive, KeyOnce,
                    Fresh, CancelTarget, CapacityHeld, OfflineAgentIdle
<1> QED BY <1>2, <1>3, <1>4, <1>5, <1>6, <1>7, <1>8 DEF Next

(* The empty database satisfies the invariant.                             *)
LEMMA Initially == Init => IInv
<1> SUFFICES ASSUME Init PROVE IInv
  OBVIOUS
<1>1. TypeOK
  BY DEF Init, TypeOK, NoJob, NoLease, Idle, AgentRow, JobRow, JobStatus,
         LeaseRow, CancelState
<1>2. /\ \A j \in Jobs : jobs[j].status = "none" /\ jobs[j].attempt = 0
      /\ \A x \in Attempts : leases[x].status = "none" /\ leases[x].key = None
      /\ \A a \in Agents : agents[a].state = "absent"
      /\ \A o \in Operators : cancel[o].pc = "idle"
  BY DEF Init, NoJob, NoLease, Idle
<1>3. Covered(jobs, leases) /\ Current(jobs, leases) /\ Exclusive(leases)
  BY <1>2 DEF Covered, Current, Exclusive, Active
<1>4. KeyOnce(leases) /\ Fresh(jobs, leases)
  BY <1>2 DEF KeyOnce, Fresh
<1>5. CapacityHeld
  <2> SUFFICES ASSUME NEW a \in Agents
               PROVE  Cardinality(LiveLeases(a, leases)) <= Capacity[a]
    BY DEF CapacityHeld
  <2>1. LiveLeases(a, leases) = {}
    BY <1>2 DEF LiveLeases, Active
  <2> QED BY <2>1, FS_EmptySet
<1>6. CancelTarget /\ OfflineAgentIdle
  BY <1>2 DEF CancelTarget, OfflineAgentIdle
<1> QED BY <1>1, <1>3, <1>4, <1>5, <1>6 DEF IInv, Tables, TypeOK

(* IInv is an invariant.                                                   *)
LEMMA InvariantHolds == Spec => []IInv
BY Initially, Inductive, PTL DEF Spec

(* No running job is without an active lease of its current attempt, so    *)
(* nothing claim_leased_job starts escapes the reaper.                     *)
THEOREM RunningLeased == Spec => []RunningIsLeased
<1>1. IInv => RunningIsLeased
  BY DEF IInv, Tables, Covered, RunningIsLeased
<1> QED BY <1>1, InvariantHolds, PTL

(* An active lease is of the current attempt of a job that runs for the    *)
(* lease's agent, or that cancel_job overtook.                             *)
THEOREM ActiveLeaseCurrent == Spec => []ActiveLeaseIsCurrent
<1>1. IInv => ActiveLeaseIsCurrent
  BY DEF IInv, Tables, Current, ActiveLeaseIsCurrent
<1> QED BY <1>1, InvariantHolds, PTL

(* No two active leases share a worktree, whatever claims, late reports,   *)
(* reaps and cancels come between.                                         *)
THEOREM MutualExclusion == Spec => []WorktreeExclusive
<1>1. IInv => WorktreeExclusive
  BY DEF IInv, Tables, Exclusive, WorktreeExclusive
<1> QED BY <1>1, InvariantHolds, PTL

(* No agent exceeds its capacity policy.                                   *)
THEOREM CapacityRespected == Spec => []CapacityHeld
<1>1. IInv => CapacityHeld
  BY DEF IInv
<1> QED BY <1>1, InvariantHolds, PTL

(* A deactivated agent holds nothing and has nothing to recover.           *)
THEOREM OfflineIdle == Spec => []OfflineAgentIdle
<1>1. IInv => OfflineAgentIdle
  BY DEF IInv
<1> QED BY <1>1, InvariantHolds, PTL

(* A claim_request_id buys an agent one attempt at most.                   *)
THEOREM ClaimIdempotent == Spec => []ClaimKeyOnce
<1>1. IInv => ClaimKeyOnce
  BY DEF IInv, Tables, KeyOnce, ClaimKeyOnce
<1> QED BY <1>1, InvariantHolds, PTL

(* A step other than a claim keeps every existing lease row.               *)
LEMMA RowsKept ==
  ASSUME IInv, [Next]_vars, ~ClaimStep
  PROVE  LeaseKept
<1> USE DEF LeaseKept
<1>1. CASE UNCHANGED leases
  BY <1>1
<1>2. CASE LeaseStep
  <2>1. ASSUME NEW x \in Attempts, NEW ttl \in Ttls, RenewManagedLease(x, ttl)
        PROVE  LeaseKept
    BY <2>1 DEF IInv, TypeOK, RenewManagedLease, LeaseWith, Authorised, Active
  <2>2. ASSUME NEW x \in Attempts, NEW s, NEW r, ReportJobResult(x, s, r)
        PROVE  LeaseKept
    BY <2>2 DEF IInv, TypeOK, ReportJobResult, LeaseAs, Active, Unexpired
  <2>3. ASSUME NEW x \in Attempts, ReapLease(x)
        PROVE  LeaseKept
    BY <2>3 DEF ReapLease, ReapedLeases, LeaseAs, Active, Unexpired
  <2> QED BY <1>2, <2>1, <2>2, <2>3 DEF LeaseStep
<1>3. CASE CancelStep
  <2>1. PICK o \in Operators : CancelLeased(o) \/ UNCHANGED leases
    BY <1>3 DEF CancelStep, CancelRead, CancelFindLease, CancelMarkRead,
                CancelWrite, CancelEnd
  <2>2. CASE CancelLeased(o)
    BY <2>2 DEF IInv, TypeOK, CancelLeased, LeaseAs, Active, Unexpired
  <2> QED BY <2>1, <2>2, <1>1
<1>4. CASE Tick
  BY <1>4 DEF IInv, TypeOK, Tick, LeaseWith, LeaseRow, Active, Unexpired
<1> QED
  BY <1>1, <1>2, <1>3, <1>4 DEF Next, vars, AgentStep, RegisterAgent,
     HeartbeatAgent, DeactivateAgent, QueueStep, SubmitRequest, RetryJob

(* A claim inserts a row and closes the ones it reaps.                     *)
LEMMA RowsKeptByClaim ==
  ASSUME IInv, ClaimStep
  PROVE  LeaseKept
<1>1. PICK a \in Agents, rec \in BOOLEAN, mode \in {"global", "none"},
           ttl \in Ttls, key \in ClaimKeys \cup {None} :
             ClaimLeasedJob(a, rec, mode, ttl, key)
  BY DEF ClaimStep
<1>2. PICK S \in IF mode = "global" THEN DueBatches ELSE {{}},
           j \in Jobs : Claims(a, rec, ttl, key, S, j)
  BY <1>1 DEF ClaimLeasedJob
<1> DEFINE ls == ReapedLeases(S)
<1>3. PICK x, row : leases' = Reserve(x, row, ls)
  BY <1>2 DEF Claims
<1>4. ls \in [Attempts -> LeaseRow] /\ \A y \in S : Due(leases[y])
  BY ReapTypes DEF IInv, DueBatches
<1>5. \A y \in Attempts : ls[y].status # "none" => leases'[y] = ls[y]
  BY <1>3, <1>4 DEF Reserve
<1>6. \A y \in Attempts :
        /\ y \notin S => ls[y] = leases[y]
        /\ y \in S => /\ ls[y].status = "expired" /\ ls[y].left = 0
                      /\ ls[y].agent = leases[y].agent /\ ls[y].host = leases[y].host
                      /\ ls[y].path = leases[y].path /\ ls[y].key = leases[y].key
  BY DEF ReapedLeases, LeaseAs
<1> HIDE DEF ls
<1> QED BY <1>5, <1>6 DEF LeaseKept, Active, Unexpired

(* The lease of an attempt is never reopened, never revived after it ran   *)
(* out and never handed to another agent, worktree or request.             *)
THEOREM NeverRevived == Spec => LeaseNeverRevived
<1>1. IInv /\ [Next]_vars => [LeaseKept]_vars
  BY RowsKept, RowsKeptByClaim
<1> QED BY <1>1, InvariantHolds, PTL DEF Spec, LeaseNeverRevived

-----------------------------------------------------------------------------
(* The refinement of WorktreeLock *)

(* A step that adds no lease row only takes locks away.                    *)
LEMMA TakesAway ==
  ASSUME LeaseKept,
         \A y \in Attempts : leases'[y].status = "none" <=> leases[y].status = "none"
  PROVE  Lock!LockNext
<1>1. Spent' = Spent
  BY DEF Spent
<1>2. Held' \subseteq Held
  BY DEF Held, LeaseKept, Active
<1>3. Held' = Held \ (Held \ Held')
  BY <1>2
<1>4. Lock!TakeAway(Held \ Held')
  BY <1>1, <1>3 DEF Lock!TakeAway
<1>5. (Held \ Held') \in SUBSET Held
  OBVIOUS
<1> QED BY <1>4, <1>5 DEF Lock!LockNext

(* A step that adds one active row, and leaves no two active rows of one   *)
(* worktree, grants that row's lock.                                       *)
LEMMA Grants ==
  ASSUME leases' \in [Attempts -> LeaseRow], Exclusive(leases'), LeaseKept,
         NEW x \in Attempts,
         leases[x].status = "none", leases'[x].status = "active",
         \A y \in Attempts : y # x =>
           (leases'[y].status = "none" <=> leases[y].status = "none")
  PROVE  Lock!LockNext
<1> DEFINE r == <<leases'[x].host, leases'[x].path>>
           R == Held \ Held'
<1>1. x \notin Spent /\ Spent' = Spent \cup {x}
  BY DEF Spent
<1>2. r \in Resources
  BY DEF LeaseRow, Resources
<1>3. ASSUME NEW h \in Held' PROVE h \in Held \cup {<<x, r>>}
  <2>1. PICK y \in Attempts :
          /\ Active(leases'[y]) /\ h = <<y, <<leases'[y].host, leases'[y].path>>>>
    BY <1>3 DEF Held
  <2>2. CASE y = x
    BY <2>1, <2>2
  <2>3. CASE y # x
    <3>1. leases[y].status # "none"
      BY <2>1, <2>3 DEF Active
    <3>2. /\ Active(leases[y]) /\ leases'[y].host = leases[y].host
          /\ leases'[y].path = leases[y].path
      BY <2>1, <3>1 DEF LeaseKept
    <3> QED BY <2>1, <3>2 DEF Held
  <2> QED BY <2>2, <2>3
<1>4. <<x, r>> \in Held'
  BY DEF Held, Active
<1>5. Held' = (Held \ R) \cup {<<x, r>>}
  BY <1>3, <1>4
<1>6. ASSUME NEW h \in Held \ R PROVE h[2] # r
  <2>1. PICK y \in Attempts :
          /\ Active(leases[y]) /\ h = <<y, <<leases[y].host, leases[y].path>>>>
    BY DEF Held
  <2>2. y # x
    BY <2>1 DEF Active
  <2>3. PICK z \in Attempts :
          /\ Active(leases'[z]) /\ h = <<z, <<leases'[z].host, leases'[z].path>>>>
    BY DEF Held
  <2>4. z = y
    BY <2>1, <2>3
  <2>5. ~(leases'[z].host = leases'[x].host /\ leases'[z].path = leases'[x].path)
    BY <2>2, <2>3, <2>4 DEF Exclusive, Active
  <2> QED BY <2>3, <2>5
<1>7. Lock!Grant(R, x, r)
  BY <1>1, <1>5, <1>6 DEF Lock!Grant
<1>8. R \in SUBSET Held
  OBVIOUS
<1> HIDE DEF R, r
<1> QED BY <1>2, <1>7, <1>8 DEF Lock!LockNext

(* A step other than a claim adds no lease row and removes none.           *)
LEMMA NoRowAdded ==
  ASSUME IInv, [Next]_vars, ~ClaimStep
  PROVE  \A y \in Attempts : leases'[y].status = "none" <=> leases[y].status = "none"
<1>1. CASE UNCHANGED leases
  BY <1>1
<1>2. CASE LeaseStep
  <2>1. ASSUME NEW x \in Attempts, NEW ttl \in Ttls, RenewManagedLease(x, ttl)
        PROVE  \A y \in Attempts : leases'[y].status = leases[y].status
    BY <2>1 DEF IInv, TypeOK, RenewManagedLease, LeaseWith
  <2>2. ASSUME NEW x \in Attempts, NEW s, NEW r, ReportJobResult(x, s, r)
        PROVE  \A y \in Attempts :
                 leases'[y].status = "none" <=> leases[y].status = "none"
    BY <2>2 DEF IInv, TypeOK, ReportJobResult, LeaseAs, Authorised, Active
  <2>3. ASSUME NEW x \in Attempts, ReapLease(x)
        PROVE  \A y \in Attempts :
                 leases'[y].status = "none" <=> leases[y].status = "none"
    BY <2>3 DEF ReapLease, ReapedLeases, LeaseAs, Due, Active
  <2> QED BY <1>2, <2>1, <2>2, <2>3 DEF LeaseStep
<1>3. CASE CancelStep
  <2>1. PICK o \in Operators : CancelLeased(o) \/ UNCHANGED leases
    BY <1>3 DEF CancelStep, CancelRead, CancelFindLease, CancelMarkRead,
                CancelWrite, CancelEnd
  <2>2. CASE CancelLeased(o)
    <3> DEFINE x == <<cancel[o].job, cancel[o].attempt>>
               row == LeaseAs(leases[x], "released", "job_cancelled")
    <3>1. x \in Attempts /\ leases[x].status # "none"
      BY <2>2 DEF IInv, CancelTarget, CancelLeased
    <3>2. leases' = [leases EXCEPT ![x] = row]
      BY <2>2 DEF CancelLeased
    <3>3. row.status = "released"
      BY DEF LeaseAs
    <3> HIDE DEF x, row
    <3> QED BY <3>1, <3>2, <3>3 DEF IInv, TypeOK
  <2> QED BY <2>1, <2>2, <1>1
<1>4. CASE Tick
  BY <1>4 DEF IInv, TypeOK, Tick, LeaseWith
<1> QED
  BY <1>1, <1>2, <1>3, <1>4 DEF Next, vars, AgentStep, RegisterAgent,
     HeartbeatAgent, DeactivateAgent, QueueStep, SubmitRequest, RetryJob

(* A claim adds the row of an attempt that had none.                       *)
LEMMA ClaimGrants ==
  ASSUME IInv, IInv', ClaimStep
  PROVE  Lock!LockNext
<1>1. PICK a \in Agents, rec \in BOOLEAN, mode \in {"global", "none"},
           ttl \in Ttls, key \in ClaimKeys \cup {None} :
             ClaimLeasedJob(a, rec, mode, ttl, key)
  BY DEF ClaimStep
<1>2. PICK S \in IF mode = "global" THEN DueBatches ELSE {{}},
           j \in Jobs : Claims(a, rec, ttl, key, S, j)
  BY <1>1 DEF ClaimLeasedJob
<1> DEFINE js == ReapedJobs(S)
           ls == ReapedLeases(S)
           n == js[j].attempt + 1
           x == <<j, n>>
           row == NewLease(a, js[j].path, key, ttl)
<1>3. /\ ls \in [Attempts -> LeaseRow] /\ js \in [Jobs -> JobRow]
      /\ \A y \in S : Due(leases[y])
  BY ReapTypes DEF IInv, DueBatches
<1>4. js[j].attempt = jobs[j].attempt
  BY DEF ReapedJobs, JobAs
<1>5. js[j].attempt < MaxAttempts /\ leases' = Reserve(x, row, ls)
  BY <1>2 DEF Claims
<1>6. \A y \in Attempts : ls[y].status = "none" <=> leases[y].status = "none"
  BY <1>3 DEF ReapedLeases, LeaseAs, Due, Active
<1>7. row.status = "active"
  BY DEF NewLease
<1> HIDE DEF js, ls, row
<1>8. x \in Attempts
  <2>1. js[j].attempt \in 0..MaxAttempts
    BY <1>3 DEF JobRow
  <2>2. n \in 1..MaxAttempts
    BY <1>5, <2>1
  <2> HIDE DEF n
  <2> QED BY <2>2, AttemptPairs
<1>9. leases[x].status = "none"
  <2>1. jobs[j].attempt \in 0..MaxAttempts
    BY DEF IInv, TypeOK, JobRow
  <2>2. x[1] = j /\ x[2] = n
    OBVIOUS
  <2>3. ~(n <= jobs[j].attempt)
    BY <1>4, <2>1
  <2> HIDE DEF x, n
  <2> QED BY <1>8, <2>2, <2>3 DEF IInv, Tables, Fresh
<1> HIDE DEF x
<1>10. leases' = [ls EXCEPT ![x] = row]
  BY <1>5, <1>6, <1>8, <1>9 DEF Reserve
<1>11. /\ leases'[x].status = "active"
       /\ \A y \in Attempts : y # x => leases'[y] = ls[y]
  BY <1>3, <1>7, <1>8, <1>10
<1>12. LeaseKept
  BY RowsKeptByClaim
<1>13. leases' \in [Attempts -> LeaseRow] /\ Exclusive(leases')
  BY DEF IInv, TypeOK, Tables
<1> QED BY <1>6, <1>8, <1>9, <1>11, <1>12, <1>13, Grants

(* The lease tables implement the lock on worktrees that WorktreeLock      *)
(* states: whatever the interleaving, a claim grants a free worktree to an *)
(* attempt that never had one, and every other step only takes away.       *)
THEOREM LeasesImplementLock == Spec => ImplementsLock
<1>1. Init => Lock!LockInit
  BY DEF Init, NoLease, Lock!LockInit, Held, Spent, Active
<1>2. IInv /\ IInv' /\ [Next]_vars => [Lock!LockNext]_<<Held, Spent>>
  <2> SUFFICES ASSUME IInv, IInv', [Next]_vars PROVE Lock!LockNext
    OBVIOUS
  <2>1. CASE ClaimStep
    BY <2>1, ClaimGrants
  <2>2. CASE ~ClaimStep
    BY <2>2, RowsKept, NoRowAdded, TakesAway
  <2> QED BY <2>1, <2>2
<1> QED BY <1>1, <1>2, InvariantHolds, PTL
        DEF Spec, ImplementsLock, Lock!LockSpec
=============================================================================
