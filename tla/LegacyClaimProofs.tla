--------------------------- MODULE LegacyClaimProofs ---------------------------
(***************************************************************************)
(* Proofs about LegacyClaim, for any number of jobs, agents, claims that   *)
(* overlap, reports and operators.                                         *)
(***************************************************************************)
EXTENDS LegacyClaim, SequenceTheorems, WellFoundedInduction, TLAPS

(* Some claim from number n on ran into another one. *)
Overlapped(j, n) == \E m \in overlapped[j] : n <= m

(* The token of claim n and the claims that came after it add up to the    *)
(* job's attempt_count, unless some of them overlapped.                    *)
TokenCounts(j, n) ==
  claims[j][n] > 0 =>
    Overlapped(j, n) \/ claims[j][n] + (Len(claims[j]) - n) = jobs[j].attempt

RowInv(j) ==
  /\ Len(claims[j]) <= MaxClaims /\ jobs[j].attempt <= Len(claims[j])
  /\ jobs[j].status = "none" => jobs[j].attempt = 0
  /\ \A n \in 1 .. Len(claims[j]) : TokenCounts(j, n)
  /\ jobs[j].status \in Terminal /\ jobs[j].fenced =>
       jobs[j].by = Len(claims[j]) \/ Overlapped(j, jobs[j].by)

(* A claim that saw the job after its latest claim saw its attempt_count.  *)
ClaimInv(x, rows, answered) ==
  /\ x.pc # "idle" => x.agent \in Agents
  /\ x.pc = "selected" =>
       /\ x.job \in Jobs /\ x.status \in {"pending", "timed_out"}
       /\ x.n <= Len(answered[x.job]) /\ x.attempt <= Len(answered[x.job])
       /\ x.n = Len(answered[x.job]) => x.attempt = rows[x.job].attempt
  /\ x.pc = "committed" => x.job \in Jobs /\ x.n \in 1 .. Len(answered[x.job])

IInv ==
  /\ TypeOK
  /\ \A j \in Jobs : RowInv(j)
  /\ \A p \in Claimers : ClaimInv(claimer[p], jobs, claims)

LEMMA InitHolds == Init => IInv
<1> SUFFICES ASSUME Init PROVE IInv OBVIOUS
<1>1. NoJob \in JobRow /\ Idle \in Claimer /\ << >> \in Seq(0 .. MaxClaims) /\ Len(<< >>) = 0
  BY LegacyClaimAssumption DEF NoJob, JobRow, Idle, Claimer
<1>2. TypeOK BY <1>1, LegacyClaimAssumption DEF Init, TypeOK
<1>3. \A j \in Jobs : RowInv(j)
  BY <1>1, LegacyClaimAssumption DEF Init, RowInv, NoJob, Terminal
<1>4. \A p \in Claimers : ClaimInv(claimer[p], jobs, claims) BY DEF Init, ClaimInv, Idle
<1> QED BY <1>2, <1>3, <1>4 DEF IInv

(* What the steps find. *)
LEMMA Found ==
  ASSUME IInv, NEW j \in Jobs
  PROVE  /\ jobs[j] \in JobRow /\ claims[j] \in Seq(0 .. MaxClaims)
         /\ Len(claims[j]) \in 0 .. MaxClaims /\ DOMAIN claims[j] = 1 .. Len(claims[j])
         /\ jobs[j].attempt <= Len(claims[j]) /\ jobs[j].attempt \in Nat
         /\ MaxClaims \in Nat /\ overlapped[j] \subseteq 1 .. MaxClaims
         /\ \A n \in 1 .. Len(claims[j]) : claims[j][n] \in Nat
BY LegacyClaimAssumption DEF IInv, RowInv, TypeOK, JobRow

(* A step that leaves the claims and the attempt counts alone. *)
LEMMA SameClaims ==
  ASSUME IInv, TypeOK', UNCHANGED claims, UNCHANGED overlapped,
         \A j \in Jobs :
           /\ jobs'[j].attempt = jobs[j].attempt
           /\ jobs'[j].status = "none" => jobs[j].status = "none"
           /\ jobs'[j].status \in Terminal /\ jobs'[j].fenced =>
                jobs'[j].by = Len(claims[j]) \/ Overlapped(j, jobs'[j].by),
         \A p \in Claimers : claimer'[p] = claimer[p] \/ ClaimInv(claimer'[p], jobs, claims)
  PROVE  IInv'
<1>1. \A j \in Jobs : RowInv(j)'
  BY DEF IInv, RowInv, TokenCounts, Overlapped
<1>2. ASSUME NEW p \in Claimers PROVE ClaimInv(claimer'[p], jobs', claims')
  <2>1. ClaimInv(claimer'[p], jobs, claims) BY DEF IInv
  <2> QED BY <2>1 DEF ClaimInv
<1> QED BY <1>1, <1>2 DEF IInv

(* A claimer's step that touches nothing but its locals. *)
LEMMA LocalsOnly ==
  ASSUME IInv, NEW p \in Claimers, NEW x \in Claimer, ClaimInv(x, jobs, claims),
         claimer' = [claimer EXCEPT ![p] = x],
         UNCHANGED <<online, jobs, cancel, claims, overlapped>>
  PROVE  IInv'
<1>0. /\ UNCHANGED online /\ UNCHANGED jobs /\ UNCHANGED cancel
      /\ UNCHANGED claims /\ UNCHANGED overlapped
  OBVIOUS
<1>1. TypeOK' BY <1>0 DEF IInv, TypeOK
<1>2. \A q \in Claimers : claimer'[q] = claimer[q] \/ claimer'[q] = x
  BY DEF IInv, TypeOK
<1>3. \A j \in Jobs : jobs[j].status \in Terminal /\ jobs[j].fenced =>
        jobs[j].by = Len(claims[j]) \/ Overlapped(j, jobs[j].by)
  BY DEF IInv, RowInv
<1> QED BY <1>0, <1>1, <1>2, <1>3, SameClaims

(* A step that writes the row of one job, and keeps its attempt count.     *)
LEMMA RowKeeps ==
  ASSUME IInv, NEW j \in Jobs, NEW row \in JobRow,
         row.attempt = jobs[j].attempt, row.status # "none",
         row.status \in Terminal /\ row.fenced =>
           row.by = Len(claims[j]) \/ Overlapped(j, row.by),
         jobs' = [jobs EXCEPT ![j] = row],
         UNCHANGED <<online, claimer, claims, overlapped>>,
         cancel' \in [Operators -> Jobs \cup {None}]
  PROVE  IInv'
<1>0. UNCHANGED online /\ UNCHANGED claimer /\ UNCHANGED claims /\ UNCHANGED overlapped OBVIOUS
<1>1. TypeOK' BY <1>0 DEF IInv, TypeOK
<1>2. jobs'[j] = row /\ \A k \in Jobs \ {j} : jobs'[k] = jobs[k] BY DEF IInv, TypeOK
<1>3. \A k \in Jobs :
        /\ jobs'[k].attempt = jobs[k].attempt
        /\ jobs'[k].status = "none" => jobs[k].status = "none"
        /\ jobs'[k].status \in Terminal /\ jobs'[k].fenced =>
             jobs'[k].by = Len(claims[k]) \/ Overlapped(k, jobs'[k].by)
  BY <1>2 DEF IInv, RowInv
<1> QED BY <1>0, <1>1, <1>3, SameClaims

(* Agents that come and go, and new jobs. *)
LEMMA AgentKeeps == ASSUME IInv, AgentStep PROVE IInv'
<1>1. ASSUME NEW a \in Agents, ComeOnline(a) \/ DeactivateAgent(a) PROVE IInv'
  <2>1. /\ online' \subseteq Agents /\ UNCHANGED jobs /\ UNCHANGED claimer
        /\ UNCHANGED cancel /\ UNCHANGED claims /\ UNCHANGED overlapped
    BY <1>1 DEF ComeOnline, DeactivateAgent, IInv, TypeOK
  <2>2. TypeOK' BY <2>1 DEF IInv, TypeOK
  <2>3. \A j \in Jobs : jobs[j].status \in Terminal /\ jobs[j].fenced =>
          jobs[j].by = Len(claims[j]) \/ Overlapped(j, jobs[j].by)
    BY DEF IInv, RowInv
  <2> QED BY <2>1, <2>2, <2>3, SameClaims
<1>2. ASSUME NEW a \in Agents, NEW j \in Jobs, SubmitRequest(j, a) PROVE IInv'
  <2> DEFINE row == [NoJob EXCEPT !.status = "pending", !.agent = a]
  <2>1. 0 \in 0 .. MaxClaims BY LegacyClaimAssumption
  <2>2. row \in JobRow /\ row.attempt = 0 /\ row.status = "pending"
    BY <2>1 DEF NoJob, JobRow
  <2>3. jobs[j].attempt = 0 BY <1>2 DEF SubmitRequest, IInv, RowInv
  <2>4. /\ jobs' = [jobs EXCEPT ![j] = row] /\ UNCHANGED <<online, claimer, claims, overlapped>>
        /\ cancel' \in [Operators -> Jobs \cup {None}]
    BY <1>2 DEF SubmitRequest, IInv, TypeOK
  <2> HIDE DEF row
  <2>5. row.status \notin Terminal /\ row.status # "none" BY <2>2 DEF Terminal
  <2> QED BY <2>2, <2>3, <2>4, <2>5, RowKeeps
<1> QED BY <1>1, <1>2 DEF AgentStep

(* Results.  A token that holds is that of the latest claim, or claims     *)
(* overlapped since.                                                       *)
Reported(j, n, fenced, status, rec) ==
  /\ claims[j][n] > 0 /\ TokenHolds(j, n, fenced)
  /\ jobs' = [jobs EXCEPT ![j] =
       [@ EXCEPT !.status = status, !.by = n, !.fenced = fenced, !.recoverable = rec]]
  /\ UNCHANGED <<online, claimer, cancel, claims, overlapped>>

LEMMA ReportedKeeps ==
  ASSUME IInv, NEW j \in Jobs, NEW n \in DOMAIN claims[j], NEW fenced \in BOOLEAN,
         NEW st \in {"done", "failed", "timed_out"}, NEW rec \in BOOLEAN,
         Reported(j, n, fenced, st, rec)
  PROVE  IInv'
<1> DEFINE row == [jobs[j] EXCEPT !.status = st, !.by = n, !.fenced = fenced, !.recoverable = rec]
<1>1. n \in 1 .. Len(claims[j]) /\ n \in 0 .. MaxClaims BY Found
<1>2. /\ row \in JobRow /\ row.attempt = jobs[j].attempt
      /\ row.status = st /\ row.fenced = fenced /\ row.by = n
  BY <1>1, Found DEF JobRow
<1>3. fenced => n = Len(claims[j]) \/ Overlapped(j, n)
  <2>1. TokenCounts(j, n) BY <1>1 DEF IInv, RowInv
  <2>2. Len(claims[j]) \in Nat /\ claims[j][n] \in Nat /\ n \in Nat BY <1>1, Found
  <2>3. fenced => jobs[j].attempt = claims[j][n] /\ claims[j][n] > 0 BY DEF Reported, TokenHolds
  <2> QED BY <2>1, <2>2, <2>3 DEF TokenCounts
<1>4. /\ jobs' = [jobs EXCEPT ![j] = row] /\ UNCHANGED <<online, claimer, claims, overlapped>>
      /\ cancel' \in [Operators -> Jobs \cup {None}]
  BY DEF Reported, IInv, TypeOK
<1> HIDE DEF row
<1> QED BY <1>2, <1>3, <1>4, RowKeeps

LEMMA ReportKeeps == ASSUME IInv, ReportStep PROVE IInv'
<1>j. PICK j \in Jobs : \E n \in DOMAIN claims[j], fenced \in BOOLEAN :
        \/ \E s \in {"done", "failed", "timed_out"}, r \in BOOLEAN :
             ReportRunning(j, n, fenced, s, r)
        \/ \E s \in Terminal : AcceptLate(j, n, fenced, s)
  BY DEF ReportStep
<1>1. PICK n \in DOMAIN claims[j], fenced \in BOOLEAN :
        \/ \E s \in {"done", "failed", "timed_out"}, r \in BOOLEAN :
             ReportRunning(j, n, fenced, s, r)
        \/ \E s \in Terminal : AcceptLate(j, n, fenced, s)
  BY <1>j
<1>2. ASSUME NEW s \in {"done", "failed", "timed_out"}, NEW r \in BOOLEAN,
             ReportRunning(j, n, fenced, s, r)
      PROVE  IInv'
  <2>1. Reported(j, n, fenced, s, s = "timed_out" /\ r) BY <1>2 DEF ReportRunning, Reported
  <2>2. (s = "timed_out" /\ r) \in BOOLEAN OBVIOUS
  <2> QED BY <2>1, <2>2, ReportedKeeps
<1>3. ASSUME NEW s \in Terminal, AcceptLate(j, n, fenced, s) PROVE IInv'
  <2>1. Reported(j, n, fenced, s, FALSE) /\ s \in {"done", "failed", "timed_out"}
    BY <1>3 DEF AcceptLate, Reported, Terminal
  <2> QED BY <2>1, ReportedKeeps
<1> QED BY <1>1, <1>2, <1>3

LEMMA CancelKeeps == ASSUME IInv, CancelStep PROVE IInv'
<1>0. TypeOK BY DEF IInv
<1>1. ASSUME NEW o \in Operators, NEW j \in Jobs, CancelRead(o, j) PROVE IInv'
  <2>1. /\ UNCHANGED online /\ UNCHANGED jobs /\ UNCHANGED claimer
        /\ UNCHANGED claims /\ UNCHANGED overlapped
    BY <1>1 DEF CancelRead
  <2>2. TypeOK' BY <1>0, <1>1, <2>1 DEF CancelRead, TypeOK
  <2>3. \A k \in Jobs : jobs[k].status \in Terminal /\ jobs[k].fenced =>
          jobs[k].by = Len(claims[k]) \/ Overlapped(k, jobs[k].by)
    BY DEF IInv, RowInv
  <2> QED BY <2>1, <2>2, <2>3, SameClaims
<1>2. ASSUME NEW o \in Operators, CancelWrite(o) PROVE IInv'
  <2>1. PICK j \in Jobs : j = cancel[o] BY <1>0, <1>2 DEF CancelWrite, TypeOK
  <2> DEFINE row == [jobs[j] EXCEPT !.status = "cancelled"]
  <2>2. row \in JobRow /\ row.attempt = jobs[j].attempt /\ row.status = "cancelled"
    BY Found DEF JobRow
  <2>3. /\ jobs' = [jobs EXCEPT ![j] = row] /\ UNCHANGED <<online, claimer, claims, overlapped>>
        /\ cancel' \in [Operators -> Jobs \cup {None}]
    BY <1>0, <1>2, <2>1 DEF CancelWrite, TypeOK
  <2>4. row.status \notin Terminal BY <2>2 DEF Terminal
  <2> HIDE DEF row
  <2> QED BY <2>2, <2>3, <2>4, RowKeeps
<1> QED BY <1>1, <1>2 DEF CancelStep

(* The oldest candidate, which ORDER BY ... LIMIT 1 returns. *)
LEMMA Smallest ==
  ASSUME NEW S, S \subseteq Nat, S # {}
  PROVE  \E i \in S : \A j \in S : i <= j
<1> DEFINE R == OpToRel(<, Nat)
<1>1. PICK i \in S : \A j \in S : ~ (<<j, i>> \in R)
  <2> HIDE DEF R
  <2>1. IsWellFoundedOn(R, Nat)
    BY NatLessThanWellFounded DEF R
  <2> QED BY <2>1, WFMin
<1>2. \A j \in S : ~ (j < i)
  BY <1>1 DEF OpToRel
<1> QED BY <1>2

LEMMA ClaimKeeps == ASSUME IInv, ClaimStep PROVE IInv'
<1>1. PICK p \in Claimers :
        \/ \E a \in Agents : ClaimBegin(p, a)
        \/ \E rec \in BOOLEAN : ClaimSelect(p, rec)
        \/ ClaimCommit(p) \/ ClaimLost(p) \/ ClaimAnswer(p)
  BY DEF ClaimStep
<1>2. /\ TypeOK /\ claimer[p] \in Claimer /\ ClaimInv(claimer[p], jobs, claims)
      /\ MaxClaims \in Nat /\ claimer \in [Claimers -> Claimer]
      /\ jobs \in [Jobs -> JobRow] /\ claims \in [Jobs -> Seq(0 .. MaxClaims)]
      /\ overlapped \in [Jobs -> SUBSET (1 .. MaxClaims)]
  BY LegacyClaimAssumption DEF IInv, TypeOK
<1>3. Idle \in Claimer /\ ClaimInv(Idle, jobs, claims)
  <2>1. 0 \in 0 .. MaxClaims BY <1>2
  <2> QED BY <2>1 DEF Idle, Claimer, ClaimInv
<1>4. ASSUME NEW a \in Agents, ClaimBegin(p, a) PROVE IInv'
  <2> DEFINE x == [Idle EXCEPT !.pc = "online", !.agent = a]
  <2>1. x \in Claimer BY <1>3 DEF Claimer
  <2>2. ClaimInv(x, jobs, claims) BY DEF Idle, ClaimInv
  <2> QED BY <1>4, <2>1, <2>2, LocalsOnly DEF ClaimBegin
<1>5. ASSUME NEW rec \in BOOLEAN, ClaimSelect(p, rec) PROVE IInv'
  <2> DEFINE a == claimer[p].agent
             found == {j \in Jobs : Claimable(j, a, rec)}
             At(j) == [pc |-> "selected", agent |-> a, job |-> j, status |-> jobs[j].status,
                       attempt |-> jobs[j].attempt, n |-> Len(claims[j])]
  <2>1. CASE found = {} BY <1>3, <1>5, <2>1, LocalsOnly DEF ClaimSelect
  <2>2. CASE found # {}
    <3>1. found \subseteq Nat BY LegacyClaimAssumption
    <3>2. PICK lo \in found : \A k \in found : lo <= k BY <2>2, <3>1, Smallest
    <3>3. PICK j \in found : claimer' = [claimer EXCEPT ![p] = At(j)]
      BY <1>5, <2>2, <3>2 DEF ClaimSelect
    <3>4. /\ j \in Jobs /\ jobs[j] \in JobRow /\ jobs[j].status \in {"pending", "timed_out"}
          /\ a \in Agents /\ jobs[j].attempt <= Len(claims[j])
          /\ Len(claims[j]) \in 0 .. MaxClaims
      BY <1>2, <1>5, Found DEF Claimable, ClaimSelect, ClaimInv
    <3>5. At(j) \in Claimer BY <3>4 DEF Claimer, JobRow
    <3>6. ClaimInv(At(j), jobs, claims) BY <3>4 DEF ClaimInv
    <3>7. UNCHANGED <<online, jobs, cancel, claims, overlapped>> BY <1>5 DEF ClaimSelect
    <3> HIDE DEF At
    <3> QED BY <3>3, <3>5, <3>6, <3>7, LocalsOnly
  <2> QED BY <2>1, <2>2
<1>6. CASE ClaimLost(p) BY <1>3, <1>6, LocalsOnly DEF ClaimLost
<1>j. PICK j : j = claimer[p].job OBVIOUS
(* The two steps that write the history of a job's claims.  Another claim  *)
(* that has selected the job saw as many claims as there are now only if   *)
(* the step adds none.                                                     *)
<1>7. ASSUME NEW row \in JobRow, NEW x \in Claimer, NEW answers \in Seq(0 .. MaxClaims),
             NEW late \in SUBSET (1 .. MaxClaims),
             j \in Jobs, jobs' = [jobs EXCEPT ![j] = row],
             claims' = [claims EXCEPT ![j] = answers],
             overlapped' = [overlapped EXCEPT ![j] = late],
             claimer' = [claimer EXCEPT ![p] = x], UNCHANGED <<online, cancel>>,
             \/ Len(claims[j]) < Len(answers)
             \/ Len(claims[j]) = Len(answers) /\ row.attempt = jobs[j].attempt,
             RowInv(j)', ClaimInv(x, jobs', claims')
      PROVE  IInv'
  <2>1. TypeOK' BY <1>2, <1>7 DEF TypeOK
  <2>2. /\ claims'[j] = answers /\ jobs'[j] = row /\ claimer'[p] = x
        /\ \A k \in Jobs \ {j} : /\ claims'[k] = claims[k] /\ jobs'[k] = jobs[k]
                                  /\ overlapped'[k] = overlapped[k]
        /\ \A q \in Claimers \ {p} : claimer'[q] = claimer[q]
    BY <1>2, <1>7
  <2>3. ASSUME NEW k \in Jobs PROVE RowInv(k)'
    <3>1. CASE k # j BY <2>2, <3>1 DEF IInv, RowInv, TokenCounts, Overlapped
    <3> QED BY <1>7, <3>1
  <2>4. \A k \in Jobs : /\ Len(claims[k]) \in Nat /\ Len(claims'[k]) \in Nat
                        /\ \/ Len(claims[k]) < Len(claims'[k])
                           \/ /\ Len(claims[k]) = Len(claims'[k])
                              /\ jobs'[k].attempt = jobs[k].attempt
    <3>1. ASSUME NEW k \in Jobs
          PROVE  /\ Len(claims[k]) \in Nat /\ Len(claims'[k]) \in Nat
                 /\ \/ Len(claims[k]) < Len(claims'[k])
                    \/ /\ Len(claims[k]) = Len(claims'[k])
                       /\ jobs'[k].attempt = jobs[k].attempt
      <4>1. Len(claims[k]) \in Nat BY Found
      <4>2. CASE k = j BY <1>7, <2>2, <4>1, <4>2
      <4>3. CASE k # j BY <2>2, <4>1, <4>3
      <4> QED BY <4>2, <4>3
    <3> QED BY <3>1
  <2>5. ASSUME NEW q \in Claimers PROVE ClaimInv(claimer'[q], jobs', claims')
    <3>1. CASE q = p BY <1>7, <2>2, <3>1
    <3>2. CASE q # p
      <4>1. claimer[q] \in Claimer /\ ClaimInv(claimer[q], jobs, claims) BY <1>2 DEF IInv
      <4> DEFINE y == claimer[q]
      <4>2. ASSUME y.pc = "selected"
            PROVE  /\ y.n <= Len(claims'[y.job]) /\ y.attempt <= Len(claims'[y.job])
                   /\ y.n = Len(claims'[y.job]) => y.attempt = jobs'[y.job].attempt
        <5>1. /\ y.job \in Jobs /\ y.attempt \in Nat /\ y.n \in Nat
              /\ y.attempt <= Len(claims[y.job]) /\ y.n <= Len(claims[y.job])
              /\ y.n = Len(claims[y.job]) => y.attempt = jobs[y.job].attempt
          BY <1>2, <4>1, <4>2 DEF ClaimInv, Claimer
        <5> HIDE DEF y
        <5> QED BY <2>4, <5>1
      <4>3. ASSUME y.pc = "committed"
            PROVE  y.n \in 1 .. Len(claims'[y.job])
        <5>1. y.job \in Jobs /\ y.n \in 1 .. Len(claims[y.job])
          BY <4>1, <4>3 DEF ClaimInv
        <5> HIDE DEF y
        <5> QED BY <2>4, <5>1
      <4> QED BY <2>2, <3>2, <4>1, <4>2, <4>3 DEF ClaimInv
    <3> QED BY <3>1, <3>2
  <2> QED BY <2>1, <2>3, <2>5 DEF IInv
<1>8. CASE ClaimCommit(p)
  <2> DEFINE n == Len(claims[j]) + 1
             row == [jobs[j] EXCEPT !.status = "running", !.attempt = claimer[p].attempt + 1,
                                    !.recoverable = FALSE]
             x == [claimer[p] EXCEPT !.pc = "committed", !.n = n]
             answers == Append(claims[j], 0)
             late == IF claimer[p].n = Len(claims[j]) THEN overlapped[j]
                     ELSE overlapped[j] \cup {n}
  <2>1. /\ j \in Jobs /\ claimer[p].pc = "selected" /\ Len(claims[j]) < MaxClaims
        /\ claimer[p].attempt <= Len(claims[j]) /\ claimer[p].attempt \in Nat
        /\ claimer[p].n = Len(claims[j]) => claimer[p].attempt = jobs[j].attempt
        /\ claimer[p].agent \in Agents
    BY <1>2, <1>8, <1>j DEF ClaimCommit, ClaimInv, Claimer
  <2>2. /\ jobs[j] \in JobRow /\ claims[j] \in Seq(0 .. MaxClaims) /\ Len(claims[j]) \in Nat
        /\ overlapped[j] \subseteq 1 .. MaxClaims /\ RowInv(j)
        /\ \A m \in 1 .. Len(claims[j]) : claims[j][m] \in Nat
    BY <2>1, Found DEF IInv
  <2>3. n \in 1 .. MaxClaims /\ n \in 0 .. MaxClaims /\ 0 \in 0 .. MaxClaims /\ n \in 1 .. n
        /\ claimer[p].attempt + 1 \in 0 .. MaxClaims /\ claimer[p].attempt + 1 <= n
    BY <1>2, <2>1, <2>2
  <2>4. /\ jobs' = [jobs EXCEPT ![j] = row] /\ claims' = [claims EXCEPT ![j] = answers]
        /\ overlapped' = [overlapped EXCEPT ![j] = late]
        /\ claimer' = [claimer EXCEPT ![p] = x] /\ UNCHANGED <<online, cancel>>
    BY <1>2, <1>8, <1>j, <2>1, <2>2 DEF ClaimCommit
  <2>5. row \in JobRow /\ row.status = "running" /\ row.attempt = claimer[p].attempt + 1
    BY <2>2, <2>3 DEF JobRow
  <2>6. /\ answers \in Seq(0 .. MaxClaims) /\ Len(answers) = n /\ answers[n] = 0
        /\ \A m \in 1 .. Len(claims[j]) : answers[m] = claims[j][m]
    BY <2>2, <2>3
  <2>7. /\ x \in Claimer /\ x.job = j /\ x.n = n /\ x.pc = "committed" /\ x.agent \in Agents
    BY <1>2, <1>j, <2>1, <2>3 DEF Claimer
  <2>8. /\ late \in SUBSET (1 .. MaxClaims) /\ overlapped[j] \subseteq late
        /\ claimer[p].n # Len(claims[j]) => n \in late
    BY <2>2, <2>3
  <2>9. Len(claims[j]) < n /\ n = Len(claims[j]) + 1 BY <2>2
  <2> HIDE DEF row, answers, x, n, late
  <2>10. claims'[j] = answers /\ jobs'[j] = row /\ overlapped'[j] = late
    BY <1>2, <2>1, <2>4
  <2>11. ASSUME NEW m \in 1 .. n PROVE TokenCounts(j, m)'
    <3>1. CASE m = n BY <2>6, <2>10, <3>1 DEF TokenCounts
    <3>2. CASE m # n
      <4>1. m \in 1 .. Len(claims[j]) BY <2>2, <2>9, <3>2
      <4>2. TokenCounts(j, m) /\ answers[m] = claims[j][m] /\ claims[j][m] \in Nat
        BY <2>2, <2>6, <4>1 DEF RowInv
      <4>3. CASE claimer[p].n = Len(claims[j])
        <5>1. row.attempt = jobs[j].attempt + 1 /\ jobs[j].attempt \in Nat
          BY <2>1, <2>5, <4>3, Found
        <5>2. Overlapped(j, m) => Overlapped(j, m)' BY <2>8, <2>10 DEF Overlapped
        <5>3. /\ Len(claims[j]) \in Nat /\ claims[j][m] \in Nat /\ m \in Nat
              /\ Len(answers) = Len(claims[j]) + 1 /\ jobs'[j].attempt = jobs[j].attempt + 1
              /\ Len(claims'[j]) = Len(claims[j]) + 1 /\ claims'[j][m] = claims[j][m]
          BY <2>2, <2>6, <2>9, <2>10, <4>1, <4>2, <5>1
        <5>4. CASE claims[j][m] > 0 /\ ~Overlapped(j, m)
          <6>1. claims[j][m] + (Len(claims[j]) - m) = jobs[j].attempt
            BY <4>2, <5>4 DEF TokenCounts
          <6>2. claims'[j][m] + (Len(claims'[j]) - m) = jobs'[j].attempt
            BY <5>1, <5>3, <6>1
          <6> QED BY <6>2 DEF TokenCounts
        <5>5. CASE ~(claims[j][m] > 0) BY <5>3, <5>5 DEF TokenCounts
        <5>6. CASE Overlapped(j, m) BY <5>2, <5>6 DEF TokenCounts
        <5> QED BY <5>4, <5>5, <5>6
      <4>4. CASE claimer[p].n # Len(claims[j])
        <5>1. n \in late /\ m <= n BY <2>8, <2>9, <2>2, <4>1, <4>4
        <5> QED BY <2>10, <5>1 DEF TokenCounts, Overlapped
      <4> QED BY <4>3, <4>4
    <3> QED BY <3>1, <3>2
  <2>12. RowInv(j)' BY <2>3, <2>5, <2>6, <2>10, <2>11 DEF RowInv, Terminal
  <2>13. ClaimInv(x, jobs', claims') BY <2>1, <2>3, <2>6, <2>7, <2>10 DEF ClaimInv
  <2> QED BY <1>7, <2>1, <2>4, <2>5, <2>6, <2>7, <2>8, <2>9, <2>12, <2>13
<1>9. CASE ClaimAnswer(p)
  <2> DEFINE n == claimer[p].n
             answers == [claims[j] EXCEPT ![n] = jobs[j].attempt]
             late == IF n = Len(claims[j]) THEN overlapped[j] ELSE overlapped[j] \cup {n}
  <2>1. j \in Jobs /\ n \in 1 .. Len(claims[j])
    BY <1>2, <1>9, <1>j DEF ClaimAnswer, ClaimInv
  <2>2. /\ jobs[j] \in JobRow /\ claims[j] \in Seq(0 .. MaxClaims)
        /\ Len(claims[j]) \in 0 .. MaxClaims /\ jobs[j].attempt <= Len(claims[j])
        /\ jobs[j].attempt \in 0 .. MaxClaims /\ RowInv(j)
        /\ overlapped[j] \subseteq 1 .. MaxClaims
    BY <2>1, Found DEF JobRow, IInv
  <2>3. /\ jobs' = [jobs EXCEPT ![j] = jobs[j]] /\ claims' = [claims EXCEPT ![j] = answers]
        /\ overlapped' = [overlapped EXCEPT ![j] = late]
        /\ claimer' = [claimer EXCEPT ![p] = Idle] /\ UNCHANGED <<online, cancel>>
    BY <1>2, <1>9, <1>j, <2>1 DEF ClaimAnswer
  <2>4. /\ answers \in Seq(0 .. MaxClaims) /\ Len(answers) = Len(claims[j])
        /\ answers[n] = jobs[j].attempt
        /\ \A m \in (1 .. Len(claims[j])) \ {n} : answers[m] = claims[j][m]
    BY <2>1, <2>2
  <2>5. /\ late \in SUBSET (1 .. MaxClaims) /\ overlapped[j] \subseteq late
        /\ n # Len(claims[j]) => n \in late
    BY <1>2, <2>1, <2>2
  <2>6. ClaimInv(Idle, jobs', claims') BY DEF ClaimInv, Idle
  <2>7. claims'[j] = answers /\ jobs'[j] = jobs[j] /\ overlapped'[j] = late
    BY <1>2, <2>1, <2>3
  <2> HIDE DEF n, answers, late
  <2>8. \A m \in Nat : Overlapped(j, m) => Overlapped(j, m)' BY <2>5, <2>7 DEF Overlapped
  <2>9. ASSUME NEW m \in 1 .. Len(claims[j]) PROVE TokenCounts(j, m)'
    <3>1. CASE m # n
      <4>1. TokenCounts(j, m) /\ answers[m] = claims[j][m] BY <2>2, <2>4, <3>1 DEF RowInv
      <4>2. Overlapped(j, m) => Overlapped(j, m)' BY <2>2, <2>8
      <4> QED BY <2>4, <2>7, <4>1, <4>2 DEF TokenCounts
    <3>2. CASE m = n /\ n = Len(claims[j]) BY <2>2, <2>4, <2>7, <3>2 DEF TokenCounts
    <3>3. CASE m = n /\ n # Len(claims[j])
      <4>1. n \in late /\ m <= n BY <2>2, <2>5, <3>3
      <4> QED BY <2>7, <4>1 DEF TokenCounts, Overlapped
    <3> QED BY <3>1, <3>2, <3>3
  <2>10. jobs[j].by \in Nat BY <2>2 DEF JobRow
  <2>11. RowInv(j)' BY <2>2, <2>4, <2>7, <2>8, <2>9, <2>10 DEF RowInv
  <2>12. /\ Len(claims[j]) = Len(answers) /\ jobs[j].attempt = jobs[j].attempt BY <2>4
  <2> QED BY <1>3, <1>7, <2>1, <2>2, <2>3, <2>4, <2>5, <2>6, <2>11, <2>12
<1> QED BY <1>1, <1>4, <1>5, <1>6, <1>8, <1>9

LEMMA InvHolds == Spec => []IInv
<1>1. IInv /\ [Next]_vars => IInv'
  <2> SUFFICES ASSUME IInv, [Next]_vars PROVE IInv' OBVIOUS
  <2>1. CASE UNCHANGED vars
    <3>1. UNCHANGED online /\ UNCHANGED jobs /\ UNCHANGED claimer /\ UNCHANGED cancel
      BY <2>1 DEF vars
    <3>2. UNCHANGED claims /\ UNCHANGED overlapped BY <2>1 DEF vars
    <3>3. TypeOK' BY <3>1, <3>2 DEF IInv, TypeOK
    <3>4. \A j \in Jobs : jobs[j].status \in Terminal /\ jobs[j].fenced =>
            jobs[j].by = Len(claims[j]) \/ Overlapped(j, jobs[j].by)
      BY DEF IInv, RowInv
    <3> QED BY <3>1, <3>2, <3>3, <3>4, SameClaims
  <2> QED BY <2>1, AgentKeeps, ClaimKeeps, ReportKeeps, CancelKeeps DEF Next
<1> QED BY <1>1, InitHolds, PTL DEF Spec

(* Jobs, tokens and locals keep their types, for any number of claims that *)
(* overlap: no attempt_count runs ahead of the claims.                     *)
THEOREM LegacyTyped == Spec => []TypeOK
<1>1. IInv => TypeOK BY DEF IInv
<1> QED BY <1>1, InvHolds, PTL

(* Whatever number of claims run at a time, a result that came with a      *)
(* token is that of the latest claim, or some claim since the one that     *)
(* sent it ran into another claim of the job.                              *)
THEOREM StaleNeedsOverlap == Spec => []StaleResultOverlapped
<1>1. IInv => StaleResultOverlapped
  BY DEF IInv, RowInv, StaleResultOverlapped, Overlapped
<1> QED BY <1>1, InvHolds, PTL

(* A result that was accepted stays, but for a cancellation that had read  *)
(* the job before.  This needs no claim to be alone: a stale one only      *)
(* takes a row that is still waiting, and reports test the status.         *)
THEOREM ResultsStand == Spec => ResultImmutable
<1> DEFINE Stands(j) == jobs[j].status \in Terminal =>
      /\ jobs'[j].status \in {jobs[j].status, "cancelled"}
      /\ jobs'[j].by = jobs[j].by
<1>1. ASSUME IInv, Next, NEW j \in Jobs PROVE Stands(j)
  <2>0. /\ jobs \in [Jobs -> JobRow] /\ jobs[j] \in JobRow
        /\ \A p \in Claimers : ClaimInv(claimer[p], jobs, claims)
    BY <1>1 DEF IInv, TypeOK
  <2>1. CASE jobs' = jobs BY <2>1
  <2>2. CASE AgentStep
    BY <2>0, <2>1, <2>2 DEF AgentStep, ComeOnline, DeactivateAgent, SubmitRequest, Terminal
  <2>3. CASE ClaimStep
    <3>1. ASSUME NEW p \in Claimers, ClaimCommit(p) PROVE Stands(j)
      BY <2>0, <3>1 DEF ClaimCommit, StatusKept, ClaimInv, Terminal
    <3> QED
      BY <2>1, <2>3, <3>1 DEF ClaimStep, ClaimBegin, ClaimSelect, ClaimLost, ClaimAnswer
  <2>4. CASE ReportStep
    <3>1. PICK k \in Jobs : /\ jobs[k].status \notin Terminal
                            /\ \E row : jobs' = [jobs EXCEPT ![k] = row]
      BY <2>4 DEF ReportStep, ReportRunning, AcceptLate, Terminal
    <3> QED BY <2>0, <3>1
  <2>5. CASE CancelStep
    <3>1. ASSUME NEW o \in Operators, CancelWrite(o) PROVE Stands(j)
      BY <2>0, <3>1 DEF CancelWrite, JobRow
    <3> QED BY <2>1, <2>5, <3>1 DEF CancelStep, CancelRead
  <2> QED BY <1>1, <2>2, <2>3, <2>4, <2>5 DEF Next
<1>2. IInv /\ [Next]_vars =>
        [\A j \in Jobs : jobs[j].status \in Terminal =>
           /\ jobs'[j].status \in {jobs[j].status, "cancelled"}
           /\ jobs'[j].by = jobs[j].by]_vars
  BY <1>1
<1> QED BY <1>2, InvHolds, PTL DEF Spec, ResultImmutable
=============================================================================
