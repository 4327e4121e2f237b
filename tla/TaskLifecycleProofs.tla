------------------------ MODULE TaskLifecycleProofs ------------------------
(***************************************************************************)
(* Proofs about one task's plan gate (PlanGate) and its transitions, for   *)
(* any shells, scopes, plans, callers and requests and any number of       *)
(* commands and failures.                                                  *)
(*                                                                         *)
(* PlanGate: handoffs are allowed by the gate they read, and decisions     *)
(* keep their meaning.  The log only grows, so what a command read of a    *)
(* prefix of it stays true: that is the whole argument.                    *)
(*                                                                         *)
(* Transitions: a hint that is not in doubt has one run at a time and one  *)
(* answer, and a script that nobody overtook writes what it made of the    *)
(* item that its gate saw.                                                 *)
(***************************************************************************)
EXTENDS PlanGate, Transitions, FiniteSetTheorems, WellFoundedInduction, TLAPS

(* What a revision says of the log it was appended to: it supersedes an    *)
(* earlier plan.ready, so links lead down to the first.                    *)
ReadySound(i) ==
  events[i].kind = "ready" /\ i # 1 => events[i].sup \in Upto(i - 1, {"ready"})

(* What a decision says of it. *)
DecisionSound(i) ==
  events[i].kind \in Kinds =>
    /\ events[i].plan \in Upto(i - 1, {"ready"})
    /\ events[i].count <= Cardinality(Upto(i, {Opposite(events[i].kind)}))

(* What a handoff says of it: HandoffWasAllowed is this of every event. *)
HandoffSound(i) ==
  events[i].kind = "handoff" =>
    LET e == events[i] IN
      /\ e.from < i /\ e.gate <= e.from
      /\ events[e.gate].kind = "approved" /\ events[e.gate].plan = e.plan
      /\ IsLatest(e.gate, DecisionsIn(e.from, e.scope))
      /\ IsLatest(e.plan, Upto(e.from, {"ready"}))

(* What a command knows: its readings are of a prefix of the log. *)
DecisionRead(c) ==
  c.op \in Kinds =>
    /\ c.plan \in Upto(Len(events), {"ready"})
    /\ c.count <= _gate_counter(Opposite(c.op))
    /\ c.last <= Len(events)
GateRead(c) ==
  c.op \in {"gate", "plan"} =>
    /\ c.from <= Len(events) /\ events[c.gate].kind = "approved"
    /\ IsLatest(c.gate, DecisionsIn(c.from, c.scope))
PlanRead(c) ==
  c.op = "plan" => IsLatest(events[c.gate].plan, Upto(c.from, {"ready"}))
Known(s) == DecisionRead(cmd[s]) /\ GateRead(cmd[s]) /\ PlanRead(cmd[s])

Sound(i) == ReadySound(i) /\ DecisionSound(i) /\ HandoffSound(i)
IInv ==
  /\ TypeOK
  /\ events[1].kind = "ready"
  /\ \A i \in 1 .. Len(events) : Sound(i)
  /\ \A s \in Shells : Known(s)

Grows ==
  /\ Len(events) <= Len(events')
  /\ \A i \in 1 .. Len(events) : events'[i] = events[i]

------------------------------------------------------------------------------
(* The latest of a set of places exists. *)

(* A set of naturals has a least element. *)
LEMMA Smallest ==
  ASSUME NEW S, S \subseteq Nat, S # {}
  PROVE  \E i \in S : \A j \in S : i <= j
<1> DEFINE R == OpToRel(<, Nat)
<1>1. PICK i \in S : \A j \in S : ~ (<<j, i>> \in R)
  <2> HIDE DEF R
  <2>1. IsWellFoundedOn(R, Nat)
    BY NatLessThanWellFounded DEF R
  <2> QED BY <2>1, WFMin
<1>2. \A j \in S : ~ (j < i)
  BY <1>1 DEF OpToRel
<1> QED BY <1>2

(* A nonempty set of places of a log has a greatest element: the row that  *)
(* ORDER BY rowid DESC LIMIT 1 returns.                                    *)
LEMMA Greatest ==
  ASSUME NEW n \in Nat, NEW S, S \subseteq 1 .. n, S # {}
  PROVE  \E i \in S : \A j \in S : j <= i
<1> DEFINE T == {k \in Nat : n - k \in S}
<1>1. T \subseteq Nat OBVIOUS
<1>2. \A i \in S : i \in Nat /\ n - i \in Nat /\ n - (n - i) = i OBVIOUS
<1>3. T # {} BY <1>2
<1>4. PICK k \in T : \A j \in T : k <= j
  <2> HIDE DEF T
  <2> QED BY <1>1, <1>3, Smallest
<1>5. n - k \in S /\ k \in Nat OBVIOUS
<1>6. \A j \in S : n - j \in T BY <1>2
<1>7. \A j \in S : k <= n - j BY <1>4, <1>6
<1>8. \A j \in S : j <= n - k BY <1>7, <1>5, <1>2
<1> QED BY <1>5, <1>8

(* LatestOf is that row, and 0 when there is none. *)
LEMMA LatestIs ==
  ASSUME NEW n \in Nat, NEW S, S \subseteq 1 .. n
  PROVE  /\ LatestOf(S) \in Nat
         /\ S # {} => IsLatest(LatestOf(S), S)
         /\ LatestOf(S) # 0 => S # {}
<1>1. CASE S = {} BY <1>1 DEF LatestOf
<1>2. CASE S # {}
  <2>1. \E i \in S : \A j \in S : j <= i BY <1>2, Greatest
  <2>2. LatestOf(S) \in S /\ \A j \in S : j <= LatestOf(S)
    BY <1>2, <2>1 DEF LatestOf
  <2>3. LatestOf(S) \in 1 .. n BY <2>2
  <2>4. LatestOf(S) \in Nat BY <2>3
  <2>5. IsLatest(LatestOf(S), S) BY <2>2 DEF IsLatest
  <2> QED BY <2>4, <2>5, <1>2
<1> QED BY <1>1, <1>2

(* A part of a log is a finite set of places. *)
LEMMA UptoFinite ==
  ASSUME NEW n \in Nat, NEW K
  PROVE  /\ IsFiniteSet(Upto(n, K)) /\ Cardinality(Upto(n, K)) \in Nat
         /\ Upto(n, K) \subseteq 1 .. n
<1>1. IsFiniteSet(1 .. n) BY FS_Interval
<1>2. Upto(n, K) \subseteq 1 .. n BY DEF Upto
<1>3. IsFiniteSet(Upto(n, K)) BY <1>1, <1>2, FS_Subset
<1> QED BY <1>2, <1>3, FS_CardinalityType

------------------------------------------------------------------------------
(* The log only grows, and what was true of a prefix stays true. *)

(* append_event's effect on the log. *)
LEMMA AppendGrows ==
  ASSUME TypeOK, NEW e, events' = Append(events, e) \/ events' = events
  PROVE  Grows
<1>1. events \in Seq(Events) /\ Len(events) \in Nat BY DEF TypeOK, Ids
<1>2. CASE events' = Append(events, e) BY <1>1, <1>2 DEF Grows
<1>3. CASE events' = events BY <1>1, <1>3 DEF Grows
<1> QED BY <1>2, <1>3

(* A prefix of the log is what it was. *)
LEMMA PrefixKept ==
  ASSUME TypeOK, Grows, NEW n \in 0 .. Len(events), NEW K, NEW scope
  PROVE  /\ {i \in 1 .. n : events'[i].kind \in K} = Upto(n, K)
         /\ {i \in 1 .. n : events'[i].kind \in Kinds /\ events'[i].scope = scope}
              = DecisionsIn(n, scope)
<1>1. Len(events) \in Nat BY DEF TypeOK, Ids
<1>2. \A i \in 1 .. n : events'[i] = events[i] BY <1>1 DEF Grows
<1> QED BY <1>2 DEF Upto, DecisionsIn

(* What an event says of the log stays true. *)
LEMMA SoundKept ==
  ASSUME TypeOK, Grows, NEW i \in 1 .. Len(events), Sound(i)
  PROVE  Sound(i)'
<1>1. Len(events) \in Nat /\ events[i] \in Events BY DEF TypeOK, Ids
<1>2. events'[i] = events[i] BY DEF Grows
<1>3. DecisionSound(i)'
  <2>1. \A K : /\ {j \in 1 .. i - 1 : events'[j].kind \in K} = Upto(i - 1, K)
               /\ {j \in 1 .. i : events'[j].kind \in K} = Upto(i, K)
    <3>1. i - 1 \in 0 .. Len(events) /\ i \in 0 .. Len(events) BY <1>1
    <3> QED BY <3>1, PrefixKept
  <2> QED BY <1>2, <2>1 DEF Sound, DecisionSound, Opposite, Upto
<1>4. ReadySound(i)'
  <2>1. {j \in 1 .. i - 1 : events'[j].kind \in {"ready"}} = Upto(i - 1, {"ready"})
    <3>1. i - 1 \in 0 .. Len(events) BY <1>1
    <3> QED BY <3>1, PrefixKept
  <2> QED BY <1>2, <2>1 DEF Sound, ReadySound, Upto
<1>5. HandoffSound(i)'
  <2> SUFFICES ASSUME events[i].kind = "handoff" PROVE HandoffSound(i)'
    BY <1>2 DEF HandoffSound
  <2> DEFINE e == events[i]
  <2>1. e.from \in 0 .. Len(events) /\ e.gate \in 1 .. Len(events)
    BY <1>1 DEF Sound, HandoffSound, Events, Ids, Request, Kinds
  <2>2. /\ {j \in 1 .. e.from : events'[j].kind \in {"ready"}} = Upto(e.from, {"ready"})
        /\ {j \in 1 .. e.from : events'[j].kind \in Kinds /\ events'[j].scope = e.scope}
             = DecisionsIn(e.from, e.scope)
    BY <2>1, PrefixKept
  <2>3. events'[e.gate] = events[e.gate] BY <2>1 DEF Grows
  <2> QED
    BY <1>2, <2>2, <2>3
    DEF Sound, HandoffSound, IsLatest, Upto, DecisionsIn
<1> QED BY <1>3, <1>4, <1>5 DEF Sound

(* What a command knows stays true while others append. *)
LEMMA ReadKept ==
  ASSUME TypeOK, Grows, Len(events') \in Nat, NEW c \in Commands,
         DecisionRead(c), GateRead(c), PlanRead(c)
  PROVE  DecisionRead(c)' /\ GateRead(c)' /\ PlanRead(c)'
<1>1. Len(events) \in Nat BY DEF TypeOK, Ids
<1>2. DecisionRead(c)'
  <2> SUFFICES ASSUME c.op \in Kinds PROVE DecisionRead(c)'
    BY DEF DecisionRead
  <2>1. c.plan \in 1 .. Len(events) /\ events[c.plan].kind = "ready" /\ c.count \in Nat
    BY <1>1 DEF DecisionRead, Upto, Commands, Kinds, Idle
  <2>2. c.plan \in 1 .. Len(events') /\ events'[c.plan].kind = "ready"
    BY <2>1, <1>1 DEF Grows
  <2> DEFINE K == {Opposite(c.op)}
             P == {j \in 1 .. Len(events) : events'[j].kind \in K}
             Q == {j \in 1 .. Len(events') : events'[j].kind \in K}
  <2>3. P = Upto(Len(events), K) BY <1>1, PrefixKept
  <2>4. P \subseteq Q BY <1>1 DEF Grows
  <2>5. IsFiniteSet(Q)
    <3>1. IsFiniteSet(1 .. Len(events')) BY FS_Interval
    <3>2. Q \subseteq 1 .. Len(events') OBVIOUS
    <3> QED BY <3>1, <3>2, FS_Subset
  <2>6. Cardinality(P) <= Cardinality(Q) /\ Cardinality(P) \in Nat /\ Cardinality(Q) \in Nat
    BY <2>4, <2>5, FS_Subset, FS_CardinalityType
  <2>7. c.count <= Cardinality(P) BY <2>3 DEF DecisionRead, _gate_counter
  <2>8. c.last <= Len(events')
    BY <1>1 DEF DecisionRead, Commands, Kinds, Idle, Ids, Grows
  <2> QED BY <2>1, <2>2, <2>6, <2>7, <2>8 DEF DecisionRead, _gate_counter, Upto, Opposite
<1>3. GateRead(c)' /\ PlanRead(c)'
  <2> SUFFICES ASSUME c.op \in {"gate", "plan"} PROVE GateRead(c)' /\ PlanRead(c)'
    BY DEF GateRead, PlanRead
  <2>1. c.from \in 0 .. Len(events) /\ c.gate \in 1 .. c.from
    BY <1>1 DEF GateRead, IsLatest, DecisionsIn, Upto, Commands, Kinds, Idle, Ids
  <2>2. /\ {j \in 1 .. c.from : events'[j].kind \in {"ready"}} = Upto(c.from, {"ready"})
        /\ {j \in 1 .. c.from : events'[j].kind \in Kinds /\ events'[j].scope = c.scope}
             = DecisionsIn(c.from, c.scope)
    BY <2>1, PrefixKept
  <2>3. events'[c.gate] = events[c.gate] BY <2>1 DEF Grows
  <2>4. c.from <= Len(events') BY <2>1, <1>1 DEF Grows
  <2>5. GateRead(c)'
    BY <2>2, <2>3, <2>4 DEF GateRead, IsLatest, Upto, DecisionsIn
  <2>6. PlanRead(c)'
    BY <2>2, <2>3 DEF PlanRead, IsLatest, Upto
  <2> QED BY <2>5, <2>6
<1> QED BY <1>2, <1>3

LEMMA KnownKept ==
  ASSUME TypeOK, Grows, Len(events') \in Nat,
         NEW s \in Shells, cmd'[s] = cmd[s], Known(s)
  PROVE  Known(s)'
<1>1. PICK c \in Commands : c = cmd[s] BY DEF TypeOK
<1>2. DecisionRead(c) /\ GateRead(c) /\ PlanRead(c) BY <1>1 DEF Known
<1>3. DecisionRead(c)' /\ GateRead(c)' /\ PlanRead(c)' BY <1>2, ReadKept
<1> QED BY <1>1, <1>3 DEF Known

(* A step that keeps the types, lets the log grow, and leaves every other  *)
(* command alone keeps the invariant if what it adds is sound.             *)
LEMMA StepKeeps ==
  ASSUME IInv, TypeOK', Grows,
         \A s \in Shells : cmd'[s] = cmd[s] \/ Known(s)',
         \A i \in Len(events) + 1 .. Len(events') : Sound(i)'
  PROVE  IInv'
<1>1. TypeOK /\ Len(events) \in Ids /\ Len(events') \in Nat BY DEF IInv, TypeOK, Ids
<1>2. events'[1].kind = "ready" BY <1>1 DEF IInv, Grows, Ids
<1>3. ASSUME NEW i \in 1 .. Len(events') PROVE Sound(i)'
  <2>1. CASE i \in 1 .. Len(events)
    <3>1. Sound(i) BY <2>1 DEF IInv
    <3> QED BY <2>1, <3>1, <1>1, SoundKept
  <2>2. CASE i \in Len(events) + 1 .. Len(events') BY <2>2
  <2> QED BY <1>1, <2>1, <2>2 DEF Ids
<1>4. ASSUME NEW s \in Shells PROVE Known(s)'
  <2>1. CASE cmd'[s] = cmd[s]
    <3>1. Known(s) BY DEF IInv
    <3> QED BY <2>1, <3>1, <1>1, KnownKept
  <2> QED BY <2>1
<1> QED BY <1>1, <1>2, <1>3, <1>4 DEF IInv

(* The latest plan.ready exists: the first event is one. *)
LEMMA LatestReady ==
  ASSUME IInv
  PROVE  /\ IsLatest(_latest_plan_ready, Upto(Len(events), {"ready"}))
         /\ _latest_plan_ready \in 1 .. Len(events)
<1> DEFINE S == Upto(Len(events), {"ready"})
<1>1. Len(events) \in Nat /\ Len(events) # 0 BY DEF IInv, TypeOK, Ids
<1>2. 1 \in S BY <1>1 DEF IInv, Upto
<1>3. S \subseteq 1 .. Len(events) BY <1>1, UptoFinite
<1>4. IsLatest(LatestOf(S), S) BY <1>1, <1>2, <1>3, LatestIs
<1>5. _latest_plan_ready = LatestOf(S) BY DEF _latest_plan_ready
<1> QED BY <1>3, <1>4, <1>5 DEF IsLatest

(* How many events of a kind there are. *)
LEMMA CounterIs ==
  ASSUME IInv, NEW kind
  PROVE  _gate_counter(kind) \in Nat
<1>1. Len(events) \in Nat BY DEF IInv, TypeOK, Ids
<1> QED BY <1>1, UptoFinite DEF _gate_counter

------------------------------------------------------------------------------
(* One lemma per operation. *)

(* Readings and what leaves the log alone. *)
LEMMA QuietKeeps ==
  ASSUME IInv, UNCHANGED events, TypeOK', \A s \in Shells : cmd'[s] = cmd[s] \/ Known(s)'
  PROVE  IInv'
<1>1. Grows BY AppendGrows DEF IInv
<1>2. Len(events) \in Nat BY DEF IInv, TypeOK, Ids
<1>3. \A i \in Len(events) + 1 .. Len(events') : Sound(i)' BY <1>2
<1> QED BY <1>1, <1>3, StepKeeps

(* append_event with a sound event. *)
LEMMA AppendKeeps ==
  ASSUME IInv, NEW e \in Events, events' = Append(events, e), TypeOK',
         \A s \in Shells : cmd'[s] = cmd[s] \/ Known(s)',
         NEW n, n = Len(events) + 1, Sound(n)'
  PROVE  IInv'
<1>1. events \in Seq(Events) /\ Len(events) \in Nat BY DEF IInv, TypeOK, Ids
<1>2. Len(events') = Len(events) + 1 BY <1>1
<1>3. Grows BY AppendGrows DEF IInv
<1>4. \A i \in Len(events) + 1 .. Len(events') : Sound(i)' BY <1>1, <1>2
<1> QED BY <1>3, <1>4, StepKeeps

(* The editor changes the document and nothing else. *)
LEMMA EditKeeps == ASSUME IInv, EditPlan PROVE IInv'
<1>1. UNCHANGED <<events, last, cmd>> /\ TypeOK'
  BY PlanGateAssumption DEF IInv, TypeOK, EditPlan, Spend, Budget
<1> QED BY <1>1, QuietKeeps

(* What Begin and Resume leave in a shell. *)
LEMMA RunIs ==
  ASSUME TypeOK, NEW s \in Shells, NEW op, NEW c \in Commands, Run(s, op, c)
  PROVE  /\ cmd' \in [Shells -> Commands] /\ cmd'[s] = c
         /\ \A t \in Shells \ {s} : cmd'[t] = cmd[t]
BY DEF TypeOK, Run

(* A command's budget stays a budget. *)
LEMMA SpendIs ==
  ASSUME TypeOK, NEW kind \in {"edit", "revise", "decide", "handoff", "brief"}, Spend(kind)
  PROVE  left' \in Budget
BY DEF TypeOK, Spend, Budget

(* A shell begins a command with what it reads, and the log stays. *)
LEMMA BeginKeeps ==
  ASSUME IInv, NEW s \in Shells, NEW c \in Commands,
         NEW kind \in {"edit", "revise", "decide", "handoff", "brief"},
         Begin(s, kind, c), UNCHANGED <<events, doc, last>>,
         DecisionRead(c), GateRead(c), PlanRead(c)
  PROVE  IInv'
<1>1. TypeOK /\ Run(s, "idle", c) /\ Spend(kind) BY DEF IInv, Begin
<1>2. TypeOK' BY <1>1, RunIs, SpendIs DEF TypeOK
<1>3. cmd'[s] = c /\ \A t \in Shells \ {s} : cmd'[t] = cmd[t] BY <1>1, RunIs
<1>4. DecisionRead(c)' = DecisionRead(c) /\ GateRead(c)' = GateRead(c) /\ PlanRead(c)' = PlanRead(c)
  BY DEF DecisionRead, GateRead, PlanRead, _gate_counter, Upto, DecisionsIn, IsLatest
<1>5. Known(s)' BY <1>3, <1>4 DEF Known
<1> QED BY <1>2, <1>3, <1>5, QuietKeeps

(* The readings of reviewers, authors and shells. *)
LEMMA ReadsKeep ==
  ASSUME IInv, NEW s \in Shells,
         ReviseRead(s) \/ ApproveRead(s) \/ RejectRead(s) \/ HandoffGate(s) \/ BriefRead(s)
  PROVE  IInv'
<1> USE DEF DecisionRead, GateRead, PlanRead, Kinds
<1>1. /\ _latest_plan_ready \in Ids
      /\ _latest_plan_ready \in Upto(Len(events), {"ready"})
      /\ last \in Ids /\ last <= Len(events) /\ doc \in Plans /\ Len(events) \in Ids
  BY LatestReady DEF IInv, TypeOK, Ids, IsLatest
<1>2. CASE ReviseRead(s)
  <2> DEFINE c == [op |-> "revise", plan |-> doc]
  <2>1. c \in Commands BY <1>1 DEF Commands
  <2>2. DecisionRead(c) /\ GateRead(c) /\ PlanRead(c) OBVIOUS
  <2> QED BY <1>2, <2>1, <2>2, BeginKeeps DEF ReviseRead
<1>3. CASE ApproveRead(s) \/ RejectRead(s)
  <2>1. PICK kind \in Kinds, scope \in Scopes : DecideRead(s, kind, scope)
    BY <1>3 DEF ApproveRead, RejectRead
  <2> DEFINE n == _gate_counter(Opposite(kind))
             c == [op |-> kind, scope |-> scope, plan |-> _latest_plan_ready,
                   count |-> n, last |-> last]
  <2>2. n \in Nat BY CounterIs
  <2>3. c \in Commands BY <1>1, <2>2 DEF Commands
  <2>4. DecisionRead(c) BY <1>1, <2>2
  <2>5. GateRead(c) /\ PlanRead(c) OBVIOUS
  <2> QED BY <2>1, <2>3, <2>4, <2>5, BeginKeeps DEF DecideRead
<1>4. CASE HandoffGate(s)
  <2> DEFINE gate(scope) == LatestOf(DecisionsIn(Len(events), scope))
             c(scope) == [op |-> "gate", scope |-> scope, gate |-> gate(scope),
                          from |-> Len(events)]
  <2>1. PICK scope \in Scopes :
          /\ Approved(gate(scope)) /\ Begin(s, "handoff", c(scope))
          /\ UNCHANGED <<events, doc, last>>
    BY <1>4 DEF HandoffGate
  <2>2. DecisionsIn(Len(events), scope) \subseteq 1 .. Len(events)
    BY DEF DecisionsIn, Upto
  <2>3. /\ IsLatest(gate(scope), DecisionsIn(Len(events), scope))
        /\ events[gate(scope)].kind = "approved"
    BY <1>1, <2>1, <2>2, LatestIs DEF Approved, Ids
  <2>4. gate(scope) \in Ids BY <2>2, <2>3 DEF IsLatest, Ids
  <2>5. c(scope) \in Commands BY <1>1, <2>4 DEF Commands
  <2>6. GateRead(c(scope)) BY <1>1, <2>3 DEF Ids
  <2>7. DecisionRead(c(scope)) /\ PlanRead(c(scope)) OBVIOUS
  <2> QED BY <2>1, <2>5, <2>6, <2>7, BeginKeeps
<1>5. CASE BriefRead(s)
  <2> DEFINE c == [op |-> "brief", plan |-> _latest_plan_ready]
  <2>1. c \in Commands BY <1>1 DEF Commands
  <2>2. DecisionRead(c) /\ GateRead(c) /\ PlanRead(c) OBVIOUS
  <2> QED BY <1>5, <2>1, <2>2, BeginKeeps DEF BriefRead
<1> QED BY <1>2, <1>3, <1>4, <1>5

(* A command ends, with or without a sound event. *)
LEMMA EndKeeps ==
  ASSUME IInv, NEW s \in Shells, NEW op, Run(s, op, Idle), left' \in Budget, doc' = doc,
         NEW e \in Events,
         \/ events' = events
         \/ /\ events' = Append(events, e)
            /\ \A n : n = Len(events) + 1 => Sound(n)',
         last' \in DOMAIN events'
  PROVE  IInv'
<1>1. TypeOK /\ Idle \in Commands BY DEF IInv, Commands
<1>2. cmd' \in [Shells -> Commands] /\ cmd'[s] = Idle /\ \A t \in Shells \ {s} : cmd'[t] = cmd[t]
  BY <1>1, RunIs
<1>3. events' \in Seq(Events) /\ Len(events') \in Ids BY <1>1 DEF TypeOK, Ids
<1>4. TypeOK' BY <1>1, <1>2, <1>3 DEF TypeOK
<1>5. Known(s)' BY <1>2 DEF Known, DecisionRead, GateRead, PlanRead, Idle, Kinds
<1>6. CASE events' = events BY <1>2, <1>4, <1>5, <1>6, QuietKeeps
<1>7. CASE events' = Append(events, e) /\ \A n : n = Len(events) + 1 => Sound(n)'
  BY <1>2, <1>4, <1>5, <1>7, AppendKeeps
<1> QED BY <1>6, <1>7

(* A revision registers a plan, or repeats a registration. *)
LEMMA ReviseKeeps == ASSUME IInv, NEW s \in Shells, ReviseWrite(s) PROVE IInv'
<1> DEFINE plan == cmd[s].plan
           new == Ready(plan, Supersedes(plan))
           R == Registered(plan)
<1>1. /\ Run(s, "revise", Idle) /\ left' = left /\ doc' = doc
      /\ cmd[s] \in Commands /\ cmd[s].op = "revise"
      /\ left \in Budget /\ Len(events) \in Ids /\ last \in 1 .. Len(events)
      /\ events \in Seq(Events)
  BY DEF IInv, TypeOK, ReviseWrite, Resume, Run, Ids
<1>2. plan \in Plans BY <1>1 DEF Commands, Kinds, Idle
<1>3. R \subseteq 1 .. Len(events) /\ Upto(Len(events), {"ready"}) \ R \subseteq 1 .. Len(events)
  BY DEF Registered, Upto
<1>4. Supersedes(plan) \in Nat BY <1>1, <1>3, LatestIs DEF Supersedes, Ids
<1>5. new \in Events BY <1>2, <1>4 DEF Events, Ready
<1>6. CASE R = {}
  <2>1. events' = Append(events, new) /\ last' = Len(events') BY <1>6 DEF ReviseWrite, Ready
  <2>2. last' \in DOMAIN events' BY <1>1, <2>1 DEF Ids
  <2>3. ASSUME NEW n, n = Len(events) + 1 PROVE Sound(n)'
    <3>1. Grows /\ events'[n] = new /\ n \in Nat /\ n - 1 = Len(events)
      BY <1>1, <2>1, <2>3, AppendGrows DEF IInv, Ids
    <3>2. Supersedes(plan) \in Upto(Len(events), {"ready"})
      <4>1. 1 \in Upto(Len(events), {"ready"}) \ R
        BY <1>1 DEF IInv, Upto, Registered, Ids
      <4> QED BY <1>1, <1>3, <4>1, LatestIs DEF Supersedes, IsLatest, Ids
    <3>3. Upto(Len(events), {"ready"}) = Upto(n - 1, {"ready"})'
      BY <1>1, <3>1 DEF Upto, Grows, Ids
    <3>4. ReadySound(n)' BY <3>1, <3>2, <3>3 DEF ReadySound, Ready
    <3> QED BY <3>1, <3>4 DEF Sound, DecisionSound, HandoffSound, Ready, Kinds
  <2> QED BY <1>1, <1>5, <2>1, <2>2, <2>3, EndKeeps
<1>7. CASE R # {}
  <2>1. events' = events /\ last' \in {LatestOf(R), last}
    BY <1>7 DEF ReviseWrite, Ready
  <2>2. LatestOf(R) \in 1 .. Len(events) BY <1>1, <1>3, <1>7, LatestIs DEF IsLatest, Ids
  <2>3. last' \in DOMAIN events' BY <1>1, <2>1, <2>2
  <2> QED BY <1>1, <1>5, <2>1, <2>3, EndKeeps
<1> QED BY <1>6, <1>7

(* The events of a briefing and of a review request carry no promise. *)
LEMMA PlainKeeps ==
  ASSUME IInv, NEW s \in Shells, NEW op, Run(s, op, Idle), left' \in Budget,
         NEW e \in Events, e.kind \in {"briefing", "request"},
         Append_event(e, Equal(e)), UNCHANGED <<doc, last>>
  PROVE  IInv'
<1>1. events \in Seq(Events) /\ Len(events) \in Ids /\ last \in 1 .. Len(events)
  BY DEF IInv, TypeOK
<1>2. events' = events \/ events' = Append(events, e) BY DEF Append_event
<1>3. last' \in DOMAIN events' BY <1>1, <1>2 DEF Ids
<1>4. ASSUME events' = Append(events, e), NEW n, n = Len(events) + 1 PROVE Sound(n)'
  BY <1>1, <1>4 DEF Sound, ReadySound, DecisionSound, HandoffSound, Kinds, Ids
<1> QED BY <1>2, <1>3, <1>4, EndKeeps

LEMMA BriefKeeps ==
  ASSUME IInv, NEW s \in Shells, RequestReview(s) \/ BriefWrite(s) PROVE IInv'
<1>1. CASE RequestReview(s)
  <2>1. Request \in Events /\ Request.kind = "request" BY DEF Events, Request
  <2>2. Run(s, "idle", Idle) /\ left' \in Budget
    BY <1>1, SpendIs DEF RequestReview, Begin, IInv
  <2> QED BY <1>1, <2>1, <2>2, PlainKeeps DEF RequestReview
<1>2. CASE BriefWrite(s)
  <2> DEFINE e == Briefing(cmd[s].plan)
  <2>1. Run(s, "brief", Idle) /\ left' \in Budget /\ cmd[s] \in Commands /\ cmd[s].op = "brief"
    BY <1>2 DEF BriefWrite, Resume, Run, IInv, TypeOK
  <2>2. e \in Events /\ e.kind = "briefing"
    BY <2>1 DEF Events, Briefing, Commands, Kinds, Idle
  <2> QED BY <1>2, <2>1, <2>2, PlainKeeps DEF BriefWrite
<1> QED BY <1>1, <1>2

(* A command that is refused or killed. *)
LEMMA AbandonKeeps == ASSUME IInv, NEW s \in Shells, Abandon(s) PROVE IInv'
<1>1. Run(s, cmd[s].op, Idle) /\ left' \in Budget /\ last' \in DOMAIN events' /\ Request \in Events
  BY DEF IInv, TypeOK, Abandon, Resume, Events
<1> QED BY <1>1, EndKeeps DEF Abandon

(* A decision is sound: its plan was registered before it, and it counted  *)
(* no more opposite decisions than the log has by now.                     *)
LEMMA DecideKeeps == ASSUME IInv, NEW s \in Shells, DecideWrite(s) PROVE IInv'
<1>1. PICK c \in Commands : c = cmd[s] BY DEF IInv, TypeOK
<1> DEFINE e == Decision(c.op, c.scope, c.plan, c.count)
<1>2. /\ c.op \in Kinds /\ Run(s, c.op, Idle) /\ left' \in Budget
      /\ doc' = doc /\ last' = LastOf(c) /\ Append_event(e, Decided(c))
  BY <1>1 DEF DecideWrite, Resume, IInv, TypeOK
<1>3. /\ events \in Seq(Events) /\ Len(events) \in Ids /\ last \in 1 .. Len(events)
      /\ TypeOK
  BY DEF IInv, TypeOK
<1>4. DecisionRead(c) /\ GateRead(c) /\ PlanRead(c) BY <1>1 DEF IInv, Known
<1>5. e \in Events BY <1>2 DEF Events, Decision, Commands, Kinds, Idle
<1>6. CASE Decided(c) = {}
  <2>1. events' = Append(events, e) BY <1>2, <1>6 DEF Append_event
  <2>2. Grows /\ Len(events') = Len(events) + 1 BY <1>3, <2>1, AppendGrows
  <2>3. last' \in DOMAIN events' BY <1>2, <1>3, <1>6, <2>1 DEF LastOf, Ids
  <2>4. DecisionRead(c)' BY <1>3, <1>4, <2>2, ReadKept DEF Ids
  <2>5. ASSUME NEW n, n = Len(events) + 1 PROVE Sound(n)'
    <3>1. n = Len(events') /\ events'[n] = e /\ n \in Nat BY <1>3, <2>1, <2>2, <2>5 DEF Ids
    <3>2. /\ c.plan \in Upto(Len(events), {"ready"})
          /\ c.plan \in Upto(Len(events), {"ready"})'
          /\ (c.count <= _gate_counter(Opposite(c.op)))'
      BY <1>2, <1>4, <2>4 DEF DecisionRead
    <3>3. c.plan \in 1 .. n - 1 /\ events'[c.plan].kind \in {"ready"}
      BY <1>3, <2>5, <3>2 DEF Upto, Ids
    <3>4. c.count <= Cardinality({j \in 1 .. n : events'[j].kind \in {Opposite(c.op)}})
      BY <3>1, <3>2 DEF _gate_counter, Upto, Opposite
    <3>5. events'[n].kind = c.op /\ events'[n].plan = c.plan /\ events'[n].count = c.count
      BY <3>1 DEF Decision
    <3>6. c.plan \in {j \in 1 .. n - 1 : events'[j].kind \in {"ready"}} BY <3>3
    <3>7. DecisionSound(n)'
      BY <3>4, <3>5, <3>6 DEF DecisionSound, Upto, Opposite
    <3> QED BY <1>2, <3>5, <3>7 DEF Sound, ReadySound, HandoffSound, Kinds
  <2> QED BY <1>2, <1>5, <2>1, <2>3, <2>5, EndKeeps
<1>7. CASE Decided(c) # {}
  <2>1. events' = events /\ last' = c.last BY <1>2, <1>7 DEF Append_event, LastOf
  <2>2. c.last \in 1 .. Len(events)
    BY <1>2, <1>3, <1>4 DEF DecisionRead, Commands, Kinds, Idle, Ids
  <2>3. last' \in DOMAIN events' BY <1>3, <2>1, <2>2
  <2> QED BY <1>2, <1>5, <2>1, <2>3, EndKeeps
<1> QED BY <1>6, <1>7

(* The plan of the gate is the latest now, and it was there before the     *)
(* gate, so it was the latest when the gate was read.                      *)
LEMMA PlanKeeps == ASSUME IInv, NEW s \in Shells, HandoffPlan(s) PROVE IInv'
<1>1. PICK c \in Commands : c = cmd[s] BY DEF IInv, TypeOK
<1> DEFINE d == [c EXCEPT !.op = "plan"]
<1>2. /\ c.op = "gate" /\ Run(s, "gate", d) /\ UNCHANGED <<events, doc, last, left>>
      /\ events[c.gate].plan = _latest_plan_ready
  BY <1>1 DEF HandoffPlan, Resume, Run, PlanIsApproved
<1>3. TypeOK /\ Len(events) \in Nat BY DEF IInv, TypeOK, Ids
<1>4. /\ d \in Commands /\ d.op = "plan" /\ d.gate = c.gate /\ d.from = c.from
      /\ d.scope = c.scope /\ c.from \in Ids
  BY <1>2 DEF Commands, Kinds, Idle
<1>5. TypeOK' BY <1>2, <1>3, <1>4, RunIs DEF TypeOK
<1>6. cmd'[s] = d /\ \A t \in Shells \ {s} : cmd'[t] = cmd[t] BY <1>2, <1>3, <1>4, RunIs
<1>7. /\ c.from <= Len(events) /\ events[c.gate].kind = "approved"
      /\ IsLatest(c.gate, DecisionsIn(c.from, c.scope))
  BY <1>1, <1>2 DEF IInv, Known, GateRead
<1>8. c.gate \in 1 .. c.from /\ c.gate \in 1 .. Len(events)
  BY <1>3, <1>4, <1>7 DEF IsLatest, DecisionsIn, Upto, Ids
<1>9. IsLatest(events[c.gate].plan, Upto(c.from, {"ready"}))
  <2>1. Sound(c.gate) BY <1>8 DEF IInv
  <2>2. events[c.gate].plan \in Upto(c.gate - 1, {"ready"})
    BY <1>7, <2>1 DEF Sound, DecisionSound, Kinds
  <2>3. IsLatest(_latest_plan_ready, Upto(Len(events), {"ready"})) BY LatestReady
  <2> QED BY <1>2, <1>3, <1>4, <1>7, <1>8, <2>2, <2>3 DEF IsLatest, Upto, Ids
<1>10. DecisionRead(d)' /\ GateRead(d)' /\ PlanRead(d)'
  BY <1>2, <1>4, <1>7, <1>9
  DEF DecisionRead, GateRead, PlanRead, Kinds, IsLatest, Upto, DecisionsIn
<1>11. Known(s)' BY <1>6, <1>10 DEF Known
<1> QED BY <1>2, <1>5, <1>6, <1>11, QuietKeeps

(* A handoff takes its gate and its plan from the readings. *)
LEMMA HandoffKeeps == ASSUME IInv, NEW s \in Shells, HandoffWrite(s) PROVE IInv'
<1>1. PICK c \in Commands : c = cmd[s] BY DEF IInv, TypeOK
<1>2. PICK p : p = events[c.gate].plan OBVIOUS
<1> DEFINE e == Handoff(c.scope, c.gate, p, c.from)
<1>3. /\ c.op = "plan" /\ Run(s, "plan", Idle) /\ left' \in Budget
      /\ UNCHANGED <<doc, last>> /\ (events' = Append(events, e) \/ events' = events)
  BY <1>1, <1>2 DEF HandoffWrite, Resume, Run, Append_event, IInv, TypeOK
<1>4. /\ events \in Seq(Events) /\ Len(events) \in Nat /\ last \in 1 .. Len(events)
      /\ TypeOK
  BY DEF IInv, TypeOK, Ids
<1>5. DecisionRead(c) /\ GateRead(c) /\ PlanRead(c) BY <1>1 DEF IInv, Known
<1>6. c.from \in Ids /\ c.gate \in Ids /\ c.scope \in Scopes
  BY <1>3 DEF Commands, Kinds, Idle
<1>7. p \in Ids BY <1>2, <1>3, <1>5 DEF PlanRead, IsLatest, Upto, Ids
<1>8. e \in Events
  <2>1. e \in [kind : {"handoff"}, scope : Scopes, gate : Ids, plan : Ids, from : Nat]
    BY <1>6, <1>7 DEF Handoff, Ids
  <2> QED BY <2>1 DEF Events
<1>9. last' \in DOMAIN events' BY <1>3, <1>4
<1>10. ASSUME events' = Append(events, e), NEW n, n = Len(events) + 1 PROVE Sound(n)'
  <2>1. Grows /\ Len(events') = n /\ events'[n] = e /\ n \in Nat
    BY <1>4, <1>10, AppendGrows
  <2>2. GateRead(c)' /\ PlanRead(c)' BY <1>4, <1>5, <2>1, ReadKept
  <2>3. c.gate \in 1 .. Len(events) /\ c.gate <= c.from /\ c.from <= Len(events)
    BY <1>3, <1>4, <1>5, <1>6 DEF GateRead, IsLatest, DecisionsIn, Upto, Ids
  <2>4. events'[c.gate].plan = p BY <1>2, <2>1, <2>3 DEF Grows
  <2>5. /\ events'[c.gate].kind = "approved" /\ IsLatest(p, Upto(c.from, {"ready"}))'
        /\ IsLatest(c.gate, DecisionsIn(c.from, c.scope))'
    BY <1>3, <2>2, <2>4 DEF GateRead, PlanRead, IsLatest, Upto, DecisionsIn
  <2>6. /\ e.kind = "handoff" /\ e.gate = c.gate /\ e.plan = p /\ e.from = c.from
        /\ e.scope = c.scope
    BY DEF Handoff
  <2>7. c.from < n BY <1>4, <1>6, <1>10, <2>3 DEF Ids
  <2>8. HandoffSound(n)'
    BY <2>1, <2>3, <2>4, <2>5, <2>6, <2>7 DEF HandoffSound, IsLatest, Upto, DecisionsIn
  <2> QED BY <2>1, <2>6, <2>8 DEF Sound, ReadySound, DecisionSound, Kinds
<1> QED BY <1>3, <1>8, <1>9, <1>10, EndKeeps

------------------------------------------------------------------------------
(* The theorems. *)

LEMMA InitHolds == Init => IInv
<1> SUFFICES ASSUME Init PROVE IInv OBVIOUS
<1>1. PICK p \in Plans : doc = p /\ events = <<Ready(p, 0)>> BY DEF Init
<1>2. Ready(p, 0) \in Events BY DEF Events, Ready
<1>3. events \in Seq(Events) /\ Len(events) = 1 /\ events[1] = Ready(p, 0) BY <1>1, <1>2
<1>4. TypeOK BY <1>1, <1>3, PlanGateAssumption DEF Init, TypeOK, Ids, Commands
<1>5. \A i \in 1 .. Len(events) : Sound(i)
  BY <1>3 DEF Sound, ReadySound, DecisionSound, HandoffSound, Ready, Kinds
<1>6. \A s \in Shells : Known(s)
  BY DEF Init, Known, DecisionRead, GateRead, PlanRead, Idle, Kinds
<1> QED BY <1>3, <1>4, <1>5, <1>6 DEF IInv, Ready

LEMMA Inductive == IInv /\ [Next]_vars => IInv'
<1> SUFFICES ASSUME IInv, [Next]_vars PROVE IInv' OBVIOUS
<1>1. CASE EditPlan BY <1>1, EditKeeps
<1>2. ASSUME NEW s \in Shells,
             ReviseRead(s) \/ ApproveRead(s) \/ RejectRead(s) \/ HandoffGate(s) \/ BriefRead(s)
      PROVE  IInv'
  BY <1>2, ReadsKeep
<1>3. ASSUME NEW s \in Shells, ReviseWrite(s) PROVE IInv' BY <1>3, ReviseKeeps
<1>4. ASSUME NEW s \in Shells, RequestReview(s) \/ BriefWrite(s) PROVE IInv'
  BY <1>4, BriefKeeps
<1>5. ASSUME NEW s \in Shells, ApproveWrite(s) \/ RejectWrite(s) PROVE IInv'
  BY <1>5, DecideKeeps DEF ApproveWrite, RejectWrite
<1>6. ASSUME NEW s \in Shells, HandoffPlan(s) PROVE IInv' BY <1>6, PlanKeeps
<1>7. ASSUME NEW s \in Shells, HandoffWrite(s) PROVE IInv' BY <1>7, HandoffKeeps
<1>8. ASSUME NEW s \in Shells, Abandon(s) PROVE IInv' BY <1>8, AbandonKeeps
<1>9. CASE UNCHANGED vars
  <2>1. UNCHANGED <<events, doc, last, cmd, left>> BY <1>9 DEF vars
  <2>2. TypeOK' BY <2>1 DEF IInv, TypeOK
  <2> QED BY <2>1, <2>2, QuietKeeps
<1> QED BY <1>1, <1>2, <1>3, <1>4, <1>5, <1>6, <1>7, <1>8, <1>9 DEF Next

LEMMA InvariantHolds == Spec => []IInv
<1>1. Init => IInv BY InitHolds
<1>2. IInv /\ [Next]_vars => IInv' BY Inductive
<1> QED BY <1>1, <1>2, PTL DEF Spec

(* Log, mirror and locals keep their types under every command. *)
THEOREM PlanGateTyped == Spec => []TypeOK
<1>1. IInv => TypeOK BY DEF IInv
<1> QED BY <1>1, InvariantHolds, PTL

(* Every worker handoff was allowed at the reading of its gate, whatever   *)
(* was decided and revised while prepare_handoff ran.                      *)
THEOREM HandoffsAllowed == Spec => []HandoffWasAllowed
<1>1. IInv => HandoffWasAllowed
  <2> SUFFICES ASSUME IInv PROVE HandoffWasAllowed OBVIOUS
  <2>1. \A h \in Upto(Len(events), {"handoff"}) : HandoffSound(h) /\ events[h].kind = "handoff"
    BY DEF IInv, Sound, Upto
  <2> QED BY <2>1 DEF HandoffWasAllowed, HandoffSound
<1> QED BY <1>1, InvariantHolds, PTL

(* A later opposite decision would have been counted. *)
LEMMA CountedWhenLater ==
  ASSUME IInv, NEW i \in 1 .. Len(events), NEW j \in i + 1 .. Len(events), NEW k,
         events[j].kind = k
  PROVE  Cardinality(Upto(i, {k})) < _gate_counter(k)
<1> DEFINE S == Upto(i, {k})
           T == Upto(Len(events), {k})
<1>1. Len(events) \in Nat BY DEF IInv, TypeOK, Ids
<1>2. IsFiniteSet(S) /\ IsFiniteSet(T) /\ Cardinality(S) \in Nat /\ Cardinality(T) \in Nat
  BY <1>1, UptoFinite
<1>3. j \notin S /\ S \cup {j} \subseteq T BY <1>1 DEF Upto
<1>4. IsFiniteSet(S \cup {j}) /\ Cardinality(S \cup {j}) = Cardinality(S) + 1
  BY <1>2, <1>3, FS_AddElement
<1>5. Cardinality(S \cup {j}) <= Cardinality(T) BY <1>2, <1>3, FS_Subset
<1> QED BY <1>2, <1>4, <1>5 DEF _gate_counter

(* A decision that nobody crossed stands as the latest of its scope, also  *)
(* when its key is taken and an old event is returned for it.              *)
THEOREM DecisionsHold == Spec => DecisionHolds
<1> DEFINE Stands(s) ==
      \E i \in DOMAIN events' :
         /\ events'[i].kind = cmd[s].op /\ events'[i].scope = cmd[s].scope
         /\ \A j \in DOMAIN events' : j > i =>
              ~ (events'[j].kind = Opposite(cmd[s].op) /\ events'[j].scope = cmd[s].scope)
<1>1. ASSUME IInv, NEW s \in Shells, DecideWrite(s),
             cmd[s].count = _gate_counter(Opposite(cmd[s].op))
      PROVE  Stands(s)
  <2>1. PICK c : c = cmd[s] OBVIOUS
  <2> DEFINE e == Decision(c.op, c.scope, c.plan, c.count)
  <2>2. c.op \in Kinds /\ Append_event(e, Decided(c)) BY <1>1, <2>1 DEF DecideWrite
  <2>3. events \in Seq(Events) /\ Len(events) \in Nat BY <1>1 DEF IInv, TypeOK, Ids
  <2>4. CASE Decided(c) = {}
    <3> DEFINE n == Len(events) + 1
    <3>1. events' = Append(events, e) BY <2>2, <2>4 DEF Append_event
    <3>2. DOMAIN events' = 1 .. n /\ events'[n] = e BY <2>3, <3>1
    <3>3. e.kind = c.op /\ e.scope = c.scope BY DEF Decision
    <3>4. n \in DOMAIN events' /\ \A j \in DOMAIN events' : ~ (j > n) BY <2>3, <3>2
    <3> QED BY <2>1, <3>2, <3>3, <3>4
  <2>5. CASE Decided(c) # {}
    <3>1. events' = events BY <2>2, <2>5 DEF Append_event
    <3>2. PICK i \in 1 .. Len(events) :
            events[i].kind = c.op /\ events[i].scope = c.scope /\ events[i].count = c.count
      BY <2>2, <2>3, <2>5 DEF Decided, SameDecision
    <3>3. c.count <= Cardinality(Upto(i, {Opposite(c.op)}))
      BY <1>1, <2>2, <3>2 DEF IInv, Sound, DecisionSound
    <3>4. Cardinality(Upto(i, {Opposite(c.op)})) \in Nat /\ _gate_counter(Opposite(c.op)) \in Nat
      BY <1>1, UptoFinite, CounterIs
    <3>5. ASSUME NEW j \in 1 .. Len(events), j > i, events[j].kind = Opposite(c.op)
          PROVE  FALSE
      <4>1. j \in i + 1 .. Len(events) BY <3>5
      <4>2. Cardinality(Upto(i, {Opposite(c.op)})) < _gate_counter(Opposite(c.op))
        BY <1>1, <3>5, <4>1, CountedWhenLater
      <4> QED BY <1>1, <2>1, <3>3, <3>4, <4>2
    <3> QED BY <2>1, <2>3, <3>1, <3>2, <3>5
  <2> QED BY <2>4, <2>5
<1>2. IInv => [\A s \in Shells :
                 DecideWrite(s) /\ cmd[s].count = _gate_counter(Opposite(cmd[s].op)) => Stands(s)]_vars
  BY <1>1
<1> HIDE DEF Stands
<1>3. DecisionHolds <=> [][\A s \in Shells :
        DecideWrite(s) /\ cmd[s].count = _gate_counter(Opposite(cmd[s].op)) => Stands(s)]_vars
  BY DEF DecisionHolds, Stands
<1> QED BY <1>2, <1>3, InvariantHolds, PTL

------------------------------------------------------------------------------
(* The chain of supersede links. *)

(* One step of the walk from an event, given where the walk from earlier   *)
(* ones leads.                                                             *)
Body(i, f, target) ==
  IF i = target THEN TRUE
  ELSE IF i \in Upto(Len(events), {"ready"}) /\ events[i].sup < i
       THEN f[events[i].sup] ELSE FALSE
(* f follows the links of a prefix of the log. *)
Walk(f, n, target) == f = [i \in 0 .. n |-> Body(i, f, target)]

(* The links lead to earlier events, so the recursion has a solution: a    *)
(* least prefix without one would have it from the prefix before.          *)
LEMMA WalkExists ==
  ASSUME TypeOK, NEW target
  PROVE  \E f : Walk(f, Len(events), target)
<1> DEFINE N == Len(events)
           S == {n \in 0 .. N : ~ \E f : Walk(f, n, target)}
<1>0. N \in Nat /\ events \in Seq(Events) BY DEF TypeOK, Ids
<1> SUFFICES ASSUME S # {} PROVE FALSE
  BY <1>0
<1>1. PICK n \in S : \A m \in S : n <= m
  <2>1. S \subseteq Nat BY <1>0
  <2> HIDE DEF S
  <2> QED BY <2>1, Smallest
<1>2. n \in 0 .. N /\ ~ \E f : Walk(f, n, target) OBVIOUS
<1>3. CASE n = 0
  <2> DEFINE g == [i \in 0 .. 0 |-> IF i = target THEN TRUE ELSE FALSE]
  <2>1. \A i \in 0 .. 0 : i \notin Upto(N, {"ready"}) BY DEF Upto
  <2>2. Walk(g, 0, target) BY <2>1 DEF Walk, Body
  <2> QED BY <1>2, <1>3, <2>2
<1>4. CASE n # 0
  <2>1. n - 1 \in 0 .. N /\ n - 1 < n BY <1>0, <1>2, <1>4
  <2>2. n - 1 \notin S BY <1>0, <1>1, <1>2, <2>1
  <2>3. PICK f : Walk(f, n - 1, target) BY <2>1, <2>2
  <2> DEFINE g == [i \in 0 .. n |-> IF i = n THEN Body(n, f, target) ELSE f[i]]
  <2>4. ASSUME NEW i \in Upto(N, {"ready"}), events[i].sup < i, i <= n
        PROVE  events[i].sup \in 0 .. n - 1
    BY <1>0, <1>2, <2>4 DEF Upto, Events, Kinds, Request
  <2>5. ASSUME NEW i \in 0 .. n PROVE Body(i, g, target) = Body(i, f, target)
    <3>1. CASE i \in Upto(N, {"ready"}) /\ events[i].sup < i
      <4>1. events[i].sup \in 0 .. n - 1 BY <1>0, <1>2, <2>4, <3>1
      <4>2. events[i].sup \in 0 .. n /\ events[i].sup # n BY <1>0, <1>2, <4>1
      <4>3. g[events[i].sup] = f[events[i].sup] BY <4>2
      <4> HIDE DEF g
      <4> QED BY <4>3 DEF Body
    <3>2. CASE ~ (i \in Upto(N, {"ready"}) /\ events[i].sup < i)
      <4> HIDE DEF g
      <4> QED BY <3>2 DEF Body
    <3> QED BY <3>1, <3>2
  <2>6. \A i \in 0 .. n - 1 : f[i] = Body(i, f, target) BY <2>3 DEF Walk
  <2>7. \A i \in 0 .. n : g[i] = Body(i, g, target)
    BY <1>0, <1>2, <2>5, <2>6
  <2>8. Walk(g, n, target) BY <2>7 DEF Walk
  <2> QED BY <1>2, <2>8
<1> QED BY <1>3, <1>4

(* _supersedes_chain_reaches computes what the recursion says. *)
LEMMA ReachesIs ==
  ASSUME TypeOK, NEW target
  PROVE  \E f : /\ Walk(f, Len(events), target)
                /\ \A cand : Reaches(cand, target) = f[cand]
<1> DEFINE up == CHOOSE f : Walk(f, Len(events), target)
<1>1. Walk(up, Len(events), target) BY WalkExists
<1>2. \A cand : Reaches(cand, target) = up[cand] BY DEF Reaches, Walk, Body
<1> QED BY <1>1, <1>2
(* Every registered plan supersedes, link by link, the first one: the      *)
(* least that did not would have a link to a smaller one.                  *)
LEMMA ReachesFirst ==
  ASSUME IInv, NEW r \in Upto(Len(events), {"ready"})
  PROVE  Reaches(r, 1)
<1>1. PICK f : Walk(f, Len(events), 1) /\ \A cand : Reaches(cand, 1) = f[cand]
  BY ReachesIs DEF IInv
<1> DEFINE S == {i \in Upto(Len(events), {"ready"}) : f[i] # TRUE}
<1> SUFFICES ASSUME S # {} PROVE FALSE BY <1>1
<1>0. Upto(Len(events), {"ready"}) \subseteq Nat
  BY UptoFinite DEF IInv, TypeOK, Ids
<1>2. PICK i \in S : \A j \in S : i <= j
  <2>1. S \subseteq Nat BY <1>0
  <2> HIDE DEF S
  <2> QED BY <2>1, Smallest
<1>3. /\ i \in Upto(Len(events), {"ready"}) /\ i \in 0 .. Len(events) /\ i \in Nat
      /\ Len(events) \in Nat
  BY DEF Upto, IInv, TypeOK, Ids
<1>4. f[i] = Body(i, f, 1) BY <1>1, <1>3 DEF Walk
<1>5. i # 1 BY <1>4 DEF Body
<1>6. /\ events[i].sup \in Upto(Len(events), {"ready"})
      /\ events[i].sup < i /\ events[i].sup \in Nat
  BY <1>3, <1>5 DEF Upto, IInv, Sound, ReadySound
<1>7. f[events[i].sup] = TRUE
  <2>1. ~ (i <= events[i].sup) BY <1>3, <1>6
  <2>2. events[i].sup \notin S BY <1>2, <2>1
  <2> QED BY <1>6, <2>2
<1> QED BY <1>3, <1>4, <1>5, <1>6, <1>7 DEF Body

(* A revision that the gate lets workers have is one that the doctor finds *)
(* approved: plan_gate.py and the doctor's walk along the supersede links  *)
(* agree on every log that the commands can write.                         *)
THEOREM ApprovalsRecognised == Spec => []ApprovedRevisionIsRecognised
<1>1. IInv => ApprovedRevisionIsRecognised
  <2> DEFINE plan == _latest_plan_ready
             gate(scope) == LatestOf(DecisionsIn(Len(events), scope))
  <2> SUFFICES ASSUME IInv, plan # 1, events[plan].plan = doc,
                      \A j \in Upto(Len(events), {"rejected"}) : j < plan,
                      NEW scope \in Scopes,
                      Approved(gate(scope)), PlanIsApproved(gate(scope))
               PROVE  Supersessions # {}
    BY DEF ApprovedRevisionIsRecognised
  <2>1. Len(events) \in Nat BY DEF IInv, TypeOK, Ids
  <2>2. plan \in Upto(Len(events), {"ready"}) /\ plan \in Nat
    BY <2>1, LatestReady DEF IsLatest, Upto
  <2>3. gate(scope) \in 1 .. Len(events)
    <3>1. DecisionsIn(Len(events), scope) \subseteq 1 .. Len(events) BY DEF DecisionsIn, Upto
    <3> QED BY <2>1, <3>1, LatestIs DEF Approved, IsLatest
  <2>4. /\ events[gate(scope)].kind = "approved" /\ events[gate(scope)].plan = plan
    BY DEF Approved, PlanIsApproved
  <2>5. plan \in Upto(gate(scope) - 1, {"ready"})
    BY <2>3, <2>4 DEF IInv, Sound, DecisionSound, Kinds
  <2>6. gate(scope) \in ApprovalsOf(plan)
    BY <2>2, <2>3, <2>4, <2>5 DEF ApprovalsOf, Upto
  <2>7. Reaches(plan, 1) BY <2>2, ReachesFirst
  <2>8. plan \in Supersessions BY <2>2, <2>6, <2>7 DEF Supersessions
  <2> QED BY <2>8
<1> QED BY <1>1, InvariantHolds, PTL

------------------------------------------------------------------------------
(* Transitions *)

Runs == [pc : {"gate", "script", "write", "won", "lost", "sync", "mirror"},
         req : Requests, read : Items \cup {None}, alone : BOOLEAN]

TTyped ==
  /\ item \in Items /\ load \in Load
  /\ shell \in [Callers -> Runs \cup {Vacant}]
  /\ \A s \in Callers : At(s, "write") => shell[s].read \in Items

Running(s, h) == ~At(s, "idle") /\ Hint(shell[s].req) = h
Success(h, op) == \E e \in ledger : e.hint = h /\ e.ok /\ e.op = op

(* Until it is in doubt, a hint has one run at a time, which found no      *)
(* answer when it began, and what it took is recorded by it.               *)
OneRun(h) == \A s, t \in Callers : Running(s, h) /\ Running(t, h) => s = t
FailedForGood(h) ==
  \A e \in ledger : ~e.ok /\ e.hint = h => \A s \in Callers : ~Running(s, h)
NotYetAnswered(h) ==
  \A s \in Callers : Running(s, h) /\ shell[s].pc \in {"gate", "script", "write", "lost"}
    => ~Success(h, shell[s].req.op)
TakenIsRecorded(h) ==
  \A op \in Operations : <<h, op>> \in took =>
    \/ Success(h, op)
    \/ \E s \in Callers : At(s, "won") /\ Running(s, h) /\ shell[s].req.op = op
FailedUntaken(h) ==
  \A e \in ledger : ~e.ok /\ e.hint = h => <<h, e.op>> \notin took
HintInv(h) == /\ OneRun(h) /\ FailedForGood(h) /\ NotYetAnswered(h)
              /\ TakenIsRecorded(h) /\ FailedUntaken(h)

(* What a script that nobody overtook knows of the item. *)
AloneInv(s) ==
  /\ At(s, "gate") => shell[s].alone
  /\ At(s, "script") /\ shell[s].alone /\ Gated(shell[s].req) => GateOpens(item)
  /\ At(s, "write") /\ shell[s].alone =>
       /\ shell[s].read \in Outcome(shell[s].req, item)
       /\ Gated(shell[s].req) => GateOpens(item)
  /\ At(s, "write") => ClosedIsDone(shell[s].read)

TInv ==
  /\ TTyped
  /\ \A h : h \notin doubtful => HintInv(h)
  /\ ClosedIsDone(item)
  /\ \A s \in Callers : AloneInv(s)

LEMMA OutcomeTyped ==
  ASSUME NEW r \in Requests, NEW i \in Items, NEW o \in Outcome(r, i)
  PROVE  /\ o \in Items
         /\ ClosedIsDone(i) => ClosedIsDone(o)
         /\ o.status = "done" /\ i.status # "done" => Gated(r)
<1>1. r.op \in Operations /\ r.who \in Agents
  BY TransitionsAssumption DEF AllRequests
<1>2. ASSUME r.op \in {"accept", "handoff", "blocker", "unblock"}
      PROVE  o \in Items /\ ClosedIsDone(o) /\ o.status # "done"
  <2> USE DEF Items, ClosedIsDone, Statuses, Workflows
  <2>1. CASE r.op = "accept"
    <3>1. o \in Accepted(i, r.who)
      BY <2>1 DEF Outcome
    <3>2. o = [i EXCEPT !.status = "doing", !.wf = "running", !.owner = r.who]
      BY <3>1 DEF Accepted
    <3> QED BY <1>1, <3>2
  <2>2. CASE r.op = "handoff"
    BY <2>2 DEF Outcome, HandedOff
  <2>3. CASE r.op = "blocker"
    BY <2>3 DEF Outcome, Blocked
  <2>4. CASE r.op = "unblock"
    BY <2>4 DEF Outcome, Unblocked
  <2> QED BY <1>2, <2>1, <2>2, <2>3, <2>4
<1>3. ASSUME r.op \in {"closeout", "approve", "reject"}
      PROVE  o \in Items /\ ClosedIsDone(o) /\ o.status = i.status
  BY <1>1, <1>3 DEF Outcome, CloseoutAsked, ReviewPassed, ReviewFailed, Items, ClosedIsDone,
                    Statuses, Workflows
<1>4. ASSUME r.op = "mark-done"
      PROVE  o \in Items /\ (ClosedIsDone(i) => ClosedIsDone(o)) /\ Gated(r)
  BY <1>1, <1>4 DEF Outcome, Closed, Items, ClosedIsDone, Statuses, Workflows, Gated
<1> QED BY <1>1, <1>2, <1>3, <1>4 DEF Operations

LEMMA ShellTyped ==
  ASSUME TTyped, NEW s \in Callers
  PROVE  ~At(s, "idle") => shell[s] \in Runs /\ shell[s].req.op \in Operations
<1>1. shell[s] \in Runs => shell[s].req.op \in Operations
  BY TransitionsAssumption DEF Runs, AllRequests
<1>2. shell[s] \in Runs \cup {Vacant}
  BY DEF TTyped
<1> QED BY <1>1, <1>2 DEF At, Vacant

(* A shell that moves on to another place with what it has. *)
LEMMA GoesTyped ==
  ASSUME TTyped, NEW s \in Callers, ~At(s, "idle"),
         NEW pc \in {"script", "won", "lost", "sync"}, NEW read \in Items \cup {None},
         NEW alone \in BOOLEAN
  PROVE  [shell[s] EXCEPT !.pc = pc, !.read = read, !.alone = alone] \in Runs
BY ShellTyped DEF Runs

(* What the hints see of a step of s: the others stay where they are.      *)
OthersStay(s) ==
  \A t \in Callers \ {s} : shell'[t].pc = shell[t].pc
                        /\ (~At(t, "idle") => shell'[t].req = shell[t].req)
Unasked == {"gate", "script", "write", "lost"}
GoesOn(s) ==
  /\ ~At(s, "idle") /\ shell'[s].pc # "idle" /\ shell'[s].req = shell[s].req
  /\ shell'[s].pc \in Unasked => shell[s].pc \in Unasked

(* The run of a hint ends, unless it holds what is not recorded yet.       *)
LEMMA EndKeepsHint ==
  ASSUME NEW h, HintInv(h), NEW s \in Callers, OthersStay(s), shell'[s].pc = "idle",
         ~ (At(s, "won") /\ Running(s, h)), UNCHANGED <<ledger, took>>
  PROVE  HintInv(h)'
<1>1. \A t \in Callers : Running(t, h)' => t # s /\ Running(t, h) /\ shell'[t].pc = shell[t].pc
                                         /\ shell'[t].req = shell[t].req
  BY DEF OthersStay, Running, At
<1>2. \A t \in Callers : At(t, "won") /\ Running(t, h) =>
        Running(t, h)' /\ At(t, "won")' /\ shell'[t].req = shell[t].req
  BY DEF OthersStay, Running, At
<1>3. \A op : Success(h, op)' <=> Success(h, op)
  BY DEF Success
<1>4. OneRun(h)' /\ FailedForGood(h)' /\ FailedUntaken(h)'
  BY <1>1 DEF HintInv, OneRun, FailedForGood, FailedUntaken
<1>5. NotYetAnswered(h)'
  BY <1>1, <1>3 DEF HintInv, NotYetAnswered
<1>6. TakenIsRecorded(h)'
  BY <1>2, <1>3 DEF HintInv, TakenIsRecorded
<1> QED BY <1>4, <1>5, <1>6 DEF HintInv

(* The run of a hint goes on, and writes nothing that a hint reads.        *)
LEMMA GoKeepsHint ==
  ASSUME NEW h, HintInv(h), NEW s \in Callers, OthersStay(s), GoesOn(s),
         ~At(s, "won"), UNCHANGED <<ledger, took>>
  PROVE  HintInv(h)'
<1>1. \A t \in Callers : Running(t, h)' => Running(t, h) /\ shell'[t].req = shell[t].req
                           /\ (shell'[t].pc \in Unasked => shell[t].pc \in Unasked)
  BY DEF OthersStay, GoesOn, Running, At
<1>2. \A t \in Callers : At(t, "won") /\ Running(t, h) =>
        Running(t, h)' /\ At(t, "won")' /\ shell'[t].req = shell[t].req
  BY DEF OthersStay, Running, At
<1>3. \A op : Success(h, op)' <=> Success(h, op)
  BY DEF Success
<1>4. OneRun(h)' /\ FailedForGood(h)' /\ FailedUntaken(h)'
  BY <1>1 DEF HintInv, OneRun, FailedForGood, FailedUntaken
<1>5. NotYetAnswered(h)'
  BY <1>1, <1>3 DEF HintInv, NotYetAnswered, Unasked
<1>6. TakenIsRecorded(h)'
  BY <1>2, <1>3 DEF HintInv, TakenIsRecorded
<1> QED BY <1>4, <1>5, <1>6 DEF HintInv

(* A script changes the item: its run is the only one of its hint.         *)
LEMMA WriteKeepsHint ==
  ASSUME NEW h, HintInv(h), NEW s \in Callers, OthersStay(s), GoesOn(s), At(s, "write"),
         Running(s, h) => shell'[s].pc = "won", ledger' = ledger,
         took' = took \cup {<<Hint(shell[s].req), shell[s].req.op>>}
  PROVE  HintInv(h)'
<1>1. \A t \in Callers : Running(t, h)' => Running(t, h) /\ shell'[t].req = shell[t].req
                           /\ (shell'[t].pc \in Unasked => shell[t].pc \in Unasked)
  BY DEF OthersStay, GoesOn, Running, At
<1>2. \A t \in Callers : At(t, "won") /\ Running(t, h) =>
        Running(t, h)' /\ At(t, "won")' /\ shell'[t].req = shell[t].req
  BY DEF OthersStay, Running, At
<1>3. \A op : Success(h, op)' <=> Success(h, op)
  BY DEF Success
<1>4. OneRun(h)' /\ FailedForGood(h)'
  BY <1>1 DEF HintInv, OneRun, FailedForGood
<1>5. NotYetAnswered(h)'
  BY <1>1, <1>3 DEF HintInv, NotYetAnswered, Unasked
<1>6. \A op : <<h, op>> \in took' =>
        <<h, op>> \in took \/ (Running(s, h) /\ shell[s].req.op = op)
  BY DEF Running, At
<1>7. FailedUntaken(h)'
  BY <1>6 DEF HintInv, FailedUntaken, FailedForGood
<1>8. TakenIsRecorded(h)'
  <2> SUFFICES ASSUME NEW op \in Operations, <<h, op>> \in took'
               PROVE  \/ Success(h, op)
                      \/ \E t \in Callers : At(t, "won")' /\ Running(t, h)' /\ shell'[t].req.op = op
    BY <1>3 DEF TakenIsRecorded, At
  <2>1. CASE <<h, op>> \in took
    BY <1>2, <2>1 DEF HintInv, TakenIsRecorded
  <2>2. CASE Running(s, h) /\ shell[s].req.op = op
    BY <2>2 DEF GoesOn, Running, At
  <2> QED BY <1>6, <2>1, <2>2
<1> QED BY <1>4, <1>5, <1>7, <1>8 DEF HintInv

(* A command begins: nobody runs its hint, and no answer stood in its way. *)
LEMMA AskKeepsHint ==
  ASSUME NEW h, HintInv(h), NEW s \in Callers, NEW r \in Requests, Ask(s, r),
         h \notin doubtful', shell \in [Callers -> Runs \cup {Vacant}]
  PROVE  HintInv(h)'
<1>1. /\ At(s, "idle") /\ ~Answered(r) /\ UNCHANGED <<ledger, took>>
      /\ \A t \in Callers \ {s} : shell'[t] = shell[t]
      /\ shell'[s].pc \in {"gate", "script"} /\ shell'[s].req = r
  BY DEF Ask, Goto
<1>2. Hint(r) = h => \A t \in Callers : ~Running(t, h)
  BY DEF Ask, Running
<1>3. \A t \in Callers : t # s => (Running(t, h)' <=> Running(t, h))
  BY <1>1 DEF Running, At
<1>4. ~Running(s, h) /\ (Running(s, h)' => Hint(r) = h)
  BY <1>1 DEF Running, At
<1>5. \A op : Success(h, op)' <=> Success(h, op)
  BY <1>1 DEF Success
<1>6. OneRun(h)'
  BY <1>2, <1>3, <1>4 DEF HintInv, OneRun
<1>7. FailedForGood(h)' /\ FailedUntaken(h)'
  BY <1>1, <1>3, <1>4 DEF HintInv, FailedForGood, FailedUntaken, Answered
<1>8. NotYetAnswered(h)'
  <2> SUFFICES ASSUME NEW t \in Callers, Running(t, h)', shell'[t].pc \in Unasked,
                      Success(h, shell'[t].req.op)
               PROVE  FALSE
    BY <1>5 DEF NotYetAnswered, Unasked
  <2>1. CASE t = s
    BY <1>1, <1>4, <2>1 DEF Answered, Success
  <2>2. CASE t # s
    BY <1>1, <1>3, <2>2 DEF HintInv, NotYetAnswered, Unasked
  <2> QED BY <2>1, <2>2
<1>9. TakenIsRecorded(h)'
  BY <1>1, <1>3, <1>4, <1>5 DEF HintInv, TakenIsRecorded, At
<1> QED BY <1>6, <1>7, <1>8, <1>9 DEF HintInv

(* The command records what its script said.                               *)
LEMMA RecordKeepsHint ==
  ASSUME NEW h, HintInv(h), NEW s \in Callers, Record(s),
         shell \in [Callers -> Runs \cup {Vacant}], shell[s].req.op \in Operations
  PROVE  HintInv(h)'
<1> DEFINE new(ok) == [hint |-> Hint(shell[s].req), op |-> shell[s].req.op, ok |-> ok]
<1>1. PICK ok \in BOOLEAN :
        /\ At(s, IF ok THEN "won" ELSE "lost") /\ took' = took
        /\ ledger' \in {ledger, ledger \cup {new(ok)}}
        /\ ok => \E e \in ledger' :
                   e.hint = Hint(shell[s].req) /\ e.ok /\ e.op = shell[s].req.op
        /\ \/ shell' = [shell EXCEPT ![s] = [shell[s] EXCEPT !.pc = "sync"]]
           \/ shell' = [shell EXCEPT ![s] = Vacant]
        /\ ~ok => shell' = [shell EXCEPT ![s] = Vacant]
  <2>1. PICK ok \in BOOLEAN :
          LET known == \E e \in ledger : /\ e.hint = new(ok).hint /\ e.ok = ok
                                         /\ ok => e.op = new(ok).op
          IN /\ At(s, IF ok THEN "won" ELSE "lost")
             /\ ledger' = IF known THEN ledger ELSE ledger \cup {new(ok)}
             /\ IF ok /\ ~known THEN Goes(s, "sync") ELSE Goto(s, Vacant)
    BY DEF Record
  <2>2. new(ok).hint = Hint(shell[s].req) /\ new(ok).op = shell[s].req.op /\ new(ok).ok = ok
    OBVIOUS
  <2> HIDE DEF new
  <2>3. took' = took /\ ledger' \in {ledger, ledger \cup {new(ok)}}
    BY <2>1 DEF Record
  <2>4. \E e \in ledger' : /\ e.hint = new(ok).hint /\ e.ok = ok
                           /\ ok => e.op = new(ok).op
    BY <2>1, <2>2
  <2>5. ok => \E e \in ledger' :
                e.hint = Hint(shell[s].req) /\ e.ok /\ e.op = shell[s].req.op
    BY <2>2, <2>4
  <2>6. /\ \/ shell' = [shell EXCEPT ![s] = [shell[s] EXCEPT !.pc = "sync"]]
           \/ shell' = [shell EXCEPT ![s] = Vacant]
        /\ ~ok => shell' = [shell EXCEPT ![s] = Vacant]
    BY <2>1 DEF Goes, Goto
  <2> QED BY <2>1, <2>3, <2>5, <2>6
<1>2. /\ \A t \in Callers \ {s} : shell'[t] = shell[t]
      /\ shell'[s].pc \in {"sync", "idle"} /\ (~ok => shell'[s].pc = "idle")
      /\ shell'[s].pc # "idle" => shell'[s].req = shell[s].req
  BY <1>1 DEF Vacant, At, Runs
<1>3. \A t \in Callers : Running(t, h)' => Running(t, h) /\ shell'[t].req = shell[t].req
                           /\ (shell'[t].pc \in Unasked => t # s /\ shell'[t].pc = shell[t].pc)
  BY <1>1, <1>2 DEF Running, At, Unasked
<1>4. OneRun(h)'
  BY <1>3 DEF HintInv, OneRun
<1>5. CASE ~Running(s, h)
  <2>1. \A e : e.hint = h => (e \in ledger' <=> e \in ledger)
    BY <1>1, <1>5 DEF Running, At
  <2>2. \A op : Success(h, op)' <=> Success(h, op)
    BY <2>1 DEF Success
  <2>3. FailedForGood(h)' /\ FailedUntaken(h)'
    BY <1>1, <1>3, <2>1 DEF HintInv, FailedForGood, FailedUntaken
  <2>4. NotYetAnswered(h)'
    BY <1>3, <2>2 DEF HintInv, NotYetAnswered, Unasked
  <2>5. TakenIsRecorded(h)'
    BY <1>1, <1>2, <1>5, <2>2 DEF HintInv, TakenIsRecorded, Running, At
  <2> QED BY <1>4, <2>3, <2>4, <2>5 DEF HintInv
<1>6. CASE Running(s, h)
  <2>1. \A t \in Callers : Running(t, h)' => t = s
    BY <1>3, <1>6 DEF HintInv, OneRun
  <2>2. \A t \in Callers : Running(t, h) => t = s
    BY <1>6 DEF HintInv, OneRun
  <2>3. NotYetAnswered(h)'
    BY <1>3, <2>1 DEF NotYetAnswered, Unasked
  <2>4. \A op : Success(h, op) => Success(h, op)'
    BY <1>1 DEF Success
  <2>5. CASE ok
    <3>1. \A e \in ledger' : ~e.ok => e \in ledger
      BY <1>1, <2>5
    <3>2. FailedForGood(h)' /\ FailedUntaken(h)'
      BY <1>1, <1>3, <3>1 DEF HintInv, FailedForGood, FailedUntaken
    <3>3. \A op : op = shell[s].req.op => Success(h, op)'
      BY <1>1, <1>6, <2>5 DEF Running, Success
    <3>4. TakenIsRecorded(h)'
      BY <1>1, <2>2, <2>4, <3>3 DEF HintInv, TakenIsRecorded
    <3> QED BY <1>4, <2>3, <3>2, <3>4 DEF HintInv
  <2>6. CASE ~ok
    <3>1. \A t \in Callers : ~Running(t, h)'
      BY <1>2, <2>1, <2>6 DEF Running, At
    <3>2. FailedForGood(h)'
      BY <3>1 DEF FailedForGood
    <3>3. \A op \in Operations : <<h, op>> \in took => Success(h, op)
      BY <1>1, <2>2, <2>6 DEF HintInv, TakenIsRecorded, At
    <3>4. TakenIsRecorded(h)'
      BY <1>1, <2>4, <3>3 DEF TakenIsRecorded
    <3>5. <<h, shell[s].req.op>> \notin took
      BY <1>1, <1>6, <2>6, <3>3 DEF HintInv, NotYetAnswered, At
    <3>6. FailedUntaken(h)'
      BY <1>1, <3>5 DEF HintInv, FailedUntaken
    <3> QED BY <1>4, <2>3, <3>2, <3>4, <3>6 DEF HintInv
  <2> QED BY <2>5, <2>6
<1> QED BY <1>5, <1>6

LEMMA TTypedKeeps == TTyped /\ [TNext]_tvars => TTyped'
<1> SUFFICES ASSUME TTyped, [TNext]_tvars PROVE TTyped'
  OBVIOUS
<1>0. ASSUME NEW s \in Callers, NEW new \in Runs \cup {Vacant},
             new.pc = "write" => new.read \in Items,
             shell' = [shell EXCEPT ![s] = new], item' = item, load' \in Load
      PROVE  TTyped'
  BY <1>0 DEF TTyped, At
<1>1. Vacant.pc = "idle"
  BY DEF Vacant
<1>2. load \in Load /\ (Fault => load' \in Load)
  BY DEF TTyped, Fault, Load
<1>3. ASSUME NEW s \in Callers, NEW r \in Requests, Ask(s, r) PROVE TTyped'
  <2> DEFINE new == [pc |-> IF Gated(r) THEN "gate" ELSE "script", req |-> r,
                     read |-> None, alone |-> TRUE]
  <2>1. new \in Runs /\ new.pc # "write"
    BY DEF Runs
  <2>2. load' \in Load
    BY <1>2, <1>3 DEF Ask, Load
  <2> QED BY <1>0, <1>3, <2>1, <2>2 DEF Ask, Goto
<1>4. ASSUME NEW s \in Callers, Gate(s) PROVE TTyped'
  <2>1. [shell[s] EXCEPT !.pc = "script"] \in Runs
    BY <1>4, ShellTyped DEF Gate, At, Runs
  <2> QED BY <1>0, <1>1, <1>2, <1>4, <2>1 DEF Gate, Goes, Goto, Runs
<1>5. ASSUME NEW s \in Callers, ScriptRead(s) PROVE TTyped'
  <2>1. ~At(s, "idle") /\ shell[s] \in Runs
    BY <1>5, ShellTyped DEF ScriptRead, At
  <2>2. CASE Outcome(shell[s].req, item) = {}
    <3>1. [shell[s] EXCEPT !.pc = "lost", !.alone = TRUE] \in Runs
      BY <2>1 DEF Runs
    <3> QED BY <1>0, <1>2, <1>5, <2>2, <3>1 DEF ScriptRead, Goto, Runs
  <2>3. CASE Outcome(shell[s].req, item) # {}
    <3>1. PICK i \in Outcome(shell[s].req, item) :
            shell' = [shell EXCEPT ![s] = [shell[s] EXCEPT !.pc = "write", !.read = i]]
      BY <1>5, <2>3 DEF ScriptRead, Goto
    <3>2. i \in Items
      BY <2>1, OutcomeTyped DEF TTyped, Runs
    <3> DEFINE new == [shell[s] EXCEPT !.pc = "write", !.read = i]
    <3>3. new \in Runs /\ new.read \in Items
      BY <2>1, <3>2 DEF Runs
    <3> QED BY <1>0, <1>2, <1>5, <3>1, <3>3 DEF ScriptRead
  <2> QED BY <2>2, <2>3
<1>6. ASSUME NEW s \in Callers, ScriptRefuses(s) PROVE TTyped'
  <2>1. [shell[s] EXCEPT !.pc = "lost", !.alone = TRUE] \in Runs
    BY <1>6, ShellTyped DEF ScriptRefuses, At, Runs
  <2> QED BY <1>0, <1>2, <1>6, <2>1 DEF ScriptRefuses, Goto, Runs
<1>7. ASSUME NEW s \in Callers, NEW pc \in {"won", "lost"}, At(s, "write"),
             Replaced(s, pc), load' \in Load
      PROVE  TTyped'
  <2>1. shell[s] \in Runs /\ shell[s].read \in Items
    BY <1>7, ShellTyped DEF At, TTyped
  <2>2. [shell[s] EXCEPT !.pc = pc, !.read = None, !.alone = TRUE] \in Runs
    BY <2>1 DEF Runs
  <2>3. \A t \in Callers : shell[t].pc \in {"script", "write"} =>
          /\ [shell[t] EXCEPT !.alone = FALSE] \in Runs
          /\ [shell[t] EXCEPT !.alone = FALSE].pc = shell[t].pc
          /\ [shell[t] EXCEPT !.alone = FALSE].read = shell[t].read
    BY ShellTyped DEF Runs, At
  <2>4. [shell[s] EXCEPT !.pc = pc, !.read = None, !.alone = TRUE].pc # "write"
    BY <2>1 DEF Runs
  <2>5. shell' \in [Callers -> Runs \cup {Vacant}]
    BY <1>7, <2>2, <2>3 DEF Replaced, TTyped
  <2>6. \A t \in Callers : At(t, "write")' => shell'[t].read \in Items
    BY <1>7, <2>3, <2>4 DEF Replaced, TTyped, At
  <2> QED BY <1>7, <2>1, <2>5, <2>6 DEF Replaced, TTyped
<1>8. ASSUME NEW s \in Callers, ScriptWrite(s) \/ ScriptDies(s) PROVE TTyped'
  BY <1>2, <1>7, <1>8 DEF ScriptWrite, ScriptDies
<1>9. ASSUME NEW s \in Callers, Record(s) PROVE TTyped'
  <2>1. ~At(s, "idle")
    BY <1>9 DEF Record, At
  <2>2. [shell[s] EXCEPT !.pc = "sync"] \in Runs
    BY <2>1, ShellTyped DEF Runs
  <2>3. /\ item' = item /\ load' = load
        /\ shell' = [shell EXCEPT ![s] = [shell[s] EXCEPT !.pc = "sync"]]
           \/ shell' = [shell EXCEPT ![s] = Vacant]
    BY <1>9 DEF Record, Goes, Goto
  <2> QED BY <1>0, <1>1, <1>2, <2>2, <2>3 DEF Runs
<1>10. ASSUME NEW s \in Callers, SyncRead(s) PROVE TTyped'
  <2>1. [shell[s] EXCEPT !.pc = "mirror", !.read = item] \in Runs
    BY <1>10, ShellTyped DEF SyncRead, At, Runs, TTyped
  <2> QED BY <1>0, <1>2, <1>10, <2>1 DEF SyncRead, Goto, Runs
<1>11. ASSUME NEW s \in Callers, SyncWrite(s) \/ Die(s) PROVE TTyped'
  BY <1>0, <1>1, <1>2, <1>11 DEF SyncWrite, Die, Goto
<1>12. CASE UNCHANGED tvars
  BY <1>12 DEF tvars, TTyped, At
<1> QED BY <1>3, <1>4, <1>5, <1>6, <1>8, <1>9, <1>10, <1>11, <1>12 DEF TNext

LEMMA HintsKeep ==
  TTyped /\ [TNext]_tvars /\ (\A h : h \notin doubtful => HintInv(h))
    => \A h : h \notin doubtful' => HintInv(h)'
<1> SUFFICES ASSUME TTyped, [TNext]_tvars, \A h : h \notin doubtful => HintInv(h),
                    NEW h, h \notin doubtful'
             PROVE  HintInv(h)'
  OBVIOUS
<1> USE DEF At
<1>1. Vacant.pc = "idle"
  BY DEF Vacant
<1>2. shell \in [Callers -> Runs \cup {Vacant}]
  BY DEF TTyped
<1>3. ASSUME NEW s \in Callers, NEW new, shell' = [shell EXCEPT ![s] = new]
      PROVE  OthersStay(s) /\ shell'[s] = new
  BY <1>2, <1>3 DEF OthersStay
<1>4. ASSUME NEW s \in Callers, NEW new, shell' = [shell EXCEPT ![s] = new], ~At(s, "idle"),
             new.pc # "idle", new.req = shell[s].req,
             new.pc \in Unasked => shell[s].pc \in Unasked
      PROVE  GoesOn(s) /\ OthersStay(s)
  BY <1>3, <1>4 DEF GoesOn
<1>5. ASSUME h \in doubtful, NEW s \in Callers, TNext PROVE FALSE
  <2>1. doubtful \subseteq doubtful'
    BY <1>5 DEF TNext, Ask, Gate, ScriptRead, ScriptRefuses, ScriptWrite, ScriptDies, Doubt,
                Record, SyncRead, SyncWrite, Die
  <2> QED BY <1>5, <2>1
<1>6. HintInv(h)
  <2>1. CASE UNCHANGED tvars
    BY <2>1 DEF tvars
  <2>2. CASE TNext
    BY <1>5, <2>2 DEF TNext
  <2> QED BY <2>1, <2>2
<1>7. ASSUME NEW s \in Callers, NEW r \in Requests, Ask(s, r) PROVE HintInv(h)'
  BY <1>2, <1>6, <1>7, AskKeepsHint
<1>8. ASSUME NEW s \in Callers, Gate(s) PROVE HintInv(h)'
  <2>1. shell[s] \in Runs /\ UNCHANGED <<ledger, took>>
    BY <1>8, ShellTyped DEF Gate
  <2>2. CASE Goes(s, "script")
    <3> DEFINE new == [shell[s] EXCEPT !.pc = "script"]
    <3>0. new.pc = "script" /\ new.req = shell[s].req
      BY <2>1 DEF Runs
    <3>1. GoesOn(s) /\ OthersStay(s)
      BY <1>4, <1>8, <2>2, <3>0 DEF Goes, Goto, Gate, Unasked
    <3> QED BY <1>6, <1>8, <2>1, <3>1, GoKeepsHint DEF Gate
  <2>3. CASE Goto(s, Vacant)
    BY <1>1, <1>3, <1>6, <1>8, <2>1, <2>3, EndKeepsHint DEF Goto, Gate
  <2> QED BY <1>8, <2>2, <2>3 DEF Gate
<1>9. ASSUME NEW s \in Callers, ScriptRead(s) \/ ScriptRefuses(s) PROVE HintInv(h)'
  <2>1. At(s, "script") /\ shell[s] \in Runs /\ UNCHANGED <<ledger, took>>
    BY <1>9, ShellTyped DEF ScriptRead, ScriptRefuses
  <2>2. \/ Goto(s, [shell[s] EXCEPT !.pc = "lost", !.alone = TRUE])
        \/ \E i : Goto(s, [shell[s] EXCEPT !.pc = "write", !.read = i])
    BY <1>9 DEF ScriptRead, ScriptRefuses
  <2>3. GoesOn(s) /\ OthersStay(s)
    <3>1. CASE Goto(s, [shell[s] EXCEPT !.pc = "lost", !.alone = TRUE])
      <4> DEFINE new == [shell[s] EXCEPT !.pc = "lost", !.alone = TRUE]
      <4>1. new.pc = "lost" /\ new.req = shell[s].req
        BY <2>1 DEF Runs
      <4> QED BY <1>4, <2>1, <3>1, <4>1 DEF Goto, Unasked
    <3>2. ASSUME NEW i, Goto(s, [shell[s] EXCEPT !.pc = "write", !.read = i])
          PROVE  GoesOn(s) /\ OthersStay(s)
      <4> DEFINE new == [shell[s] EXCEPT !.pc = "write", !.read = i]
      <4>1. new.pc = "write" /\ new.req = shell[s].req
        BY <2>1 DEF Runs
      <4> QED BY <1>4, <2>1, <3>2, <4>1 DEF Goto, Unasked
    <3> QED BY <2>2, <3>1, <3>2
  <2> QED BY <1>6, <2>1, <2>3, GoKeepsHint
<1>10. ASSUME NEW s \in Callers, ScriptWrite(s) \/ ScriptDies(s) PROVE HintInv(h)'
  <2>1. /\ At(s, "write") /\ shell[s] \in Runs /\ ledger' = ledger
        /\ took' = took \cup {<<Hint(shell[s].req), shell[s].req.op>>}
    BY <1>10, ShellTyped DEF ScriptWrite, ScriptDies, Replaced
  <2>2. PICK pc \in {"won", "lost"} : Replaced(s, pc) /\ (pc = "won" \/ Doubt(s))
    BY <1>10 DEF ScriptWrite, ScriptDies
  <2>3. shell'[s] = [shell[s] EXCEPT !.pc = pc, !.read = None, !.alone = TRUE]
    BY <2>2 DEF Replaced
  <2>4. shell'[s].pc = pc /\ shell'[s].req = shell[s].req
    BY <2>1, <2>3 DEF Runs
  <2>5. \A t \in Callers \ {s} :
          shell'[t] = shell[t]
            \/ (shell[t] \in Runs /\ shell'[t] = [shell[t] EXCEPT !.alone = FALSE])
    BY <2>2, ShellTyped DEF Replaced
  <2>6. OthersStay(s)
    BY <2>5 DEF OthersStay, Runs
  <2>7. GoesOn(s)
    BY <2>1, <2>4 DEF GoesOn, Unasked
  <2>8. Running(s, h) => pc = "won"
    BY <2>2 DEF Running, Doubt
  <2> QED BY <1>6, <2>1, <2>4, <2>6, <2>7, <2>8, WriteKeepsHint
<1>11. ASSUME NEW s \in Callers, Record(s) PROVE HintInv(h)'
  <2>1. shell[s].req.op \in Operations
    BY <1>11, ShellTyped DEF Record
  <2> QED BY <1>2, <1>6, <1>11, <2>1, RecordKeepsHint
<1>12. ASSUME NEW s \in Callers, SyncRead(s) PROVE HintInv(h)'
  <2>1. shell[s] \in Runs /\ At(s, "sync") /\ UNCHANGED <<ledger, took>>
    BY <1>12, ShellTyped DEF SyncRead
  <2> DEFINE new == [shell[s] EXCEPT !.pc = "mirror", !.read = item]
  <2>2. GoesOn(s) /\ OthersStay(s)
    <3>1. new.pc = "mirror" /\ new.req = shell[s].req
      BY <2>1 DEF Runs
    <3> QED BY <1>4, <1>12, <2>1, <3>1 DEF Goto, SyncRead, Unasked
  <2> QED BY <1>6, <2>1, <2>2, GoKeepsHint
<1>13. ASSUME NEW s \in Callers, SyncWrite(s) \/ Die(s) PROVE HintInv(h)'
  <2>1. OthersStay(s) /\ shell'[s].pc = "idle" /\ UNCHANGED <<ledger, took>>
    BY <1>1, <1>3, <1>13 DEF SyncWrite, Die, Goto
  <2>2. ~ (At(s, "won") /\ Running(s, h))
    BY <1>13 DEF SyncWrite, Die, Doubt, Running
  <2> QED BY <1>6, <2>1, <2>2, EndKeepsHint
<1>14. CASE UNCHANGED tvars
  BY <1>6, <1>14 DEF tvars, HintInv, OneRun, FailedForGood, NotYetAnswered, TakenIsRecorded,
                     FailedUntaken, Running, Success
<1> QED BY <1>7, <1>8, <1>9, <1>10, <1>11, <1>12, <1>13, <1>14 DEF TNext

(* Who is not overtaken sees the item that its gate and its script saw.    *)
LEMMA AloneKeeps ==
  TTyped /\ ClosedIsDone(item) /\ (\A s \in Callers : AloneInv(s)) /\ [TNext]_tvars
    => ClosedIsDone(item') /\ \A s \in Callers : AloneInv(s)'
<1> SUFFICES ASSUME TTyped, ClosedIsDone(item), \A s \in Callers : AloneInv(s), [TNext]_tvars
             PROVE  ClosedIsDone(item') /\ \A s \in Callers : AloneInv(s)'
  OBVIOUS
<1>1. ASSUME item' = item, NEW s \in Callers, NEW new, shell' = [shell EXCEPT ![s] = new],
             new.pc = "gate" => new.alone,
             new.pc = "script" /\ new.alone /\ Gated(new.req) => GateOpens(item),
             new.pc = "write" => /\ new.alone => /\ new.read \in Outcome(new.req, item)
                                                 /\ Gated(new.req) => GateOpens(item)
                                 /\ ClosedIsDone(new.read)
      PROVE  ClosedIsDone(item') /\ \A t \in Callers : AloneInv(t)'
  <2>1. shell'[s] = new /\ \A t \in Callers \ {s} : shell'[t] = shell[t]
    BY <1>1 DEF TTyped
  <2>2. AloneInv(s)'
    BY <1>1, <2>1 DEF AloneInv, At
  <2>3. \A t \in Callers \ {s} : AloneInv(t)'
    BY <1>1, <2>1 DEF AloneInv, At
  <2> QED BY <1>1, <2>2, <2>3
<1>2. Vacant.pc = "idle"
  BY DEF Vacant
<1>3. ASSUME NEW s \in Callers, NEW r \in Requests, Ask(s, r)
      PROVE  ClosedIsDone(item') /\ \A t \in Callers : AloneInv(t)'
  <2> DEFINE new == [pc |-> IF Gated(r) THEN "gate" ELSE "script", req |-> r,
                     read |-> None, alone |-> TRUE]
  <2>1. new.alone /\ new.req = r /\ new.pc = (IF Gated(r) THEN "gate" ELSE "script")
    OBVIOUS
  <2>2. shell' = [shell EXCEPT ![s] = new] /\ item' = item
    BY <1>3 DEF Ask, Goto
  <2> HIDE DEF new
  <2> QED BY <1>1, <2>1, <2>2
<1>4. ASSUME NEW s \in Callers, Gate(s)
      PROVE  ClosedIsDone(item') /\ \A t \in Callers : AloneInv(t)'
  <2>1. shell[s] \in Runs
    BY <1>4, ShellTyped DEF Gate, At
  <2> DEFINE new == [shell[s] EXCEPT !.pc = "script"]
  <2>2. new.pc = "script" /\ item' = item
    BY <1>4, <2>1 DEF Runs, Gate
  <2>3. \/ shell' = [shell EXCEPT ![s] = new] /\ GateOpens(item)
        \/ shell' = [shell EXCEPT ![s] = Vacant]
    BY <1>4 DEF Gate, Goes, Goto
  <2> HIDE DEF new
  <2>4. CASE shell' = [shell EXCEPT ![s] = new] /\ GateOpens(item)
    BY <1>1, <2>2, <2>4
  <2>5. CASE shell' = [shell EXCEPT ![s] = Vacant]
    BY <1>1, <1>2, <2>2, <2>5
  <2> QED BY <2>3, <2>4, <2>5
<1>5. ASSUME NEW s \in Callers, ScriptRead(s) \/ ScriptRefuses(s)
      PROVE  ClosedIsDone(item') /\ \A t \in Callers : AloneInv(t)'
  <2>1. shell[s] \in Runs /\ At(s, "script") /\ item' = item
    BY <1>5, ShellTyped DEF ScriptRead, ScriptRefuses, At
  <2>2. \/ Goto(s, [shell[s] EXCEPT !.pc = "lost", !.alone = TRUE])
        \/ \E i \in Outcome(shell[s].req, item) :
             Goto(s, [shell[s] EXCEPT !.pc = "write", !.read = i])
    BY <1>5 DEF ScriptRead, ScriptRefuses
  <2>3. CASE Goto(s, [shell[s] EXCEPT !.pc = "lost", !.alone = TRUE])
    <3>1. [shell[s] EXCEPT !.pc = "lost", !.alone = TRUE].pc = "lost"
      BY <2>1 DEF Runs
    <3> QED BY <1>1, <2>1, <2>3, <3>1 DEF Goto
  <2>4. ASSUME NEW i \in Outcome(shell[s].req, item),
               Goto(s, [shell[s] EXCEPT !.pc = "write", !.read = i])
        PROVE  ClosedIsDone(item') /\ \A t \in Callers : AloneInv(t)'
    <3> DEFINE new == [shell[s] EXCEPT !.pc = "write", !.read = i]
    <3>1. new.pc = "write" /\ new.read = i /\ new.req = shell[s].req /\ new.alone = shell[s].alone
      BY <2>1 DEF Runs
    <3>2. ClosedIsDone(i)
      BY <2>1, OutcomeTyped DEF Runs, TTyped
    <3>3. new.alone /\ Gated(new.req) => GateOpens(item)
      BY <2>1, <3>1 DEF AloneInv
    <3>4. shell' = [shell EXCEPT ![s] = new]
      BY <2>4 DEF Goto
    <3> HIDE DEF new
    <3> QED BY <1>1, <2>1, <3>1, <3>2, <3>3, <3>4
  <2> QED BY <2>2, <2>3, <2>4
<1>6. ASSUME NEW s \in Callers, NEW pc \in {"won", "lost"}, At(s, "write"), Replaced(s, pc)
      PROVE  ClosedIsDone(item') /\ \A t \in Callers : AloneInv(t)'
  <2>1. shell[s] \in Runs /\ item' = shell[s].read
    BY <1>6, ShellTyped DEF At, Replaced
  <2>2. ClosedIsDone(item')
    BY <1>6, <2>1 DEF AloneInv
  <2>3. [shell[s] EXCEPT !.pc = pc, !.read = None, !.alone = TRUE].pc = pc
    BY <2>1 DEF Runs
  <2>4. AloneInv(s)'
    BY <1>6, <2>3 DEF Replaced, AloneInv, At
  <2>5. ASSUME NEW t \in Callers, t # s PROVE AloneInv(t)'
    <3>1. CASE shell[t].pc \in {"script", "write"}
      <4> DEFINE new == [shell[t] EXCEPT !.alone = FALSE]
      <4>1. shell[t] \in Runs
        BY <3>1, ShellTyped DEF At
      <4>2. new.pc = shell[t].pc /\ new.read = shell[t].read /\ ~new.alone
        BY <4>1 DEF Runs
      <4>3. shell'[t] = new
        BY <1>6, <2>5, <3>1 DEF Replaced
      <4> HIDE DEF new
      <4> QED BY <3>1, <4>2, <4>3 DEF AloneInv, At
    <3>2. CASE shell[t].pc \notin {"script", "write"}
      BY <1>6, <2>5, <3>2 DEF Replaced, AloneInv, At
    <3> QED BY <3>1, <3>2
  <2> QED BY <2>2, <2>4, <2>5
<1>7. ASSUME NEW s \in Callers, ScriptWrite(s) \/ ScriptDies(s)
      PROVE  ClosedIsDone(item') /\ \A t \in Callers : AloneInv(t)'
  BY <1>6, <1>7 DEF ScriptWrite, ScriptDies
<1>8. ASSUME NEW s \in Callers, Record(s)
      PROVE  ClosedIsDone(item') /\ \A t \in Callers : AloneInv(t)'
  <2>1. shell[s] \in Runs
    BY <1>8, ShellTyped DEF Record, At
  <2>2. [shell[s] EXCEPT !.pc = "sync"].pc = "sync"
    BY <2>1 DEF Runs
  <2> QED BY <1>1, <1>2, <1>8, <2>2 DEF Record, Goes, Goto
<1>9. ASSUME NEW s \in Callers, SyncRead(s)
      PROVE  ClosedIsDone(item') /\ \A t \in Callers : AloneInv(t)'
  <2>1. shell[s] \in Runs
    BY <1>9, ShellTyped DEF SyncRead, At
  <2>2. [shell[s] EXCEPT !.pc = "mirror", !.read = item].pc = "mirror"
    BY <2>1 DEF Runs
  <2> QED BY <1>1, <1>9, <2>2 DEF SyncRead, Goto
<1>10. ASSUME NEW s \in Callers, SyncWrite(s) \/ Die(s)
       PROVE  ClosedIsDone(item') /\ \A t \in Callers : AloneInv(t)'
  BY <1>1, <1>2, <1>10 DEF SyncWrite, Die, Goto
<1>11. CASE UNCHANGED tvars
  BY <1>11 DEF tvars, AloneInv, At
<1> QED BY <1>3, <1>4, <1>5, <1>7, <1>8, <1>9, <1>10, <1>11 DEF TNext

LEMMA TInvHolds == TSpec => []TInv
<1>1. TInit => TInv
  <2> SUFFICES ASSUME TInit PROVE TInv
    OBVIOUS
  <2>1. \A s \in Callers : shell[s].pc = "idle"
    BY DEF TInit, Vacant
  <2>2. TTyped
    BY <2>1, TransitionsAssumption DEF TInit, TTyped, At
  <2>3. ClosedIsDone(item) /\ \A s \in Callers : AloneInv(s)
    BY <2>1, TransitionsAssumption DEF TInit, AloneInv, At
  <2>4. \A h : HintInv(h)
    BY <2>1 DEF TInit, HintInv, OneRun, FailedForGood, NotYetAnswered, TakenIsRecorded,
                FailedUntaken, Running, At
  <2> QED BY <2>2, <2>3, <2>4 DEF TInv
<1>2. TInv /\ [TNext]_tvars => TInv'
  <2> SUFFICES ASSUME TInv, [TNext]_tvars PROVE TInv'
    OBVIOUS
  <2>1. TTyped'
    BY TTypedKeeps DEF TInv
  <2>2. \A h : h \notin doubtful' => HintInv(h)'
    BY HintsKeep DEF TInv
  <2>3. ClosedIsDone(item') /\ \A s \in Callers : AloneInv(s)'
    BY AloneKeeps DEF TInv
  <2> QED BY <2>1, <2>2, <2>3 DEF TInv
<1> QED BY <1>1, <1>2, PTL DEF TSpec

(* harness.mutation_failed is never recorded of a command that changed the *)
(* item, for any requests that share hints in any way and any number of    *)
(* failures, but for the three kinds of hint that are in doubt.            *)
THEOREM FailuresAreTrue == TSpec => []FailureIsTrue
<1>1. TInv => FailureIsTrue
  BY DEF TInv, HintInv, FailedUntaken, FailureIsTrue
<1> QED BY TInvHolds, <1>1, PTL

(* Only mark-done closes an item, and only from review_approved, unless    *)
(* another script's write came between its gate and its own.               *)
THEOREM ClosedAfterReview == TSpec => ClosedFromReview
<1>1. TInv /\ [TNext]_tvars =>
        [item.status # "done" /\ item'.status = "done" =>
           \E s \in Callers : /\ At(s, "write")
                              /\ item.wf = "review_approved" \/ ~shell[s].alone]_tvars
  <2> SUFFICES ASSUME TInv, TNext, item.status # "done", item'.status = "done"
               PROVE  \E s \in Callers :
                        /\ At(s, "write")
                        /\ item.wf = "review_approved" \/ ~shell[s].alone
    BY DEF tvars
  <2>1. PICK s \in Callers : ScriptWrite(s) \/ ScriptDies(s)
    BY DEF TNext, Ask, Gate, ScriptRead, ScriptRefuses, Record, SyncRead, SyncWrite, Die
  <2>2. At(s, "write") /\ item' = shell[s].read
    BY <2>1 DEF ScriptWrite, ScriptDies, Replaced
  <2>3. CASE shell[s].alone
    <3>1. shell[s].read \in Outcome(shell[s].req, item) /\ shell[s].req \in Requests
          /\ item \in Items
      BY <2>2, <2>3, ShellTyped DEF TInv, AloneInv, TTyped, Runs, At
    <3>2. Gated(shell[s].req)
      BY <2>2, <3>1, OutcomeTyped
    <3>3. GateOpens(item) /\ ClosedIsDone(item)
      BY <2>2, <2>3, <3>2 DEF TInv, AloneInv
    <3> QED BY <2>2, <3>3 DEF GateOpens, ClosedIsDone
  <2> QED BY <2>2, <2>3
<1> QED BY TInvHolds, <1>1, PTL DEF TSpec, ClosedFromReview

==============================================================================
