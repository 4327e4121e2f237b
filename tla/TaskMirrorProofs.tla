--------------------------- MODULE TaskMirrorProofs ---------------------------
(* Proofs about the writers of the task mirror: split operations, whose       *)
(* ledger the projection doctor compares with it, and pull requests, which    *)
(* bind their branch, commit and number in it.                                *)
(*                                                                            *)
(* SplitOperations, ProjectionDoctor: whatever is edited, deployed, repeated  *)
(* or lost between the file half and the record half of an operation, and     *)
(* whoever else writes the task mirror, ledger and events tell the same       *)
(* story.  The ledger and the event log are written in one SAVEPOINT, so each *)
(* row and its event point at each other (RowInv, EventInv).  The rest is     *)
(* about copies: a record half carries an envelope, a plan and a view of the  *)
(* ledger across its steps (RecordingInv), a reconcile or pr link carries an  *)
(* item and a row (ProjectionInv), and each must stay true of the past after  *)
(* the original has moved on.                                                 *)
(*                                                                            *)
(* PullRequests: a publish command, a writer and a check each work from what  *)
(* they read before.  A commit that was the head of its branch stays one that *)
(* was pushed (Published); a row read at its version is the row that is there *)
(* as long as the version is (WriterInv); and what gh said of a head was true *)
(* of it, or the head moved between the two reads (CheckerInv).               *)
EXTENDS ProjectionDoctor, PullRequests, FiniteSetTheorems, SequenceTheorems, TLAPS

-----------------------------------------------------------------------------
(* Split operations and the projection doctor                                 *)
\* An item with this envelope and a plan of its bytes have been deployed.
ItemShipped(e) == \E t \in shipped: Replayed(t.item, e)
PlanShipped(p) == \E t \in shipped: t.plan = p

\* An adoption that a row, or a copy of a row, claims has its ledger row.
Adopted(e) == e # None /\ e.kind = "adopt" => Recorded(e.op)
MirrorInv(m) == m # None => Adopted(m.meta)

RowInv(o) ==
    Recorded(o) =>
        /\ ledger[o].env.op = o
        /\ ledger[o].event \in 1..Len(events)
        /\ events[ledger[o].event].kind = "record"
        /\ events[ledger[o].event].op = o
        /\ ItemShipped(ledger[o].env)
        /\ PlanShipped(ledger[o].env.plan)

EventInv(i) ==
    events[i].kind = "record" =>
        /\ events[i].op \in Ops
        /\ Recorded(events[i].op)
        /\ ledger[events[i].op].event = i

RecordingInv(s) ==
    rec[s] # None =>
        /\ PlanShipped(rec[s].plan)
        /\ rec[s].known \subseteq {p \in Ops: Recorded(p)}
        /\ rec[s].pc \in {"mirror", "apply"} =>
              /\ ItemShipped(rec[s].env)
              /\ rec[s].plan = rec[s].env.plan
              /\ rec[s].known \subseteq {rec[s].env.op}

ProjectionInv ==
    other # None =>
        /\ MirrorInv(other.seen)
        /\ other.pc \in {"full", "write", "task"} => other.item # None
        /\ other.pc = "write" => Adopted(other.item.env)

SplitInv ==
    /\ TypeOK
    /\ deployed \in shipped
    /\ \A o \in Ops: RowInv(o)
    /\ \A i \in 1..Len(events): EventInv(i)
    /\ MirrorInv(mirror)
    /\ \A s \in Shells: RecordingInv(s)
    /\ ProjectionInv

----------------------------------------------------------------------------
(* Types. *)

LEMMA NoneIsNothing ==
    /\ None \notin Bodies /\ None \notin Plans /\ None \notin Ops
    /\ None \notin Envelopes /\ None \notin Items /\ None \notin Mirrors
    /\ None \notin LedgerRows /\ None \notin Recordings /\ None \notin Projections
  BY SplitAssumption

LEMMA TriageTyped == TriageRow \in Mirrors
  BY DEF TriageRow, Mirrors

LEMMA MergedTyped ==
    ASSUME NEW m \in Mirrors \cup {None}, NEW i \in Items
    PROVE  Merged(i, m) \in Mirrors
<1>1. CASE m = None
  BY <1>1 DEF Merged, Mirrors, Items
<1>2. CASE m \in Mirrors /\ m # None
  <2>1. [m EXCEPT !.body = i.body, !.meta = IF m.meta = None THEN i.env ELSE m.meta]
          \in Mirrors
    BY <1>2 DEF Mirrors, Items
  <2> QED
    BY <1>2, <2>1 DEF Merged
<1> QED
  BY <1>1, <1>2

LEMMA LinkedTyped ==
    ASSUME TypeOK, NEW m \in Mirrors \cup {None}
    PROVE  LinkEvent \in Nat /\ LinkedRow(m) \in Mirrors
<1>1. LinkEvent \in Nat
  <2>1. Len(events) \in Nat
    BY DEF TypeOK
  <2> QED
    BY <2>1 DEF LinkEvent, TypeOK
<1>2. CASE m = None
  BY <1>1, <1>2 DEF LinkedRow, Mirrors
<1>3. CASE m \in Mirrors /\ m # None
  <2>1. [m EXCEPT !.pr = TRUE, !.last = LinkEvent] \in Mirrors
    BY <1>1, <1>3 DEF Mirrors
  <2> QED
    BY <1>1, <1>3, <2>1 DEF LinkedRow
<1> QED
  BY <1>2, <1>3, <1>1

LEMMA RecordRowTyped ==
    ASSUME TypeOK, NEW e \in Envelopes, NEW pr \in BOOLEAN
    PROVE  RecordRow(e, pr) \in Mirrors /\ LedgerRow(e) \in LedgerRows
<1>1. e.body \in Bodies /\ Len(events) + 1 \in Nat
  BY DEF Envelopes, TypeOK
<1> QED
  BY <1>1 DEF RecordRow, LedgerRow, Mirrors, LedgerRows

LEMMA InitTyped == Init => TypeOK
<1> SUFFICES ASSUME Init PROVE TypeOK
  OBVIOUS
<1>1. PICK item \in {None, [body |-> NewBody, env |-> None]}, plan \in Plans:
          /\ deployed = [item |-> item, plan |-> plan]
          /\ host = [h \in Hosts |-> deployed]
          /\ drafts = [h \in Hosts |-> {plan}]
          /\ shipped = {deployed}
  BY DEF Init
<1>2. deployed \in Trees
  BY <1>1, SplitAssumption DEF Trees, Items
<1>3. events \in Seq(ReadyEvents) /\ spent \in 0..MaxDisturbances
  BY SplitAssumption DEF Init
<1> QED
  BY <1>1, <1>2, <1>3 DEF Init, TypeOK

LEMMA SpendTyped == ASSUME TypeOK, Spend PROVE spent' \in 0..MaxDisturbances
  BY SplitAssumption DEF TypeOK, Spend

\* A checkout's tree after its item or its plan was replaced.
LEMMA TreeTyped ==
    ASSUME NEW t \in Trees, NEW i \in Items, NEW p \in Plans
    PROVE  /\ [t EXCEPT !.item = i] \in Trees
           /\ [t EXCEPT !.plan = p] \in Trees
  BY DEF Trees

\* What a file half writes.
LEMMA FilesTyped ==
    ASSUME TypeOK, NEW h \in Hosts, NEW e \in Envelopes, FilesWrite(h, e)
    PROVE  TypeOK'
<1>1. [body |-> e.body, env |-> e] \in Items /\ e.op \in Ops
  BY DEF Items, Envelopes
<1>2. host' \in [Hosts -> Trees]
  BY <1>1, TreeTyped DEF FilesWrite, TypeOK
<1>3. answer' \in [Ops -> Envelopes \cup {None}] /\ spent' \in 0..MaxDisturbances
  BY <1>1, SpendTyped DEF FilesWrite, TypeOK
<1> QED
  BY <1>2, <1>3 DEF FilesWrite, TypeOK, dbVars

LEMMA GotoTyped ==
    ASSUME TypeOK, NEW s \in Shells, NEW r \in Recordings \cup {None}, Goto(s, r),
           UNCHANGED dbVars, spent' \in 0..MaxDisturbances
    PROVE  TypeOK'
  BY DEF Goto, TypeOK, dbVars, fileVars

LEMMA RecordTyped ==
    ASSUME TypeOK, NEW s \in Shells, RecStep(s) \/ RecCrash(s) \/ \E o \in Ops: RecStart(s, o)
    PROVE  TypeOK'
<1>0. /\ rec[s] # None => /\ rec[s] \in Recordings /\ rec[s].env \in Envelopes
                          /\ rec[s].env.op \in Ops /\ rec[s].seen \in Mirrors \cup {None}
      /\ spent \in 0..MaxDisturbances
  BY DEF TypeOK, Recordings, Envelopes
<1>1. ASSUME NEW o \in Ops, RecStart(s, o) PROVE TypeOK'
  <2>1. answer[o] \in Envelopes /\ deployed.plan \in Plans
    BY <1>1 DEF RecStart, TypeOK, Trees
  <2> DEFINE r == [pc |-> "item", env |-> answer[o], plan |-> deployed.plan,
                   seen |-> None, known |-> {p \in Ops: Recorded(p)}]
  <2>2. r \in Recordings
    BY <2>1 DEF Recordings
  <2> HIDE DEF r
  <2>3. Goto(s, r) /\ UNCHANGED dbVars /\ spent' = spent
    BY <1>1 DEF RecStart, r
  <2> QED
    BY <2>2, <2>3, <1>0, GotoTyped
<1>2. ASSUME NEW next \in {"mirror", "apply"}, NEW kind, RecItem(s, kind, next) PROVE TypeOK'
  <2>1. [rec[s] EXCEPT !.pc = next] \in Recordings
    BY <1>0, <1>2 DEF RecItem, At, Recordings
  <2>2. PICK r \in Recordings \cup {None}: Goto(s, r) /\ UNCHANGED dbVars /\ spent' = spent
    BY <2>1, <1>2 DEF RecItem, Check
  <2> QED
    BY <2>2, <1>0, GotoTyped
<1>3. CASE RecMirror(s)
  <2>1. [rec[s] EXCEPT !.pc = "apply", !.seen = mirror] \in Recordings
    BY <1>0, <1>3 DEF RecMirror, At, Recordings, TypeOK
  <2>2. PICK r \in Recordings \cup {None}: Goto(s, r) /\ UNCHANGED dbVars /\ spent' = spent
    BY <2>1, <1>3 DEF RecMirror, Check
  <2> QED
    BY <2>2, <1>0, GotoTyped
<1>4. ASSUME NEW kind, NEW pr \in BOOLEAN, RecApply(s, kind, pr) PROVE TypeOK'
  <2> DEFINE e == rec[s].env
             v == [op |-> e.op, kind |-> "record", plan |-> e.plan, body |-> e.body]
  <2>1. e \in Envelopes /\ e.op \in Ops /\ v \in ReadyEvents
    BY <1>0, <1>4 DEF RecApply, At, ReadyEvents, Envelopes
  <2>2. RecordRow(e, pr) \in Mirrors /\ LedgerRow(e) \in LedgerRows
    BY <2>1, RecordRowTyped
  <2>3. Append(events, v) \in Seq(ReadyEvents)
    BY <2>1 DEF TypeOK
  <2> HIDE DEF e
  <2>4. events' \in Seq(ReadyEvents) /\ mirror' \in Mirrors \cup {None}
    BY <1>4, <2>2, <2>3 DEF RecApply, TypeOK, dbVars, e
  <2>5. ledger' \in [Ops -> LedgerRows \cup {None}]
    BY <1>4, <2>1, <2>2 DEF RecApply, TypeOK, dbVars, e
  <2>6. UNCHANGED <<linked, triaged, spent>> /\ Goto(s, None)
    BY <1>4 DEF RecApply, dbVars
  <2> QED
    BY <2>4, <2>5, <2>6 DEF TypeOK, Goto, fileVars
<1>5. CASE RecCrash(s)
  BY <1>5, GotoTyped, SpendTyped DEF RecCrash
<1>6. CASE AdoptApply(s)
  <2>1. (rec[s].seen # None /\ rec[s].seen.pr) \in BOOLEAN
    <3>1. CASE rec[s].seen \in Mirrors
      BY <3>1 DEF Mirrors
    <3>2. CASE rec[s].seen = None
      BY <3>2
    <3> QED
      BY <3>1, <3>2, <1>0, <1>6 DEF AdoptApply, RecApply, At
  <2> QED
    BY <1>4, <1>6, <2>1 DEF AdoptApply
<1> QED
  BY <1>1, <1>2, <1>3, <1>4, <1>5, <1>6
     DEF RecStep, CreateItem, AdoptItem, MaterializeItem, CreateApply, MaterializeApply

LEMMA BeginTyped ==
    ASSUME TypeOK, NEW pc \in {"full", "task", "link"}, NEW item \in Items \cup {None},
           NEW before \in Mirrors \cup {None}, Begin(pc, item, before)
    PROVE  TypeOK'
<1>1. [pc |-> pc, item |-> item, seen |-> before] \in Projections
  BY DEF Projections
<1> QED
  BY <1>1, SpendTyped DEF Begin, OtherElse, fileVars, TypeOK

LEMMA WriteTyped ==
    ASSUME TypeOK, NEW row \in Mirrors \cup {None}, Write(row), linked' \in Nat \cup {None}
    PROVE  TypeOK'
  BY DEF Write, OtherElse, fileVars, TypeOK

\* What the other writers of the row do.
OtherStep ==
    \/ \E mode \in {"full", "task"}: ReconItem(mode)
    \/ ReconRead \/ ReconWrite \/ ReconTask
    \/ LinkRead \/ LinkPr \/ LinkCrash
    \/ \E b \in Bodies, p \in Plans: RevisePlan(b, p)
    \/ TriageMirror \/ TriageEvent

LEMMA OtherTyped == ASSUME TypeOK, ProjectionInv, OtherStep PROVE TypeOK'
<1>0. /\ mirror \in Mirrors \cup {None} /\ deployed \in Trees
      /\ deployed.item \in Items \cup {None} /\ linked \in Nat \cup {None}
      /\ spent \in 0..MaxDisturbances
  BY DEF TypeOK, Trees
<1>a. other # None => /\ other \in Projections /\ other.seen \in Mirrors \cup {None}
                      /\ other.item \in Items \cup {None}
  BY DEF TypeOK, Projections
<1>1. ASSUME NEW mode \in {"full", "task"}, ReconItem(mode) PROVE TypeOK'
  BY <1>1, <1>0, BeginTyped DEF ReconItem
<1>2. CASE ReconRead
  <2>1. other # None /\ other.pc = "full"
    BY <1>2 DEF ReconRead, Doing
  <2>2. [other EXCEPT !.pc = "write", !.seen = mirror] \in Projections
    BY <1>0, <1>a, <2>1 DEF Projections
  <2>3. other' \in Projections \cup {None}
    BY <1>2, <2>2 DEF ReconRead
  <2> QED
    BY <1>2, <2>3 DEF ReconRead, OtherElse, fileVars, TypeOK
<1>3. CASE ReconWrite
  <2>1. other.item \in Items /\ other.seen \in Mirrors \cup {None}
    BY <1>3, <1>a DEF ReconWrite, Doing, ProjectionInv
  <2> QED
    BY <1>3, <1>0, <2>1, MergedTyped, WriteTyped DEF ReconWrite, Finish
<1>4. CASE ReconTask
  <2>1. other.item \in Items
    BY <1>4, <1>a DEF ReconTask, Doing, ProjectionInv
  <2>2. Merged(other.item, mirror) \in Mirrors
    BY <1>0, <2>1, MergedTyped
  <2>3. PICK row \in Mirrors \cup {None}: Write(row) /\ linked' = linked
    BY <1>0, <1>4, <2>2 DEF ReconTask, Finish
  <2> QED
    BY <1>0, <2>3, WriteTyped
<1>5. CASE LinkRead
  BY <1>5, <1>0, BeginTyped DEF LinkRead
<1>6. CASE LinkPr
  <2>1. other.seen \in Mirrors \cup {None}
    BY <1>6, <1>a DEF LinkPr, Doing
  <2>2. linked' \in Nat /\ Write(LinkedRow(other.seen))
    BY <1>6, <1>0, <2>1, LinkedTyped DEF LinkPr
  <2> QED
    BY <2>1, <2>2, LinkedTyped, WriteTyped
<1>7. CASE LinkCrash
  <2>1. linked' \in Nat
    BY <1>7, <1>0, LinkedTyped DEF LinkCrash
  <2> QED
    BY <1>7, <2>1, SpendTyped DEF LinkCrash, OtherElse, fileVars, TypeOK
<1>8. ASSUME NEW b \in Bodies, NEW p \in Plans, RevisePlan(b, p) PROVE TypeOK'
  <2> DEFINE v == [op |-> IF mirror.meta = None THEN None ELSE mirror.meta.op,
                   kind |-> "revision", plan |-> p, body |-> b]
  <2>1. mirror \in Mirrors
    BY <1>8, <1>0 DEF RevisePlan
  <2>2. v \in ReadyEvents
    BY <2>1 DEF ReadyEvents, Mirrors, Envelopes
  <2> HIDE DEF v
  <2>3. events' \in Seq(ReadyEvents) /\ spent' \in 0..MaxDisturbances
    <3>1. \/ events' = Append(events, v) /\ Spend
          \/ UNCHANGED <<events, spent>>
      BY <1>8 DEF RevisePlan, v
    <3>2. Append(events, v) \in Seq(ReadyEvents)
      BY <2>2 DEF TypeOK
    <3>3. Spend => spent' \in 0..MaxDisturbances
      BY SpendTyped
    <3> QED
      BY <3>1, <3>2, <3>3 DEF TypeOK
  <2>4. [mirror EXCEPT !.body = b, !.last = Len(events')] \in Mirrors
    <3>1. Len(events') \in Nat
      BY <2>3
    <3> QED
      BY <2>1, <3>1 DEF Mirrors
  <2>5. mirror' \in Mirrors
    BY <1>8, <2>4 DEF RevisePlan
  <2>6. UNCHANGED <<fileVars, deployed, shipped, ledger, linked, triaged, rec, other>>
    BY <1>8 DEF RevisePlan
  <2> QED
    BY <2>3, <2>5, <2>6 DEF fileVars, TypeOK
<1>9. CASE TriageMirror \/ TriageEvent
  BY <1>9, TriageTyped DEF TriageMirror, TriageEvent, OtherElse, fileVars, TypeOK
<1> QED
  BY <1>1, <1>2, <1>3, <1>4, <1>5, <1>6, <1>7, <1>8, <1>9 DEF OtherStep

\* The steps of checkouts and deployments.
TreeStep ==
    \/ \E h \in Hosts, e \in Envelopes:
          CreateFiles(h, e) \/ AdoptFiles(h, e) \/ MaterializeFiles(h, e)
    \/ \E h \in Hosts, b \in Bodies: EditItem(h, b)
    \/ \E h \in Hosts, p \in Plans: EditPlan(h, p)
    \/ \E h \in Hosts: Deploy(h)

LEMMA TreesTyped == ASSUME TypeOK, TreeStep PROVE TypeOK'
<1>1. ASSUME NEW h \in Hosts, NEW e \in Envelopes,
             CreateFiles(h, e) \/ AdoptFiles(h, e) \/ MaterializeFiles(h, e)
      PROVE  TypeOK'
  BY <1>1, FilesTyped DEF CreateFiles, AdoptFiles, MaterializeFiles
<1>2. ASSUME NEW h \in Hosts, NEW b \in Bodies, EditItem(h, b) PROVE TypeOK'
  <2>1. host[h].item \in Items /\ host[h] \in Trees
    BY <1>2 DEF EditItem, TypeOK, Trees
  <2>2. [host[h].item EXCEPT !.body = b] \in Items
    BY <2>1 DEF Items
  <2>3. [host[h] EXCEPT !.item = [host[h].item EXCEPT !.body = b]] \in Trees
    BY <2>1, <2>2, TreeTyped DEF TypeOK, Trees
  <2>4. host' = [host EXCEPT ![h] = [host[h] EXCEPT !.item = [host[h].item EXCEPT !.body = b]]]
    BY <1>2 DEF EditItem
  <2>5. host' \in [Hosts -> Trees]
    BY <2>3, <2>4 DEF TypeOK
  <2> QED
    BY <1>2, <2>5, SpendTyped DEF EditItem, TypeOK, dbVars
<1>3. ASSUME NEW h \in Hosts, NEW p \in Plans, EditPlan(h, p) PROVE TypeOK'
  <2>1. host[h] \in Trees
    BY DEF TypeOK
  <2>2. [host[h] EXCEPT !.plan = p] \in Trees
    BY <2>1 DEF Trees
  <2>3. host' \in [Hosts -> Trees] /\ drafts' \in [Hosts -> SUBSET Plans]
    BY <1>3, <2>2 DEF EditPlan, TypeOK
  <2> QED
    BY <1>3, <2>3, SpendTyped DEF EditPlan, TypeOK, dbVars
<1>4. ASSUME NEW h \in Hosts, Deploy(h) PROVE TypeOK'
  BY <1>4, SpendTyped DEF Deploy, TypeOK, dbVars, fileVars
<1> QED
  BY <1>1, <1>2, <1>3, <1>4 DEF TreeStep

\* The three kinds of steps.
LEMMA Steps ==
    ASSUME Next
    PROVE  \/ TreeStep
           \/ \E s \in Shells: RecStep(s) \/ RecCrash(s) \/ \E o \in Ops: RecStart(s, o)
           \/ OtherStep
  BY DEF Next, TreeStep, OtherStep

LEMMA Typed == ASSUME SplitInv, Next PROVE TypeOK'
  BY Steps, TreesTyped, RecordTyped, OtherTyped DEF SplitInv

----------------------------------------------------------------------------
(* What only grows. *)

Grows ==
    /\ \A o \in Ops: Recorded(o) => ledger'[o] = ledger[o]
    /\ shipped \subseteq shipped'
    /\ Len(events) <= Len(events')
    /\ \A i \in 1..Len(events): events'[i] = events[i]

LEMMA TreeFrame ==
    ASSUME SplitInv, TreeStep
    PROVE  /\ UNCHANGED <<ledger, events, mirror, linked, triaged, rec, other>>
           /\ shipped \subseteq shipped' /\ deployed' \in shipped'
<1> USE DEF SplitInv, dbVars
<1>1. ASSUME NEW h \in Hosts, NEW e \in Envelopes,
             CreateFiles(h, e) \/ AdoptFiles(h, e) \/ MaterializeFiles(h, e)
      PROVE  UNCHANGED <<deployed, shipped, dbVars, rec, other>>
  BY <1>1 DEF CreateFiles, AdoptFiles, MaterializeFiles, FilesWrite
<1>2. ASSUME NEW h \in Hosts, NEW b \in Bodies, EditItem(h, b)
      PROVE  UNCHANGED <<deployed, shipped, dbVars, rec, other>>
  BY <1>2 DEF EditItem
<1>3. ASSUME NEW h \in Hosts, NEW p \in Plans, EditPlan(h, p)
      PROVE  UNCHANGED <<deployed, shipped, dbVars, rec, other>>
  BY <1>3 DEF EditPlan
<1>4. ASSUME NEW h \in Hosts, Deploy(h)
      PROVE  /\ UNCHANGED <<dbVars, rec, other>>
             /\ shipped' = shipped \cup {deployed'}
  BY <1>4 DEF Deploy
<1> QED
  BY <1>1, <1>2, <1>3, <1>4 DEF TreeStep

LEMMA OtherFrame ==
    ASSUME SplitInv, OtherStep
    PROVE  /\ UNCHANGED <<deployed, shipped, ledger, rec>>
           /\ \/ events' = events
              \/ \E v \in ReadyEvents: v.kind = "revision" /\ events' = Append(events, v)
<1>1. ASSUME NEW b \in Bodies, NEW p \in Plans, RevisePlan(b, p)
      PROVE  /\ UNCHANGED <<deployed, shipped, ledger, rec>>
             /\ \/ events' = events
                \/ \E v \in ReadyEvents: v.kind = "revision" /\ events' = Append(events, v)
  <2> DEFINE v == [op |-> IF mirror.meta = None THEN None ELSE mirror.meta.op,
                   kind |-> "revision", plan |-> p, body |-> b]
  <2>1. v \in ReadyEvents /\ v.kind = "revision"
    BY <1>1 DEF RevisePlan, SplitInv, TypeOK, ReadyEvents, Mirrors, Envelopes
  <2> HIDE DEF v
  <2>2. events' = events \/ events' = Append(events, v)
    BY <1>1 DEF RevisePlan, v
  <2> QED
    BY <1>1, <2>1, <2>2 DEF RevisePlan
<1>2. ASSUME NEW mode \in {"full", "task"}, ReconItem(mode)
      PROVE  UNCHANGED <<deployed, shipped, ledger, rec, events>>
  BY <1>2 DEF ReconItem, Begin, OtherElse
<1>3. CASE ReconRead \/ ReconWrite \/ ReconTask
  BY <1>3 DEF ReconRead, ReconWrite, ReconTask, Finish, Write, OtherElse
<1>4. CASE LinkRead \/ LinkPr \/ LinkCrash
  BY <1>4 DEF LinkRead, LinkPr, LinkCrash, Begin, Write, OtherElse
<1>5. CASE TriageMirror \/ TriageEvent
  BY <1>5 DEF TriageMirror, TriageEvent, OtherElse
<1> QED
  BY <1>1, <1>2, <1>3, <1>4, <1>5 DEF OtherStep

\* What a record half appends in its SAVEPOINT.
Announcement(e) == [op |-> e.op, kind |-> "record", plan |-> e.plan, body |-> e.body]

\* The op of a record half under way.
LEMMA EnvelopeTyped ==
    ASSUME TypeOK, NEW s \in Shells, rec[s] # None
    PROVE  rec[s] \in Recordings /\ rec[s].env \in Envelopes /\ rec[s].env.op \in Ops
  BY DEF TypeOK, Recordings, Envelopes

\* The SAVEPOINT of a record half.
Announces(s) ==
    /\ At(s, "apply") /\ rec'[s] = None
    /\ ~Recorded(rec[s].env.op)
    /\ ledger' = [ledger EXCEPT ![rec[s].env.op] = LedgerRow(rec[s].env)]
    /\ events' = Append(events, Announcement(rec[s].env))
    /\ mirror' # None
    /\ mirror'.meta = rec[s].env /\ mirror'.body = rec[s].env.body
    /\ mirror'.planned /\ mirror'.last = Len(events) + 1
    /\ UNCHANGED <<linked, triaged>>

\* An adoption keeps the bindings of the row it has read.
LEMMA BindingsTyped ==
    ASSUME TypeOK, NEW s \in Shells, AdoptApply(s)
    PROVE  (rec[s].seen # None /\ rec[s].seen.pr) \in BOOLEAN
<1>0. rec[s].seen \in Mirrors \cup {None}
  BY EnvelopeTyped DEF AdoptApply, RecApply, At, Recordings
<1>1. CASE rec[s].seen \in Mirrors
  BY <1>1 DEF Mirrors
<1>2. CASE rec[s].seen = None
  BY <1>2
<1> QED
  BY <1>0, <1>1, <1>2

LEMMA ApplyFrame ==
    ASSUME TypeOK, NEW s \in Shells, NEW kind, NEW pr \in BOOLEAN, RecApply(s, kind, pr)
    PROVE  Goto(s, None) /\ (UNCHANGED dbVars \/ Announces(s))
<1>1. Goto(s, None)
  BY DEF RecApply
<1>2. rec'[s] = None
  BY <1>1 DEF Goto, TypeOK
<1> DEFINE e == rec[s].env
           m == RecordRow(e, pr)
<1>3. e \in Envelopes
  BY EnvelopeTyped DEF RecApply, At
<1>4. /\ m # None /\ m.meta = e /\ m.body = e.body
      /\ m.planned /\ m.last = Len(events) + 1
  BY <1>3, RecordRowTyped, NoneIsNothing DEF RecordRow
<1>5. \/ UNCHANGED dbVars
      \/ /\ ~Recorded(e.op)
         /\ ledger' = [ledger EXCEPT ![e.op] = LedgerRow(e)]
         /\ events' = Append(events, Announcement(e))
         /\ mirror' = m
         /\ UNCHANGED <<linked, triaged>>
  BY DEF RecApply, Insertable, Announcement
<1> HIDE DEF m
<1> QED
  BY <1>1, <1>2, <1>4, <1>5 DEF Announces, RecApply

\* A record half writes once, at its end, or not at all.
LEMMA RecordFrame ==
    ASSUME SplitInv, NEW s \in Shells,
           RecStep(s) \/ RecCrash(s) \/ \E o \in Ops: RecStart(s, o)
    PROVE  /\ UNCHANGED <<deployed, shipped, other>>
           /\ \A t \in Shells \ {s}: rec'[t] = rec[t]
           /\ UNCHANGED dbVars \/ Announces(s)
<1>0. TypeOK
  BY DEF SplitInv
<1>1. CASE \E o \in Ops: RecStart(s, o)
  <2>1. PICK o \in Ops: RecStart(s, o)
    BY <1>1
  <2> DEFINE r == [pc |-> "item", env |-> answer[o], plan |-> deployed.plan,
                   seen |-> None, known |-> {p \in Ops: Recorded(p)}]
  <2>2. Goto(s, r) /\ UNCHANGED dbVars
    BY <2>1 DEF RecStart
  <2> HIDE DEF r
  <2> QED
    BY <1>0, <2>2 DEF Goto, TypeOK
<1>2. ASSUME NEW kind, NEW next, RecItem(s, kind, next)
      PROVE  (\E r: Goto(s, r)) /\ UNCHANGED dbVars
  BY <1>2 DEF RecItem, Check
<1>3. CASE RecMirror(s)
  <2>1. (\E r: Goto(s, r)) /\ UNCHANGED dbVars
    BY <1>3 DEF RecMirror, Check
  <2> QED
    BY <1>0, <2>1 DEF Goto, TypeOK
<1>4. CASE RecCrash(s)
  BY <1>0, <1>4 DEF RecCrash, Goto, TypeOK
<1>5. CASE CreateItem(s) \/ AdoptItem(s) \/ MaterializeItem(s)
  <2>1. (\E r: Goto(s, r)) /\ UNCHANGED dbVars
    BY <1>2, <1>5 DEF CreateItem, AdoptItem, MaterializeItem
  <2> QED
    BY <1>0, <2>1 DEF Goto, TypeOK
<1>6. CASE CreateApply(s) \/ MaterializeApply(s) \/ AdoptApply(s)
  <2>1. Goto(s, None) /\ (UNCHANGED dbVars \/ Announces(s))
    BY <1>0, <1>6, ApplyFrame, BindingsTyped DEF CreateApply, MaterializeApply, AdoptApply
  <2> QED
    BY <1>0, <2>1 DEF Goto, TypeOK
<1> QED
  BY <1>1, <1>3, <1>4, <1>5, <1>6 DEF RecStep

LEMMA Appended ==
    ASSUME TypeOK, NEW v \in ReadyEvents, events' = Append(events, v)
    PROVE  /\ Len(events) \in Nat /\ Len(events') = Len(events) + 1
           /\ \A i \in 1..Len(events): events'[i] = events[i]
           /\ events'[Len(events) + 1] = v
  BY DEF TypeOK

LEMMA AnnouncementTyped ==
    ASSUME NEW e \in Envelopes
    PROVE  Announcement(e) \in ReadyEvents
  BY DEF Announcement, ReadyEvents, Envelopes

LEMMA Growing == ASSUME SplitInv, Next PROVE Grows
<1>0. TypeOK /\ Len(events) \in Nat
  BY DEF SplitInv, TypeOK
<1>1. CASE TreeStep
  BY <1>0, <1>1, TreeFrame DEF Grows
<1>2. CASE OtherStep
  <2>1. shipped' = shipped /\ ledger' = ledger
    BY <1>2, OtherFrame
  <2>2. CASE events' = events
    BY <1>0, <2>1, <2>2 DEF Grows
  <2>3. ASSUME NEW v \in ReadyEvents, events' = Append(events, v) PROVE Grows
    BY <1>0, <2>1, <2>3, Appended DEF Grows
  <2> QED
    BY <1>2, <2>2, <2>3, OtherFrame
<1>3. ASSUME NEW s \in Shells, RecStep(s) \/ RecCrash(s) \/ \E o \in Ops: RecStart(s, o)
      PROVE  Grows
  <2>1. shipped' = shipped
    BY <1>3, RecordFrame
  <2>2. CASE UNCHANGED dbVars
    BY <1>0, <2>1, <2>2 DEF Grows, dbVars
  <2>3. CASE Announces(s)
    <3>1. rec[s].env \in Envelopes /\ rec[s].env.op \in Ops
      BY <1>0, <2>3, EnvelopeTyped DEF Announces, At
    <3>2. \A o \in Ops: Recorded(o) => ledger'[o] = ledger[o]
      BY <1>0, <2>3, <3>1 DEF Announces, TypeOK
    <3>3. /\ Len(events') = Len(events) + 1
          /\ \A i \in 1..Len(events): events'[i] = events[i]
      BY <1>0, <2>3, <3>1, AnnouncementTyped, Appended DEF Announces
    <3> QED
      BY <1>0, <2>1, <3>2, <3>3 DEF Grows
  <2> QED
    BY <1>3, <2>2, <2>3, RecordFrame
<1> QED
  BY <1>1, <1>2, <1>3, Steps

----------------------------------------------------------------------------
(* Ledger and events. *)

LEMMA RowFrame ==
    ASSUME TypeOK, TypeOK', Grows, NEW o \in Ops, RowInv(o), ledger'[o] = ledger[o]
    PROVE  RowInv(o)'
<1>1. Len(events) \in Nat /\ Len(events') \in Nat
  BY DEF TypeOK
<1>2. /\ ItemShipped(ledger[o].env) => \E t \in shipped': Replayed(t.item, ledger[o].env)
      /\ PlanShipped(ledger[o].env.plan) => \E t \in shipped': t.plan = ledger[o].env.plan
  BY DEF ItemShipped, PlanShipped, Grows
<1> QED
  BY <1>1, <1>2 DEF RowInv, Recorded, ItemShipped, PlanShipped, Replayed, Grows

LEMMA EventFrame ==
    ASSUME Grows, NEW i \in 1..Len(events), EventInv(i)
    PROVE  EventInv(i)'
  BY DEF Grows, EventInv, Recorded

\* The SAVEPOINT joins a row and an event that point at each other.
LEMMA AnnouncedStep ==
    ASSUME SplitInv, TypeOK', Grows, NEW s \in Shells, Announces(s), UNCHANGED shipped
    PROVE  /\ \A o \in Ops: RowInv(o)'
           /\ \A i \in 1..Len(events'): EventInv(i)'
<1> DEFINE e == rec[s].env
           n == Len(events) + 1
<1>0. /\ TypeOK /\ e \in Envelopes /\ e.op \in Ops /\ Announcement(e) \in ReadyEvents
  BY EnvelopeTyped, AnnouncementTyped DEF SplitInv, Announces, At
<1>1. /\ Len(events) \in Nat /\ Len(events') = n
      /\ \A i \in 1..Len(events): events'[i] = events[i]
      /\ events'[n] = Announcement(e)
  BY <1>0, Appended DEF Announces
<1>2. /\ ledger'[e.op] = LedgerRow(e)
      /\ \A o \in Ops \ {e.op}: ledger'[o] = ledger[o]
  BY <1>0 DEF Announces, TypeOK
<1>3. LedgerRow(e).env = e /\ LedgerRow(e).event = n /\ LedgerRow(e) # None
  <2>1. LedgerRow(e) \in LedgerRows
    BY <1>0, RecordRowTyped
  <2> QED
    BY <2>1, NoneIsNothing DEF LedgerRow
<1>4. Announcement(e).kind = "record" /\ Announcement(e).op = e.op
  BY DEF Announcement
<1>5. ItemShipped(e) /\ PlanShipped(e.plan)
  BY DEF SplitInv, RecordingInv, Announces, At
<1> HIDE DEF e
<1>6. ASSUME NEW o \in Ops, o = e.op PROVE RowInv(o)'
  <2>1. /\ ledger'[e.op].env = e /\ ledger'[e.op].event = n /\ ledger'[e.op] # None
        /\ n \in 1..Len(events')
    BY <1>1, <1>2, <1>3
  <2>2. /\ \E t \in shipped': Replayed(t.item, e)
        /\ \E t \in shipped': t.plan = e.plan
    BY <1>5 DEF ItemShipped, PlanShipped
  <2> QED
    BY <1>1, <1>4, <1>6, <2>1, <2>2 DEF RowInv, Recorded, ItemShipped, PlanShipped, Replayed
<1>7. \A o \in Ops \ {e.op}: RowInv(o)'
  BY <1>0, <1>2, RowFrame DEF SplitInv
<1>8. ASSUME NEW i \in 1..Len(events') PROVE EventInv(i)'
  <2>1. CASE i = n
    BY <1>0, <1>1, <1>2, <1>3, <1>4, <2>1 DEF EventInv, Recorded
  <2>2. CASE i # n
    <3>1. i \in 1..Len(events)
      BY <1>1, <2>2
    <3> QED
      BY <3>1, EventFrame DEF SplitInv
  <2> QED
    BY <2>1, <2>2
<1> QED
  BY <1>6, <1>7, <1>8

LEMMA LedgerStep ==
    ASSUME SplitInv, Next
    PROVE  /\ \A o \in Ops: RowInv(o)'
           /\ \A i \in 1..Len(events'): EventInv(i)'
<1>0. TypeOK /\ TypeOK' /\ Grows /\ Len(events) \in Nat
  BY Typed, Growing DEF SplitInv, TypeOK
<1>1. CASE UNCHANGED <<ledger, events>>
  <2>1. \A o \in Ops: RowInv(o)'
    BY <1>0, <1>1, RowFrame DEF SplitInv
  <2>2. \A i \in 1..Len(events): EventInv(i)'
    BY <1>0, EventFrame DEF SplitInv
  <2> QED
    BY <1>1, <2>1, <2>2
<1>2. ASSUME NEW v \in ReadyEvents, v.kind = "revision", events' = Append(events, v),
             ledger' = ledger
      PROVE  /\ \A o \in Ops: RowInv(o)'
             /\ \A i \in 1..Len(events'): EventInv(i)'
  <2>1. \A o \in Ops: RowInv(o)'
    BY <1>0, <1>2, RowFrame DEF SplitInv
  <2>2. \A i \in 1..Len(events): EventInv(i)'
    BY <1>0, EventFrame DEF SplitInv
  <2>3. Len(events') = Len(events) + 1 /\ events'[Len(events) + 1] = v
    BY <1>0, <1>2, Appended
  <2>4. ASSUME NEW i \in 1..Len(events'), i \notin 1..Len(events) PROVE EventInv(i)'
    <3>1. i = Len(events) + 1
      BY <1>0, <2>3, <2>4
    <3> QED
      BY <1>2, <2>3, <3>1 DEF EventInv
  <2> QED
    BY <2>1, <2>2, <2>4
<1> QED
  BY <1>0, <1>1, <1>2, Steps, TreeFrame, OtherFrame, RecordFrame, AnnouncedStep DEF dbVars

----------------------------------------------------------------------------
(* What a record half carries across its steps. *)

LEMMA RecordingFrame ==
    ASSUME Grows, NEW s \in Shells, RecordingInv(s), rec'[s] = rec[s]
    PROVE  RecordingInv(s)'
<1> USE DEF Grows, RecordingInv, ItemShipped, PlanShipped, Replayed, Recorded
<1>1. CASE rec[s] = None
  BY <1>1
<1>2. CASE rec[s] # None
  <2>1. (\E t \in shipped: t.plan = rec[s].plan) => \E t \in shipped': t.plan = rec[s].plan
    OBVIOUS
  <2>2. rec[s].known \subseteq {p \in Ops: ledger[p] # None}
          => rec[s].known \subseteq {p \in Ops: ledger'[p] # None}
    OBVIOUS
  <2> QED
    BY <1>2, <2>1, <2>2
<1> QED
  BY <1>1, <1>2

LEMMA RecordingOwnStep ==
    ASSUME SplitInv, Grows, NEW s \in Shells,
           RecStep(s) \/ RecCrash(s) \/ \E o \in Ops: RecStart(s, o)
    PROVE  RecordingInv(s)'
<1>0. TypeOK /\ RecordingInv(s) /\ deployed \in shipped /\ deployed \in Trees
  BY DEF SplitInv, TypeOK
<1>n. rec'[s] = None => RecordingInv(s)'
  BY DEF RecordingInv
<1>g. \A r: Goto(s, r) => rec'[s] = r
  BY <1>0 DEF Goto, TypeOK
<1>1. CASE \E o \in Ops: RecStart(s, o)
  <2>1. PICK o \in Ops: RecStart(s, o)
    BY <1>1
  <2> DEFINE r == [pc |-> "item", env |-> answer[o], plan |-> deployed.plan,
                   seen |-> None, known |-> {p \in Ops: Recorded(p)}]
  <2>2. r.pc = "item" /\ r.plan = deployed.plan /\ r.known = {p \in Ops: Recorded(p)}
    OBVIOUS
  <2>3. Goto(s, r) /\ UNCHANGED <<dbVars, shipped>>
    BY <2>1 DEF RecStart, Goto
  <2> HIDE DEF r
  <2>4. rec'[s] = r
    BY <2>3, <1>g
  <2> QED
    BY <1>0, <2>2, <2>3, <2>4 DEF RecordingInv, PlanShipped, Recorded, dbVars
<1>2. ASSUME NEW kind, NEW next, RecItem(s, kind, next) PROVE RecordingInv(s)'
  <2> DEFINE e == rec[s].env
             r == [rec[s] EXCEPT !.pc = next]
  <2>1. \/ rec'[s] = None
        \/ /\ rec'[s] = r
           /\ Verified(deployed.item, rec[s].plan, e)
           /\ Others(e.op) = {} /\ ~Recorded(e.op)
    BY <1>2, <1>g DEF RecItem, Check
  <2>2. /\ rec[s] # None /\ r.plan = rec[s].plan /\ r.known = rec[s].known
        /\ r.env = e
    BY <1>0, <1>2, EnvelopeTyped DEF RecItem, At, Recordings
  <2> HIDE DEF r
  <2>3. CASE /\ rec'[s] = r
             /\ Verified(deployed.item, rec[s].plan, e)
             /\ Others(e.op) = {} /\ ~Recorded(e.op)
    <3>1. ItemShipped(e) /\ rec[s].plan = e.plan
      BY <1>0, <2>3 DEF ItemShipped, Verified
    <3>2. PlanShipped(rec[s].plan) /\ rec[s].known \subseteq {p \in Ops: Recorded(p)}
      BY <1>0, <2>2 DEF RecordingInv
    <3>3. rec[s].known \subseteq {e.op}
      BY <2>3, <3>2 DEF Others
    <3>4. shipped' = shipped /\ ledger' = ledger
      BY <1>2 DEF RecItem, Check, Goto, dbVars
    <3> HIDE DEF e
    <3> QED
      BY <2>2, <2>3, <3>1, <3>2, <3>3, <3>4
         DEF RecordingInv, ItemShipped, PlanShipped, Replayed, Recorded
  <2> QED
    BY <1>n, <2>1, <2>3
<1>3. CASE RecMirror(s)
  <2> DEFINE r == [rec[s] EXCEPT !.pc = "apply", !.seen = mirror]
  <2>1. rec'[s] = None \/ rec'[s] = r
    BY <1>3, <1>g DEF RecMirror, Check
  <2>2. /\ rec[s] # None /\ rec[s].pc = "mirror" /\ r.pc = "apply"
        /\ r.plan = rec[s].plan /\ r.known = rec[s].known /\ r.env = rec[s].env
    BY <1>0, <1>3, EnvelopeTyped DEF RecMirror, At, Recordings
  <2>3. shipped' = shipped /\ ledger' = ledger
    BY <1>3 DEF RecMirror, Check, Goto, dbVars
  <2> HIDE DEF r
  <2>4. CASE rec'[s] = r
    BY <1>0, <2>2, <2>3, <2>4
       DEF RecordingInv, ItemShipped, PlanShipped, Replayed, Recorded
  <2> QED
    BY <1>n, <2>1, <2>4
<1>4. ASSUME NEW kind, NEW pr, RecApply(s, kind, pr) PROVE RecordingInv(s)'
  BY <1>4, <1>g, <1>n DEF RecApply
<1>5. CASE RecCrash(s)
  BY <1>5, <1>g, <1>n DEF RecCrash
<1>6. CASE AdoptApply(s)
  BY <1>6, <1>g, <1>n DEF AdoptApply, RecApply
<1> QED
  BY <1>1, <1>2, <1>3, <1>4, <1>5, <1>6
     DEF RecStep, CreateItem, AdoptItem, MaterializeItem, CreateApply, MaterializeApply

LEMMA RecordingStep ==
    ASSUME SplitInv, Next, NEW s \in Shells
    PROVE  RecordingInv(s)'
<1>0. Grows /\ RecordingInv(s)
  BY Growing DEF SplitInv
<1>1. CASE TreeStep \/ OtherStep
  BY <1>0, <1>1, TreeFrame, OtherFrame, RecordingFrame
<1>2. ASSUME NEW t \in Shells, RecStep(t) \/ RecCrash(t) \/ \E o \in Ops: RecStart(t, o)
      PROVE  RecordingInv(s)'
  BY <1>0, <1>2, RecordFrame, RecordingFrame, RecordingOwnStep
<1> QED
  BY <1>1, <1>2, Steps

----------------------------------------------------------------------------
(* The task mirror and the copies that its writers hold. *)

\* Once an adoption has its ledger row it keeps it.
LEMMA AdoptedStays ==
    ASSUME Grows, NEW e \in Envelopes \cup {None}, Adopted(e)
    PROVE  Adopted(e)'
  BY DEF Grows, Adopted, Recorded, Envelopes

LEMMA MirrorFrame ==
    ASSUME Grows, NEW m \in Mirrors \cup {None}, MirrorInv(m)
    PROVE  MirrorInv(m)'
<1>1. CASE m = None
  BY <1>1 DEF MirrorInv
<1>2. CASE m # None
  BY <1>2, AdoptedStays DEF MirrorInv, Mirrors
<1> QED
  BY <1>1, <1>2

LEMMA ProjectionFrame ==
    ASSUME TypeOK, Grows, ProjectionInv, other' = other
    PROVE  ProjectionInv'
<1>1. CASE other = None
  BY <1>1 DEF ProjectionInv
<1>2. CASE other # None
  <2>1. other.seen \in Mirrors \cup {None} /\ other.item \in Items \cup {None}
    BY <1>2 DEF TypeOK, Projections
  <2>2. ASSUME NEW m \in Mirrors \cup {None}, m = other.seen PROVE MirrorInv(m)'
    BY <1>2, <2>2, MirrorFrame DEF ProjectionInv
  <2>3. ASSUME NEW e \in Envelopes \cup {None}, other.pc = "write", e = other.item.env
        PROVE  Adopted(e)'
    BY <1>2, <2>3, AdoptedStays DEF ProjectionInv
  <2>4. other.item # None => other.item.env \in Envelopes \cup {None}
    BY <2>1 DEF Items
  <2> QED
    BY <1>2, <2>1, <2>2, <2>3, <2>4 DEF ProjectionInv, MirrorInv, Adopted, Recorded
<1> QED
  BY <1>1, <1>2

\* A merge takes its envelope from the row or from the item.
LEMMA MergedKeeps ==
    ASSUME NEW m \in Mirrors \cup {None}, NEW i \in Items, MirrorInv(m), Adopted(i.env)
    PROVE  MirrorInv(Merged(i, m))
<1>1. CASE m = None
  BY <1>1 DEF Merged, MirrorInv
<1>2. CASE m # None
  <2>1. Merged(i, m).meta = IF m.meta = None THEN i.env ELSE m.meta
    BY <1>2 DEF Merged, Mirrors
  <2> QED
    BY <1>2, <2>1 DEF MirrorInv
<1> QED
  BY <1>1, <1>2

LEMMA BeginStep ==
    ASSUME TypeOK, MirrorInv(mirror), NEW pc \in {"full", "task", "link"},
           NEW item \in Items \cup {None}, NEW before \in Mirrors \cup {None},
           MirrorInv(before), pc # "link" => item # None, Begin(pc, item, before)
    PROVE  MirrorInv(mirror)' /\ ProjectionInv'
<1>1. /\ other'.pc = pc /\ other'.item = item /\ other'.seen = before
      /\ mirror' = mirror /\ ledger' = ledger
  BY DEF Begin, OtherElse
<1> QED
  BY <1>1 DEF MirrorInv, ProjectionInv, Adopted, Recorded

LEMMA WriteStep ==
    ASSUME NEW row, MirrorInv(row), Write(row)
    PROVE  MirrorInv(mirror)' /\ ProjectionInv'
  BY DEF Write, OtherElse, MirrorInv, ProjectionInv, Adopted, Recorded

LEMMA OtherKeeps == ASSUME SplitInv, OtherStep PROVE MirrorInv(mirror)' /\ ProjectionInv'
<1>0. /\ TypeOK /\ MirrorInv(mirror) /\ ProjectionInv
      /\ mirror \in Mirrors \cup {None} /\ deployed.item \in Items \cup {None}
      /\ ledger' = ledger
  BY OtherFrame DEF SplitInv, TypeOK, Trees
<1>a. other # None => /\ other \in Projections /\ other.seen \in Mirrors \cup {None}
                      /\ other.item \in Items \cup {None} /\ MirrorInv(other.seen)
  BY <1>0 DEF TypeOK, Projections, ProjectionInv
<1>n. MirrorInv(None)
  BY DEF MirrorInv
<1>1. ASSUME NEW mode \in {"full", "task"}, ReconItem(mode)
      PROVE  MirrorInv(mirror)' /\ ProjectionInv'
  BY <1>1, <1>0, <1>n, BeginStep DEF ReconItem
<1>2. CASE ReconRead
  <2> DEFINE w == [other EXCEPT !.pc = "write", !.seen = mirror]
  <2>1. mirror' = mirror /\ ledger' = ledger /\ other # None /\ other.pc = "full"
    BY <1>2 DEF ReconRead, OtherElse, Doing
  <2>2. w.pc = "write" /\ w.seen = mirror /\ w.item = other.item
    BY <1>a, <2>1 DEF Projections
  <2>3. other' = None \/ (other' = w /\ ~Pending(other.item.env))
    BY <1>2 DEF ReconRead
  <2> HIDE DEF w
  <2>4. other.item # None
    BY <1>0, <2>1 DEF ProjectionInv
  <2> QED
    BY <1>0, <2>1, <2>2, <2>3, <2>4
       DEF Pending, MirrorInv, ProjectionInv, Adopted, Recorded
<1>3. CASE ReconWrite
  <2>1. other.item \in Items /\ Adopted(other.item.env) /\ other # None
    BY <1>3, <1>0, <1>a DEF ReconWrite, Doing, ProjectionInv
  <2>2. MirrorInv(Merged(other.item, other.seen))
    BY <1>a, <2>1, MergedKeeps
  <2> QED
    BY <1>3, <2>2, WriteStep DEF ReconWrite, Finish
<1>4. CASE ReconTask
  <2>1. other.item \in Items
    BY <1>4, <1>0, <1>a DEF ReconTask, Doing, ProjectionInv
  <2>2. CASE Pending(other.item.env) \/ Conflicting(other.item, mirror)
    BY <1>4, <1>0, <2>2, WriteStep DEF ReconTask, Finish
  <2>3. CASE ~(Pending(other.item.env) \/ Conflicting(other.item, mirror))
    <3>1. MirrorInv(Merged(other.item, mirror))
      BY <1>0, <2>1, <2>3, MergedKeeps DEF Pending, Adopted
    <3> QED
      BY <1>4, <2>3, <3>1, WriteStep DEF ReconTask, Finish
  <2> QED
    BY <2>2, <2>3
<1>5. CASE LinkRead
  BY <1>5, <1>0, BeginStep DEF LinkRead
<1>6. CASE LinkPr
  <2>1. other # None /\ other.seen \in Mirrors \cup {None} /\ MirrorInv(other.seen)
    BY <1>6, <1>a DEF LinkPr, Doing
  <2>2. MirrorInv(LinkedRow(other.seen))
    <3>1. CASE other.seen = None
      BY <3>1 DEF LinkedRow, MirrorInv, Adopted
    <3>2. CASE other.seen # None
      <4>1. LinkedRow(other.seen).meta = other.seen.meta
        BY <2>1, <3>2 DEF LinkedRow, Mirrors
      <4> QED
        BY <2>1, <3>2, <4>1 DEF MirrorInv
    <3> QED
      BY <3>1, <3>2
  <2> QED
    BY <1>6, <2>2, WriteStep DEF LinkPr
<1>7. CASE LinkCrash
  BY <1>7, <1>0 DEF LinkCrash, OtherElse, MirrorInv, ProjectionInv, Adopted, Recorded
<1>8. ASSUME NEW b \in Bodies, NEW p \in Plans, RevisePlan(b, p)
      PROVE  MirrorInv(mirror)' /\ ProjectionInv'
  <2>1. mirror # None /\ mirror \in Mirrors /\ other' = other
    BY <1>8, <1>0 DEF RevisePlan
  <2>2. mirror' = [mirror EXCEPT !.body = b, !.last = Len(events')]
    BY <1>8 DEF RevisePlan
  <2>3. mirror'.meta = mirror.meta
    BY <2>1, <2>2 DEF Mirrors
  <2> QED
    BY <1>0, <2>1, <2>3 DEF MirrorInv, ProjectionInv, Adopted, Recorded
<1>9. CASE TriageMirror \/ TriageEvent
  <2>1. other' = other /\ (mirror' = mirror \/ mirror' = TriageRow)
    BY <1>9 DEF TriageMirror, TriageEvent
  <2>2. TriageRow.meta = None
    BY DEF TriageRow
  <2> QED
    BY <1>0, <2>1, <2>2 DEF MirrorInv, ProjectionInv, Adopted, Recorded
<1> QED
  BY <1>1, <1>2, <1>3, <1>4, <1>5, <1>6, <1>7, <1>8, <1>9 DEF OtherStep

LEMMA MirrorStep == ASSUME SplitInv, Next PROVE MirrorInv(mirror)' /\ ProjectionInv'
<1>0. TypeOK /\ Grows /\ MirrorInv(mirror) /\ ProjectionInv
  BY Growing DEF SplitInv
<1>k. ASSUME UNCHANGED <<mirror, other>> PROVE MirrorInv(mirror)' /\ ProjectionInv'
  <2>1. ASSUME NEW m \in Mirrors \cup {None}, m = mirror PROVE MirrorInv(m)'
    BY <1>0, <2>1, MirrorFrame
  <2> QED
    BY <1>0, <1>k, <2>1, ProjectionFrame DEF TypeOK, MirrorInv
<1>1. CASE TreeStep
  BY <1>1, <1>k, TreeFrame
<1>2. CASE OtherStep
  BY <1>2, OtherKeeps
<1>3. ASSUME NEW s \in Shells, RecStep(s) \/ RecCrash(s) \/ \E o \in Ops: RecStart(s, o)
      PROVE  MirrorInv(mirror)' /\ ProjectionInv'
  <2>1. CASE UNCHANGED dbVars
    BY <1>3, <1>k, <2>1, RecordFrame DEF dbVars
  <2>2. CASE Announces(s)
    <3>1. rec[s].env \in Envelopes /\ rec[s].env.op \in Ops
      BY <1>0, <2>2, EnvelopeTyped DEF Announces, At
    <3>2. LedgerRow(rec[s].env) # None
      BY <1>0, <3>1, RecordRowTyped, NoneIsNothing
    <3>3. ledger'[rec[s].env.op] # None
      BY <1>0, <2>2, <3>1, <3>2 DEF Announces, TypeOK
    <3>4. mirror'.meta = rec[s].env
      BY <2>2 DEF Announces
    <3>5. MirrorInv(mirror)'
      BY <3>3, <3>4 DEF MirrorInv, Adopted, Recorded
    <3>6. other' = other
      BY <1>3, RecordFrame
    <3> QED
      BY <1>0, <3>5, <3>6, ProjectionFrame
  <2> QED
    BY <1>3, <2>1, <2>2, RecordFrame
<1> QED
  BY <1>1, <1>2, <1>3, Steps

----------------------------------------------------------------------------
LEMMA Preserved == SplitInv /\ [Next]_vars => SplitInv'
<1> SUFFICES ASSUME SplitInv, [Next]_vars PROVE SplitInv'
  OBVIOUS
<1>1. CASE Next
  <2>1. (deployed \in shipped)'
    BY <1>1, Steps, TreeFrame, OtherFrame, RecordFrame DEF SplitInv
  <2> QED
    BY <1>1, <2>1, Typed, LedgerStep, RecordingStep, MirrorStep DEF SplitInv
<1>2. CASE UNCHANGED vars
  BY <1>2 DEF vars, SplitInv, TypeOK, RowInv, EventInv, MirrorInv, Adopted, RecordingInv,
              ProjectionInv, ItemShipped, PlanShipped, Replayed, Recorded
<1> QED
  BY <1>1, <1>2

LEMMA InitInv == Init => SplitInv
<1> SUFFICES ASSUME Init PROVE SplitInv
  OBVIOUS
<1>1. deployed \in shipped
  BY DEF Init
<1>2. Len(events) = 0
  BY DEF Init
<1> QED
  BY <1>1, <1>2, InitTyped
     DEF Init, SplitInv, RowInv, Recorded, MirrorInv, RecordingInv, ProjectionInv

LEMMA Invariance == Spec => []SplitInv
  BY InitInv, Preserved, PTL DEF Spec

\* The types.
THEOREM SplitTyped == Spec => []TypeOK
  BY Invariance, PTL DEF SplitInv

\* The record half of an operation announces it once, however often and by
\* however many commands it is retried: one SAVEPOINT and the primary key of
\* split_operations keep row and plan.ready event in step.
THEOREM AnnouncedOnce == Spec => []RecordedOnce
<1>1. SplitInv => RecordedOnce
  <2> SUFFICES ASSUME SplitInv, NEW o \in Ops
               PROVE  {i \in 1..Len(events): events[i].kind = "record" /\ events[i].op = o}
                        = IF Recorded(o) THEN {ledger[o].event} ELSE {}
    BY DEF RecordedOnce
  <2>1. ASSUME NEW i \in 1..Len(events), events[i].kind = "record", events[i].op = o
        PROVE  Recorded(o) /\ i = ledger[o].event
    BY <2>1 DEF SplitInv, EventInv
  <2>2. Recorded(o) => /\ ledger[o].event \in 1..Len(events)
                       /\ events[ledger[o].event].kind = "record"
                       /\ events[ledger[o].event].op = o
    BY DEF SplitInv, RowInv
  <2> QED
    BY <2>1, <2>2
<1> QED
  BY <1>1, Invariance, PTL

\* What the ledger says of an operation was verified on the deployed item and
\* plan (_verify_*_envelope_fingerprints): both were deployed.
THEOREM RecordedMeansDeployed == Spec => []RecordedWasDeployed
<1>1. SplitInv => RecordedWasDeployed
  BY DEF SplitInv, RowInv, RecordedWasDeployed, ItemShipped, PlanShipped
<1> QED
  BY <1>1, Invariance, PTL

\* No writer of the task mirror, however stale the row it read, lets the mirror
\* claim an adoption whose record half is still pending.
THEOREM AdoptionsAreRecorded == Spec => []AdoptionIsRecorded
<1>1. SplitInv => AdoptionIsRecorded
  BY DEF SplitInv, MirrorInv, Adopted, AdoptionIsRecorded
<1> QED
  BY <1>1, Invariance, PTL

\* A task gets a ledger row under a second operation only from a command that
\* was already under way when the first row was written (list_split_operations
\* is read once, before the SAVEPOINT).
THEOREM SecondRowsOverlapped == Spec => SecondRowOverlapped
<1> DEFINE Overlaps == \A s \in Shells:
              At(s, "apply") /\ ledger' # ledger /\ rec'[s] # rec[s]
                => rec[s].known \subseteq {rec[s].env.op}
<1>1. SplitInv /\ [Next]_vars => [Overlaps]_vars
  BY DEF SplitInv, RecordingInv, At
<1> QED
  BY <1>1, Invariance, PTL DEF Spec, SecondRowOverlapped

----------------------------------------------------------------------------
(* The projection doctor. *)

\* A recorded operation has a task mirror: no writer removes it.
MirrorKept == \A o \in Ops: Recorded(o) => mirror # None

LEMMA MirrorKeptStep == ASSUME SplitInv, MirrorKept, [Next]_vars PROVE MirrorKept'
<1>0. /\ TypeOK /\ ProjectionInv /\ mirror \in Mirrors \cup {None}
  BY DEF SplitInv, TypeOK
<1>1. CASE UNCHANGED <<ledger, mirror>>
  BY <1>1 DEF MirrorKept, Recorded
<1>2. ASSUME UNCHANGED ledger, mirror # None => mirror' # None PROVE MirrorKept'
  BY <1>2 DEF MirrorKept, Recorded
<1>3. CASE TreeStep
  BY <1>1, <1>3, TreeFrame
<1>4. ASSUME NEW s \in Shells, RecStep(s) \/ RecCrash(s) \/ \E o \in Ops: RecStart(s, o)
      PROVE  MirrorKept'
  BY <1>1, <1>4, RecordFrame DEF Announces, MirrorKept, dbVars
<1>5. CASE OtherStep
  <2>1. TypeOK' /\ ledger' = ledger
    BY <1>0, <1>5, OtherTyped, OtherFrame
  <2>a. other # None => other.item \in Items \cup {None} /\ other.seen \in Mirrors \cup {None}
    BY <1>0 DEF TypeOK, Projections
  <2>2. CASE ReconWrite
    <3>1. Merged(other.item, other.seen) \in Mirrors
      BY <1>0, <2>2, <2>a, MergedTyped DEF ReconWrite, Doing, ProjectionInv
    <3> QED
      BY <1>2, <2>1, <2>2, <3>1, NoneIsNothing DEF ReconWrite, Finish, Write
  <2>3. CASE ReconTask
    <3>1. Merged(other.item, mirror) \in Mirrors
      BY <1>0, <2>3, <2>a, MergedTyped DEF ReconTask, Doing, ProjectionInv
    <3>2. mirror' \in {mirror, Merged(other.item, mirror)}
      BY <2>3 DEF ReconTask, Finish, Write
    <3> QED
      BY <1>2, <2>1, <3>1, <3>2, NoneIsNothing
  <2>4. CASE LinkPr
    <3>1. LinkedRow(other.seen) \in Mirrors
      BY <1>0, <2>4, <2>a, LinkedTyped DEF LinkPr, Doing
    <3> QED
      BY <1>2, <2>1, <2>4, <3>1, NoneIsNothing DEF LinkPr, Write
  <2>5. ASSUME NEW b \in Bodies, NEW p \in Plans, RevisePlan(b, p) PROVE MirrorKept'
    <3>1. mirror \in Mirrors
      BY <1>0, <2>5 DEF RevisePlan
    <3>2. Len(events') \in Nat
      BY <2>1 DEF TypeOK
    <3>3. [mirror EXCEPT !.body = b, !.last = Len(events')] \in Mirrors
      BY <3>1, <3>2 DEF Mirrors
    <3>4. mirror' = [mirror EXCEPT !.body = b, !.last = Len(events')]
      BY <2>5 DEF RevisePlan
    <3> QED
      BY <1>2, <2>1, <3>3, <3>4, NoneIsNothing
  <2>6. CASE TriageMirror
    BY <1>2, <2>1, <2>6, TriageTyped, NoneIsNothing DEF TriageMirror
  <2>7. CASE \/ \E mode \in {"full", "task"}: ReconItem(mode)
             \/ ReconRead \/ LinkRead \/ LinkCrash \/ TriageEvent
    BY <1>2, <2>1, <2>7 DEF ReconItem, ReconRead, LinkRead, LinkCrash, TriageEvent, Begin
  <2> QED
    BY <1>5, <2>2, <2>3, <2>4, <2>5, <2>6, <2>7 DEF OtherStep
<1>6. CASE UNCHANGED vars
  BY <1>1, <1>6 DEF vars
<1> QED
  BY <1>3, <1>4, <1>5, <1>6, Steps

LEMMA MirrorKeptAlways == Spec => []MirrorKept
<1>1. Init => MirrorKept
  BY DEF Init, MirrorKept, Recorded
<1> QED
  BY <1>1, MirrorKeptStep, Invariance, PTL DEF Spec

\* What was announced is still there, so the doctor sees the same event.
LEMMA OperationFindingsStay ==
    ASSUME SplitInv, Grows, NEW o \in Ops, Recorded(o), UNCHANGED <<deployed, ledger>>,
           Len(events') \in Nat
    PROVE  OperationFindings(o)' = OperationFindings(o) /\ TargetConflict' = TargetConflict
<1>1. Len(events) \in Nat /\ ledger[o].event \in 1..Len(events)
  BY DEF SplitInv, TypeOK, RowInv
<1>2. /\ events'[ledger[o].event] = events[ledger[o].event]
      /\ ledger[o].event \in 1..Len(events')
  BY <1>1 DEF Grows
<1>3. /\ ReadyEvent(o)' = ReadyEvent(o) /\ Row(o)' = Row(o)
      /\ EventMissing(o)' = EventMissing(o) /\ Orphaned' = Orphaned
  BY <1>1, <1>2 DEF ReadyEvent, Row, EventMissing, Orphaned
<1>4. /\ EventMismatch(o)' = EventMismatch(o) /\ ProofErrors(o)' = ProofErrors(o)
      /\ IdentityErrors(o)' = IdentityErrors(o) /\ PlanMoved(o)' = PlanMoved(o)
      /\ Rebound(o)' = Rebound(o) /\ ShapeDrift(o)' = ShapeDrift(o)
  BY <1>3 DEF EventMismatch, ProofErrors, IdentityErrors, PlanMoved, Rebound, ShapeDrift
<1>5. OperationFindings(o)' = OperationFindings(o)
  BY <1>3, <1>4, Zenon DEF OperationFindings
<1>6. TargetConflict' = TargetConflict
  <2>1. RecordedOps' = RecordedOps
    BY DEF RecordedOps, Recorded
  <2> QED
    BY <2>1 DEF TargetConflict
<1> QED
  BY <1>5, <1>6

LEMMA MirrorFindingsShrink ==
    ASSUME NEW o \in Ops, mirror # None, mirror' # None,
           MetadataDrift(o)' \/ PayloadDrift(o)' => MetadataDrift(o) \/ PayloadDrift(o),
           EventRegression(o)' => EventRegression(o)
    PROVE  MirrorFindings(o)' \subseteq MirrorFindings(o)
  BY DEF MirrorFindings

\* While item and ledger stay, only the mirror can give rise to a finding.
LEMMA FindingsFollowMirror ==
    ASSUME SplitInv, Grows, NEW o \in Ops, UNCHANGED <<deployed, ledger>>,
           Len(events') \in Nat,
           Recorded(o) => MirrorFindings(o)' \subseteq MirrorFindings(o)
    PROVE  Findings(o)' \subseteq Findings(o)
<1>1. Recorded(o)' = Recorded(o)
  BY DEF Recorded
<1>2. CASE Recorded(o)
  <2>1. OperationFindings(o)' = OperationFindings(o) /\ TargetConflict' = TargetConflict
    BY <1>2, OperationFindingsStay
  <2> QED
    BY <1>1, <1>2, <2>1, Zenon DEF Findings
<1>3. CASE ~Recorded(o)
  <2>1. FilePending(o)' = FilePending(o)
    BY <1>1 DEF FilePending, Orphaned
  <2> QED
    BY <1>1, <1>3, <2>1 DEF Findings
<1> QED
  BY <1>2, <1>3

\* A record half that nothing overtook leaves nothing to report.
LEMMA AnnouncedIsClean ==
    ASSUME SplitInv, TypeOK', NEW s \in Shells, Announces(s), UNCHANGED deployed,
           Verified(deployed.item, deployed.plan, rec[s].env), Others(rec[s].env.op) = {},
           NEW o \in Ops, o = rec[s].env.op
    PROVE  Findings(o)' = {}
<1> DEFINE e == rec[s].env
           n == Len(events) + 1
<1>0. TypeOK /\ e \in Envelopes /\ Announcement(e) \in ReadyEvents
  BY EnvelopeTyped, AnnouncementTyped DEF SplitInv, Announces, At
<1>1. /\ Len(events) \in Nat /\ Len(events') = n /\ events'[n] = Announcement(e)
  BY <1>0, Appended DEF Announces
<1>2. LedgerRow(e) \in LedgerRows /\ LedgerRow(e).env = e /\ LedgerRow(e).event = n
  BY <1>0, RecordRowTyped DEF LedgerRow
<1>3. /\ ledger'[o] = LedgerRow(e) /\ LedgerRow(e) # None
      /\ \A p \in Ops \ {o}: ledger'[p] = ledger[p]
  BY <1>0, <1>2, NoneIsNothing DEF Announces, TypeOK
<1>4. /\ deployed.item # None /\ deployed.item.env = e /\ deployed.item.body = e.body
      /\ deployed.plan = e.plan
  BY DEF Verified, Replayed
<1>5. e # None /\ e.op = o
  BY <1>0, NoneIsNothing
<1>6. /\ Announcement(e).kind = "record" /\ Announcement(e).op = o
      /\ Announcement(e).plan = e.plan /\ Announcement(e).body = e.body
  BY <1>5 DEF Announcement
<1>7. /\ mirror' # None /\ mirror'.meta = e /\ mirror'.body = e.body
      /\ mirror'.planned /\ mirror'.last = n
  BY DEF Announces
<1> HIDE DEF e
<1>8. Row(o)' = e /\ ReadyEvent(o)' = Announcement(e) /\ Recorded(o)'
  BY <1>1, <1>2, <1>3 DEF Row, ReadyEvent, Recorded
<1>9. ~TargetConflict'
  <2>1. \A p \in Ops \ {o}: ledger[p] = None
    BY DEF Others, Recorded
  <2>2. RecordedOps' = {o}
    BY <2>1, <1>3, <1>8 DEF RecordedOps, Recorded
  <2>3. Cardinality({o}) = 1
    BY FS_Singleton
  <2> QED
    BY <2>2, <2>3 DEF TargetConflict
<1>10. OperationFindings(o)' = {}
  <2>1. ~Orphaned' /\ ~Rebound(o)' /\ ~ShapeDrift(o)'
    BY <1>4, <1>5, <1>8 DEF Orphaned, Rebound, ShapeDrift
  <2>2. ~EventMissing(o)' /\ ~EventMismatch(o)'
    BY <1>1, <1>2, <1>3, <1>6, <1>8 DEF EventMissing, EventMismatch
  <2>3. ~ProofErrors(o)' /\ ~IdentityErrors(o)' /\ ~PlanMoved(o)'
    BY <1>4, <1>6, <1>8 DEF ProofErrors, IdentityErrors, PlanMoved
  <2> QED
    BY <2>1, <2>2, <2>3 DEF OperationFindings
<1>11. MirrorFindings(o)' = {}
  <2>1. ~MetadataDrift(o)' /\ ~PayloadDrift(o)'
    BY <1>4, <1>7, <1>8 DEF MetadataDrift, PayloadDrift
  <2>2. ~EventRegression(o)'
    BY <1>1, <1>2, <1>3, <1>7 DEF EventRegression
  <2> QED
    BY <1>7, <2>1, <2>2 DEF MirrorFindings
<1> QED
  BY <1>8, <1>9, <1>10, <1>11 DEF Findings

\* A merge with current reads, a first pr link and a revision of what is
\* deployed leave the mirror no worse than it was.
LEMMA MergeIsClean ==
    ASSUME SplitInv, NEW o \in Ops, Recorded(o), mirror # None,
           deployed.item # None, mirror' = Merged(deployed.item, mirror),
           UNCHANGED <<deployed, ledger>>
    PROVE  MirrorFindings(o)' \subseteq MirrorFindings(o)
<1>0. /\ mirror \in Mirrors /\ deployed.item \in Items
      /\ Row(o) \in Envelopes /\ Row(o) # None
  <2>1. ledger[o] \in LedgerRows
    BY DEF SplitInv, TypeOK, Recorded
  <2> QED
    BY <2>1, NoneIsNothing DEF SplitInv, TypeOK, Trees, LedgerRows, Row
<1>1. mirror' \in Mirrors
  BY <1>0, MergedTyped
<1>2. /\ mirror'.body = deployed.item.body
      /\ mirror'.meta = IF mirror.meta = None THEN deployed.item.env ELSE mirror.meta
      /\ mirror'.planned = mirror.planned /\ mirror'.last = mirror.last
  BY <1>0 DEF Merged, Mirrors
<1>3. Row(o)' = Row(o)
  BY DEF Row
<1>4. CASE mirror.meta = None
  <2>1. MetadataDrift(o)
    BY <1>0, <1>4 DEF MetadataDrift
  <2> QED
    BY <1>1, <1>2, <2>1, MirrorFindingsShrink, NoneIsNothing DEF EventRegression
<1>5. CASE mirror.meta # None
  <2>1. MetadataDrift(o)' = MetadataDrift(o)
    BY <1>2, <1>3, <1>5 DEF MetadataDrift
  <2>2. PayloadDrift(o)' => PayloadDrift(o)
    BY <1>2, <1>5 DEF PayloadDrift
  <2> QED
    BY <1>1, <1>2, <2>1, <2>2, MirrorFindingsShrink, NoneIsNothing DEF EventRegression
<1> QED
  BY <1>4, <1>5

LEMMA SameMirrorIsClean ==
    ASSUME NEW o \in Ops, UNCHANGED <<deployed, ledger, mirror>>
    PROVE  MirrorFindings(o)' \subseteq MirrorFindings(o)
<1>1. /\ MetadataDrift(o)' = MetadataDrift(o) /\ PayloadDrift(o)' = PayloadDrift(o)
      /\ EventRegression(o)' = EventRegression(o)
  BY DEF MetadataDrift, PayloadDrift, EventRegression, Row
<1> QED
  BY <1>1 DEF MirrorFindings

LEMMA LinkIsClean ==
    ASSUME SplitInv, NEW o \in Ops, Recorded(o), mirror # None, mirror' = LinkedRow(mirror),
           UNCHANGED <<deployed, ledger>>, linked = None \/ ~(linked < ledger[o].event)
    PROVE  MirrorFindings(o)' \subseteq MirrorFindings(o)
<1>0. /\ mirror \in Mirrors /\ Len(events) \in Nat /\ linked \in Nat \cup {None}
      /\ ledger[o].event \in 1..Len(events)
  BY DEF SplitInv, TypeOK, RowInv
<1>1. mirror' \in Mirrors
  BY <1>0, LinkedTyped DEF SplitInv
<1>2. /\ mirror'.body = mirror.body /\ mirror'.meta = mirror.meta
      /\ mirror'.planned = mirror.planned /\ mirror'.last = LinkEvent
  BY <1>0 DEF LinkedRow, Mirrors
<1>3. MetadataDrift(o)' = MetadataDrift(o) /\ PayloadDrift(o)' = PayloadDrift(o)
  BY <1>2 DEF MetadataDrift, PayloadDrift, Row
<1>4. ~EventRegression(o)'
  <2>1. ~(LinkEvent < ledger[o].event)
    BY <1>0 DEF LinkEvent
  <2> QED
    BY <1>2, <2>1 DEF EventRegression
<1> QED
  BY <1>1, <1>3, <1>4, MirrorFindingsShrink, NoneIsNothing

LEMMA RevisionIsClean ==
    ASSUME SplitInv, TypeOK', Grows, NEW o \in Ops, Recorded(o), NEW b \in Bodies, NEW p \in Plans,
           RevisePlan(b, p), ~RevisedAhead
    PROVE  MirrorFindings(o)' \subseteq MirrorFindings(o)
<1>0. /\ mirror \in Mirrors /\ Len(events) \in Nat /\ Len(events') \in Nat
      /\ ledger[o].event \in 1..Len(events)
      /\ UNCHANGED <<deployed, ledger, rec, other>>
      /\ mirror' = [mirror EXCEPT !.body = b, !.last = Len(events')]
  BY DEF SplitInv, TypeOK, RowInv, RevisePlan
<1>1. CASE mirror' = mirror
  BY <1>0, <1>1, SameMirrorIsClean
<1>2. CASE mirror' # mirror
  <2>1. deployed.item # None /\ mirror'.body = deployed.item.body
    BY <1>0, <1>2 DEF RevisedAhead
  <2>2. /\ mirror' \in Mirrors /\ mirror'.meta = mirror.meta
        /\ mirror'.planned = mirror.planned /\ mirror'.last = Len(events')
    BY <1>0 DEF Mirrors
  <2>3. MetadataDrift(o)' = MetadataDrift(o)
    BY <1>0, <2>2 DEF MetadataDrift, Row
  <2>4. PayloadDrift(o)' => PayloadDrift(o)
    BY <1>0, <2>1, <2>2 DEF PayloadDrift
  <2>5. ~EventRegression(o)'
    BY <1>0, <2>2 DEF EventRegression, Grows
  <2> QED
    BY <1>0, <2>2, <2>3, <2>4, <2>5, MirrorFindingsShrink, NoneIsNothing
<1> QED
  BY <1>1, <1>2

\* A step of another writer of the row, of a checkout or of a reader.
LEMMA OthersExplained ==
    ASSUME SplitInv, MirrorKept, NEW o \in Ops, Next, OtherStep
    PROVE  \/ Findings(o)' \subseteq Findings(o)
           \/ StaleWriter \/ RevisedAhead \/ Retriaged \/ Relinked(o)
<1>0. /\ TypeOK /\ TypeOK' /\ Grows /\ ProjectionInv /\ Len(events') \in Nat
      /\ UNCHANGED <<deployed, ledger, rec>> /\ mirror \in Mirrors \cup {None}
  BY Typed, Growing, OtherFrame DEF SplitInv, TypeOK
<1>k. ASSUME Recorded(o) => MirrorFindings(o)' \subseteq MirrorFindings(o)
      PROVE  Findings(o)' \subseteq Findings(o)
  BY <1>0, <1>k, FindingsFollowMirror
<1>1. CASE mirror' = mirror
  BY <1>0, <1>1, <1>k, SameMirrorIsClean
<1>2. CASE ReconWrite /\ ~StaleWriter
  <2>1. /\ other # None /\ other.pc = "write" /\ other.item # None
        /\ mirror' = Merged(other.item, other.seen) /\ other' = None
    BY <1>0, <1>2 DEF ReconWrite, Finish, Write, Doing, ProjectionInv
  <2>2. other.seen = mirror /\ other.item = deployed.item
    BY <1>2, <2>1 DEF StaleWriter, Doing
  <2> QED
    BY <1>0, <1>k, <2>1, <2>2, MergeIsClean DEF MirrorKept
<1>3. CASE ReconTask /\ ~StaleWriter
  <2>1. /\ other # None /\ other.pc = "task" /\ other.item # None /\ other' = None
        /\ mirror' = mirror \/ mirror' = Merged(other.item, mirror)
    BY <1>0, <1>3 DEF ReconTask, Finish, Write, Doing, ProjectionInv
  <2>2. other.item = deployed.item
    BY <1>3, <2>1 DEF StaleWriter, Doing
  <2> QED
    BY <1>0, <1>1, <1>k, <2>1, <2>2, MergeIsClean DEF MirrorKept
<1>4. CASE LinkPr /\ ~StaleWriter /\ ~Relinked(o)
  <2>1. /\ other # None /\ other.pc = "link" /\ other' = None
        /\ mirror' = LinkedRow(other.seen)
    BY <1>4 DEF LinkPr, Write, Doing
  <2>2. other.seen = mirror
    BY <1>4, <2>1 DEF StaleWriter, Doing
  <2>3. linked = None \/ ~(linked < ledger[o].event)
    BY <1>4, <2>1 DEF Relinked, Doing
  <2> QED
    BY <1>0, <1>k, <2>1, <2>2, <2>3, LinkIsClean DEF MirrorKept
<1>5. ASSUME NEW b \in Bodies, NEW p \in Plans, RevisePlan(b, p), ~RevisedAhead
      PROVE  Findings(o)' \subseteq Findings(o)
  BY <1>0, <1>k, <1>5, RevisionIsClean
<1>6. CASE TriageMirror
  BY <1>6 DEF TriageMirror, Retriaged
<1>7. CASE \/ \E mode \in {"full", "task"}: ReconItem(mode)
           \/ ReconRead \/ LinkRead \/ LinkCrash \/ TriageEvent
  <2>1. mirror' = mirror
    BY <1>7 DEF ReconItem, ReconRead, LinkRead, LinkCrash, TriageEvent, Begin
  <2> QED
    BY <1>1, <2>1
<1> QED
  BY <1>2, <1>3, <1>4, <1>5, <1>6, <1>7 DEF OtherStep

\* A step of a record half.
LEMMA RecordExplained ==
    ASSUME SplitInv, NEW o \in Ops, Next, NEW s \in Shells,
           RecStep(s) \/ RecCrash(s) \/ \E p \in Ops: RecStart(s, p)
    PROVE  Findings(o)' \subseteq Findings(o) \/ RecordedLate(o) \/ RecordedOther(o)
<1>0. /\ TypeOK /\ TypeOK' /\ Grows /\ Len(events') \in Nat /\ deployed' = deployed
  BY Typed, Growing, RecordFrame DEF SplitInv, TypeOK
<1>1. CASE UNCHANGED dbVars
  BY <1>0, <1>1, SameMirrorIsClean, FindingsFollowMirror DEF dbVars
<1>2. CASE Announces(s)
  <2> DEFINE e == rec[s].env
  <2>0. /\ e \in Envelopes /\ e.op \in Ops /\ ~Recorded(e.op)
        /\ ledger' = [ledger EXCEPT ![e.op] = LedgerRow(e)]
    BY <1>0, <1>2, EnvelopeTyped DEF Announces, At
  <2>1. LedgerRow(e) # None /\ LedgerRow(e).env = e
    BY <1>0, <2>0, RecordRowTyped, NoneIsNothing DEF LedgerRow
  <2>2. ledger'[e.op] = LedgerRow(e) /\ \A p \in Ops \ {e.op}: ledger'[p] = ledger[p]
    BY <1>0, <2>0 DEF TypeOK
  <2>3. CASE o = e.op
    <3>1. ~Recorded(o) /\ Recorded(o)' /\ Row(o)' = e
      BY <2>0, <2>1, <2>2, <2>3 DEF Recorded, Row
    <3>2. CASE Verified(deployed.item, deployed.plan, e) /\ Others(o) = {}
      BY <1>0, <1>2, <2>3, <3>2, AnnouncedIsClean
    <3>3. CASE ~(Verified(deployed.item, deployed.plan, e) /\ Others(o) = {})
      BY <3>1, <3>3 DEF RecordedLate
    <3> QED
      BY <3>2, <3>3
  <2>4. CASE o # e.op /\ Recorded(o)
    <3>1. ledger' # ledger
      BY <2>0, <2>1, <2>2 DEF Recorded
    <3> QED
      BY <2>4, <3>1 DEF RecordedOther
  <2>5. CASE o # e.op /\ ~Recorded(o)
    <3>1. ~Recorded(o)' /\ FilePending(o)' = FilePending(o)
      BY <1>0, <2>2, <2>5 DEF Recorded, FilePending, Orphaned
    <3> QED
      BY <2>5, <3>1 DEF Findings
  <2> QED
    BY <2>3, <2>4, <2>5
<1> QED
  BY <1>1, <1>2, RecordFrame

\* What the projection doctor newly reports of an operation has a cause that the
\* operator can be told: a deployment, a record half or writer overtaken, another
\* operation of the task, a revision ahead of its deployment, triage, or a pr link
\* announced before.
THEOREM FindingsHaveCauses == Spec => FindingsAreExplained
<1> DEFINE Explained == \A o \in Ops:
              Findings(o)' \subseteq Findings(o)
              \/ Deployed \/ RecordedLate(o) \/ RecordedOther(o) \/ StaleWriter
              \/ RevisedAhead \/ Retriaged \/ Relinked(o)
<1>1. SplitInv /\ MirrorKept /\ [Next]_vars => [Explained]_vars
  <2> SUFFICES ASSUME SplitInv, MirrorKept, Next, NEW o \in Ops
               PROVE  \/ Findings(o)' \subseteq Findings(o)
                      \/ Deployed \/ RecordedLate(o) \/ RecordedOther(o) \/ StaleWriter
                      \/ RevisedAhead \/ Retriaged \/ Relinked(o)
    OBVIOUS
  <2>1. CASE TreeStep
    <3>1. Grows /\ Len(events') \in Nat
      BY Typed, Growing DEF TypeOK
    <3> QED
      BY <2>1, <3>1, TreeFrame, SameMirrorIsClean, FindingsFollowMirror DEF Deployed
  <2>2. CASE OtherStep
    BY <2>2, OthersExplained
  <2>3. ASSUME NEW s \in Shells, RecStep(s) \/ RecCrash(s) \/ \E p \in Ops: RecStart(s, p)
        PROVE  Findings(o)' \subseteq Findings(o) \/ RecordedLate(o) \/ RecordedOther(o)
    BY <2>3, RecordExplained
  <2> QED
    BY <2>1, <2>2, <2>3, Steps
<1> QED
  BY <1>1, Invariance, MirrorKeptAlways, PTL DEF Spec, FindingsAreExplained

-----------------------------------------------------------------------------
(* Pull requests: the inductive invariant                                     *)
\* A pull request that is named anywhere is one that GitHub has.
Exists(p) == p # Unset => prs[p] # Unset

\* What is said of a head was seen of it, or the head moved during the check.
Vouched(what, p, head) == <<what, p, head>> \in seen \/ <<p, head>> \in raced

BranchInv ==
    \A b \in Branches:
        /\ ref[b] # Unset => <<b, ref[b]>> \in pushed
        /\ \A c \in Commits: <<b, c>> \in pushed => ref[b] # Unset

PrInv(p) ==
    prs[p] # Unset =>
        /\ <<prs[p].branch, prs[p].head>> \in pushed
        /\ prs[p].review = "approved" => <<"approved", p, prs[p].head>> \in seen
        /\ prs[p].checks = "passed" => <<"passed", p, prs[p].head>> \in seen

TaskInv(t) ==
    /\ \A d \in Dbs: Exists(mirrors[d][t].pr)
    /\ review[t] # Unset /\ review[t].ok =>
           Vouched("approved", review[t].pr, review[t].head)
    /\ ci[t] # Unset /\ ci[t].ok => Vouched("passed", ci[t].pr, ci[t].head)

Published(h, p) ==
    LET row == mirrors[DbOf[h]][p.task] IN
        /\ Exists(p.expected)
        /\ p.pc \in {"check", "write", "record"} =>
               /\ p.pr # Unset
               /\ prs[p.pr] # Unset
               /\ prs[p.pr].branch = p.branch
        /\ \/ p.pc \in {"create", "check", "write", "record"}
           \/ p.pc = "discover" /\ p.expected = Unset
           => <<p.branch, p.commit>> \in pushed
        /\ p.pc = "write" =>
               /\ p.ver <= row.ver
               /\ row.ver = p.ver => ~BoundElsewhere(row, p.pr)
PublishInv(h) == pub[h] # Unset => Published(h, pub[h])

WriterInv(w) ==
    wr[w] # Unset =>
        LET row == mirrors[Server][wr[w].task] IN
        /\ Exists(wr[w].row.pr)
        /\ wr[w].row.ver <= row.ver
        /\ wr[w].row.ver = row.ver => wr[w].row = row

Says(kind) == IF kind = "review" THEN "approved" ELSE "passed"

CheckerInv(k) ==
    chk[k] # Unset =>
        /\ prs[chk[k].pr] # Unset
        /\ chk[k].kind # "gate" /\ chk[k].ok =>
              /\ chk[k].pc = "head" =>
                    Vouched(Says(chk[k].kind), chk[k].pr, prs[chk[k].pr].head)
              /\ chk[k].pc = "write" =>
                    Vouched(Says(chk[k].kind), chk[k].pr, chk[k].head)

RecordInv(r) ==
    /\ prs[r.pr] # Unset
    /\ prs[r.pr].branch = r.branch
    /\ <<r.branch, r.commit>> \in pushed
    /\ LET row == mirrors[Server][r.task] IN
       \/ row.pr = r.pr /\ row.branch = r.branch
       \/ <<Server, r.task>> \in clobbered

PullRequestsInv ==
    /\ PrTypeOK
    /\ BranchInv
    /\ \A p \in Prs: PrInv(p)
    /\ \A t \in Tasks: TaskInv(t)
    /\ \A h \in CodingHosts: PublishInv(h)
    /\ \A w \in Writers: WriterInv(w)
    /\ \A k \in Checkers: CheckerInv(k)
    /\ \A r \in recorded: RecordInv(r)
    /\ FreshWriteKeepsPr
    /\ ReadyWasVerified

-----------------------------------------------------------------------------
(* How a step may move what the invariant speaks of                           *)
PrsKept ==
    \A p \in Prs:
        prs[p] # Unset => prs'[p] # Unset /\ prs'[p].branch = prs[p].branch

PastKept ==
    /\ pushed \subseteq pushed'
    /\ seen \subseteq seen'
    /\ raced \subseteq raced'
    /\ PrsKept

RowsMoveOn ==
    \A d \in Dbs, t \in Tasks:
        \/ mirrors'[d][t] = mirrors[d][t]
        \/ mirrors'[d][t].ver > mirrors[d][t].ver

RowsStep ==
    /\ mirrors' \in [Dbs -> [Tasks -> TaskRow]]
    /\ clobbered' \subseteq Dbs \X Tasks
    /\ clobbered \subseteq clobbered'
    /\ RowsMoveOn
    /\ \A d \in Dbs, t \in Tasks: Exists(mirrors'[d][t].pr)
    /\ FreshWriteKeepsPr'
    /\ \A r \in recorded:
           \/ /\ mirrors'[Server][r.task].pr = r.pr
              /\ mirrors'[Server][r.task].branch = r.branch
           \/ <<Server, r.task>> \in clobbered'

LEMMA Spending ==
    ASSUME left \in Budget, NEW kind \in {"publish", "write", "check", "github", "fault"},
           Consume(kind)
    PROVE  left' \in Budget
<1>1. CASE kind = "publish" BY <1>1 DEF Budget, Consume
<1>2. CASE kind = "write" BY <1>2 DEF Budget, Consume
<1>3. CASE kind = "check" BY <1>3 DEF Budget, Consume
<1>4. CASE kind = "github" BY <1>4 DEF Budget, Consume
<1>5. CASE kind = "fault" BY <1>5 DEF Budget, Consume
<1> QED BY <1>1, <1>2, <1>3, <1>4, <1>5

\* upsert_task_mirror moves one row, and tells when it was read too early.
LEMMA Upserting ==
    ASSUME PullRequestsInv,
           NEW d \in Dbs, NEW t \in Tasks, NEW read,
           read.ver \in Nat, read.closed \in BOOLEAN,
           NEW pr \in Prs \cup {Unset}, NEW branch \in Branches \cup {Unset},
           NEW commit \in Commits \cup {Unset},
           Exists(pr),
           mirrors[d][t].ver = read.ver =>
               /\ ~BoundElsewhere(mirrors[d][t], pr)
               /\ d = Server =>
                     \A r \in recorded:
                         /\ r.task = t
                         /\ mirrors[d][t].pr = r.pr
                         /\ mirrors[d][t].branch = r.branch
                         => pr = r.pr /\ branch = r.branch,
           Upsert(d, t, read, pr, branch, commit)
    PROVE  RowsStep
<1> DEFINE old == mirrors[d][t]
           new == [pr |-> pr, branch |-> branch, commit |-> commit,
                   closed |-> read.closed, ver |-> old.ver + 1]
<1>1. /\ mirrors \in [Dbs -> [Tasks -> TaskRow]]
      /\ old \in TaskRow
      /\ old.ver \in Nat
      /\ clobbered \subseteq Dbs \X Tasks
      /\ Server \in Dbs
      /\ \A r \in recorded: r.task \in Tasks
  BY DEF PullRequestsInv, PrTypeOK, TaskRow, Dbs
<1>2. /\ new \in TaskRow
      /\ new.ver = old.ver + 1
      /\ new.pr = pr
      /\ new.branch = branch
  BY <1>1 DEF TaskRow
<1>3. /\ \A e \in Dbs, u \in Tasks: Exists(mirrors[e][u].pr)
      /\ \A r \in recorded: RecordInv(r)
      /\ FreshWriteKeepsPr
  BY DEF PullRequestsInv, TaskInv
<1>4. CASE UNCHANGED <<mirrors, history>>
  BY <1>1, <1>3, <1>4 DEF RowsStep, RowsMoveOn, history, FreshWriteKeepsPr, RecordInv
<1>5. CASE ~UNCHANGED <<mirrors, history>>
  <2>1. /\ mirrors' = [mirrors EXCEPT ![d][t] = new]
        /\ clobbered' = IF old.ver # read.ver THEN clobbered \cup {<<d, t>>} ELSE clobbered
        /\ rebound' = IF BoundElsewhere(old, pr)
                      THEN rebound \cup {[db |-> d, task |-> t, fresh |-> old.ver = read.ver]}
                      ELSE rebound
    BY <1>5, Zenon DEF Upsert
  <2> HIDE DEF new
  <2>2. /\ mirrors' \in [Dbs -> [Tasks -> TaskRow]]
        /\ mirrors'[d][t] = new
        /\ \A e \in Dbs, u \in Tasks: e # d \/ u # t => mirrors'[e][u] = mirrors[e][u]
    BY <1>1, <1>2, <2>1
  <2>3. /\ clobbered' \subseteq Dbs \X Tasks
        /\ clobbered \subseteq clobbered'
    BY <1>1, <2>1
  <2>4. RowsMoveOn
    BY <1>1, <1>2, <2>2 DEF RowsMoveOn
  <2>5. \A e \in Dbs, u \in Tasks: Exists(mirrors'[e][u].pr)
    BY <1>2, <1>3, <2>2
  <2>6. FreshWriteKeepsPr'
    <3>1. CASE BoundElsewhere(old, pr)
      <4>1. old.ver # read.ver
        BY <3>1
      <4>2. ([db |-> d, task |-> t, fresh |-> old.ver = read.ver]).fresh = FALSE
        BY <4>1
      <4> QED BY <1>3, <2>1, <3>1, <4>2 DEF FreshWriteKeepsPr
    <3>2. CASE ~BoundElsewhere(old, pr)
      BY <1>3, <2>1, <3>2 DEF FreshWriteKeepsPr
    <3> QED BY <3>1, <3>2
  <2>7. ASSUME NEW r \in recorded
        PROVE  \/ /\ mirrors'[Server][r.task].pr = r.pr
                  /\ mirrors'[Server][r.task].branch = r.branch
               \/ <<Server, r.task>> \in clobbered'
    <3>1. RecordInv(r)
      BY <1>3
    <3>2. CASE d = Server /\ r.task = t
      <4>1. CASE old.ver = read.ver
        BY <1>2, <2>2, <2>3, <3>1, <3>2, <4>1 DEF RecordInv
      <4>2. CASE old.ver # read.ver
        BY <2>1, <3>2, <4>2
      <4> QED BY <4>1, <4>2
    <3>3. CASE ~(d = Server /\ r.task = t)
      BY <1>1, <2>2, <2>3, <3>1, <3>3 DEF RecordInv
    <3> QED BY <3>2, <3>3
  <2> QED BY <2>2, <2>3, <2>4, <2>5, <2>6, <2>7 DEF RowsStep
<1> QED BY <1>4, <1>5

LEMMA MirrorStays ==
    ASSUME PullRequestsInv, UNCHANGED <<mirrors, history>>
    PROVE  RowsStep
<1>1. /\ \A e \in Dbs, u \in Tasks: Exists(mirrors[e][u].pr)
      /\ \A r \in recorded: RecordInv(r)
      /\ FreshWriteKeepsPr
  BY DEF PullRequestsInv, TaskInv
<1>2. /\ mirrors \in [Dbs -> [Tasks -> TaskRow]]
      /\ clobbered \subseteq Dbs \X Tasks
  BY DEF PullRequestsInv, PrTypeOK
<1> QED BY <1>1, <1>2 DEF RowsStep, RowsMoveOn, history, FreshWriteKeepsPr, RecordInv

LEMMA PublishFrame ==
    ASSUME PrTypeOK, mirrors' \in [Dbs -> [Tasks -> TaskRow]],
           PastKept, RowsMoveOn,
           NEW h \in CodingHosts, PublishInv(h), pub'[h] = pub[h]
    PROVE  PublishInv(h)'
<1> SUFFICES ASSUME pub[h] # Unset
             PROVE  PublishInv(h)'
  BY DEF Published, PublishInv
<1> DEFINE p == pub[h]
           row == mirrors[DbOf[h]][p.task]
<1>1. /\ p \in Publication
      /\ DbOf[h] \in Dbs
  BY DEF PrTypeOK, Dbs
<1>2. /\ p.task \in Tasks
      /\ p.expected \in Prs \cup {Unset}
      /\ p.pr \in Prs \cup {Unset}
      /\ p.ver \in Nat
      /\ row.ver \in Nat
      /\ mirrors'[DbOf[h]][p.task].ver \in Nat
  BY <1>1 DEF Publication, PrTypeOK, TaskRow
<1>3. row' = row \/ row'.ver > row.ver
  BY <1>1, <1>2 DEF RowsMoveOn
<1>4. /\ Exists(p.expected)'
      /\ p.pc \in {"check", "write", "record"} =>
             /\ p.pr # Unset
             /\ prs'[p.pr] # Unset
             /\ prs'[p.pr].branch = p.branch
      /\ \/ p.pc \in {"create", "check", "write", "record"}
         \/ p.pc = "discover" /\ p.expected = Unset
         => <<p.branch, p.commit>> \in pushed'
  BY <1>2 DEF Published, PublishInv, Exists, PastKept, PrsKept
<1>5. p.pc = "write" =>
         /\ p.ver <= row'.ver
         /\ row'.ver = p.ver => ~BoundElsewhere(row', p.pr)
  BY <1>2, <1>3 DEF Published, PublishInv
<1> QED BY <1>4, <1>5 DEF Published, PublishInv

LEMMA WriterFrame ==
    ASSUME PrTypeOK, mirrors' \in [Dbs -> [Tasks -> TaskRow]],
           PastKept, RowsMoveOn,
           NEW w \in Writers, WriterInv(w), wr'[w] = wr[w]
    PROVE  WriterInv(w)'
<1> SUFFICES ASSUME wr[w] # Unset
             PROVE  WriterInv(w)'
  BY DEF WriterInv
<1> DEFINE t == wr[w].task
           row == mirrors[Server][t]
<1>1. wr[w] \in Rewrite /\ Server \in Dbs
  BY DEF PrTypeOK, Dbs
<1>2. /\ t \in Tasks
      /\ wr[w].row \in TaskRow
  BY <1>1 DEF Rewrite
<1>3. /\ wr[w].row.pr \in Prs \cup {Unset}
      /\ wr[w].row.ver \in Nat
      /\ row.ver \in Nat
      /\ row'.ver \in Nat
  BY <1>1, <1>2 DEF PrTypeOK, TaskRow
<1>4. row' = row \/ row'.ver > row.ver
  BY <1>1, <1>2 DEF RowsMoveOn
<1>5. Exists(wr[w].row.pr)'
  BY <1>3 DEF WriterInv, Exists, PastKept, PrsKept
<1>6. /\ wr[w].row.ver <= row'.ver
      /\ wr[w].row.ver = row'.ver => wr[w].row = row'
  BY <1>3, <1>4 DEF WriterInv
<1> QED BY <1>5, <1>6 DEF WriterInv

LEMMA CheckerFrame ==
    ASSUME PrTypeOK, PastKept,
           NEW k \in Checkers, CheckerInv(k), chk'[k] = chk[k],
           chk[k] # Unset /\ chk[k].pc = "head" =>
               \/ prs'[chk[k].pr].head = prs[chk[k].pr].head
               \/ <<chk[k].pr, prs'[chk[k].pr].head>> \in raced'
    PROVE  CheckerInv(k)'
<1> SUFFICES ASSUME chk[k] # Unset
             PROVE  CheckerInv(k)'
  BY DEF CheckerInv
<1>1. chk[k].pr \in Prs
  BY DEF PrTypeOK, Checking
<1>2. prs'[chk[k].pr] # Unset
  BY <1>1 DEF CheckerInv, PastKept, PrsKept
<1>3. ASSUME chk[k].kind # "gate", chk[k].ok
      PROVE  /\ chk[k].pc = "head" =>
                 Vouched(Says(chk[k].kind), chk[k].pr, prs[chk[k].pr].head)'
             /\ chk[k].pc = "write" =>
                 Vouched(Says(chk[k].kind), chk[k].pr, chk[k].head)'
  BY <1>3 DEF CheckerInv, Vouched, PastKept, Says
<1> QED BY <1>2, <1>3 DEF CheckerInv

\* What a step leaves alone keeps its part of the invariant.
LEMMA RestKept ==
    ASSUME PullRequestsInv, PrTypeOK', RowsStep, PastKept
    PROVE  /\ \A r \in recorded: RecordInv(r)'
           /\ \A h \in CodingHosts: pub'[h] = pub[h] => PublishInv(h)'
           /\ \A w \in Writers: wr'[w] = wr[w] => WriterInv(w)'
           /\ prs' = prs =>
                  \A k \in Checkers: chk'[k] = chk[k] => CheckerInv(k)'
           /\ \A t \in Tasks:
                  review'[t] = review[t] /\ ci'[t] = ci[t] => TaskInv(t)'
           /\ ready' = ready => ReadyWasVerified'
           /\ UNCHANGED github => BranchInv' /\ \A p \in Prs: PrInv(p)'
<1>1. /\ PrTypeOK
      /\ mirrors' \in [Dbs -> [Tasks -> TaskRow]]
      /\ RowsMoveOn
  BY DEF PullRequestsInv, RowsStep
<1>2. ASSUME NEW r \in recorded
      PROVE  RecordInv(r)'
  <2>1. RecordInv(r) /\ r.pr \in Prs
    BY <1>1 DEF PullRequestsInv, PrTypeOK
  <2>2. /\ prs'[r.pr] # Unset
        /\ prs'[r.pr].branch = r.branch
        /\ <<r.branch, r.commit>> \in pushed'
    BY <2>1 DEF RecordInv, PastKept, PrsKept
  <2>3. \/ /\ mirrors'[Server][r.task].pr = r.pr
           /\ mirrors'[Server][r.task].branch = r.branch
        \/ <<Server, r.task>> \in clobbered'
    BY DEF RowsStep
  <2> QED BY <2>2, <2>3 DEF RecordInv
<1>3. ASSUME NEW h \in CodingHosts, pub'[h] = pub[h]
      PROVE  PublishInv(h)'
  <2>1. PublishInv(h)
    BY DEF PullRequestsInv
  <2> QED BY <1>1, <1>3, <2>1, PublishFrame
<1>4. ASSUME NEW w \in Writers, wr'[w] = wr[w]
      PROVE  WriterInv(w)'
  <2>1. WriterInv(w)
    BY DEF PullRequestsInv
  <2> QED BY <1>1, <1>4, <2>1, WriterFrame
<1>5. ASSUME prs' = prs, NEW k \in Checkers, chk'[k] = chk[k]
      PROVE  CheckerInv(k)'
  <2>1. CheckerInv(k)
    BY DEF PullRequestsInv
  <2> QED BY <1>1, <1>5, <2>1, CheckerFrame
<1>6. ASSUME NEW t \in Tasks, review'[t] = review[t], ci'[t] = ci[t]
      PROVE  TaskInv(t)'
  <2>1. TaskInv(t)
    BY DEF PullRequestsInv
  <2>2. ASSUME NEW d \in Dbs
        PROVE  mirrors'[d][t].pr # Unset => prs'[mirrors'[d][t].pr] # Unset
    <3>1. mirrors'[d][t].pr \in Prs \cup {Unset}
      BY <1>1 DEF TaskRow
    <3>2. Exists(mirrors'[d][t].pr)
      BY DEF RowsStep
    <3> QED BY <3>1, <3>2 DEF Exists, PastKept, PrsKept
  <2>3. Dbs' = Dbs
    BY DEF Dbs
  <2> QED BY <1>6, <2>1, <2>2, <2>3 DEF TaskInv, Exists, Vouched, PastKept
<1>7. ASSUME ready' = ready
      PROVE  ReadyWasVerified'
  BY <1>7 DEF PullRequestsInv, ReadyWasVerified, PastKept
<1>8. ASSUME UNCHANGED github
      PROVE  BranchInv' /\ \A p \in Prs: PrInv(p)'
  BY <1>8 DEF PullRequestsInv, BranchInv, PrInv, github
<1> QED BY <1>2, <1>3, <1>4, <1>5, <1>6, <1>7, <1>8

\* The past of a step that leaves GitHub alone.
LEMMA QuietPast ==
    ASSUME UNCHANGED github, raced \subseteq raced'
    PROVE  PastKept
BY DEF github, PastKept, PrsKept

-----------------------------------------------------------------------------
(* GitHub                                                                     *)
\* A step of GitHub: heads are seen, and a head that moves under a check is
\* marked.
LEMMA GitHubStep ==
    ASSUME PullRequestsInv, PastKept,
           prs' \in [Prs -> Pr \cup {Unset}],
           ref' \in [Branches -> Commits \cup {Unset}],
           pushed' \subseteq Branches \X Commits,
           BranchInv', \A p \in Prs: PrInv(p)',
           left' \in Budget,
           UNCHANGED <<mirrors, recorded, review, ci, pub, wr, chk, history, ready>>,
           \A k \in Checkers:
               chk[k] # Unset /\ chk[k].pc = "head" =>
                   \/ prs'[chk[k].pr].head = prs[chk[k].pr].head
                   \/ <<chk[k].pr, prs'[chk[k].pr].head>> \in raced'
    PROVE  PullRequestsInv'
<1>1. PrTypeOK'
  BY DEF PullRequestsInv, PrTypeOK, history
<1>2. RowsStep
  BY MirrorStays
<1>3. ASSUME NEW k \in Checkers
      PROVE  CheckerInv(k)'
  <2>1. PrTypeOK /\ CheckerInv(k)
    BY DEF PullRequestsInv
  <2> QED BY <2>1, CheckerFrame
<1>4. FreshWriteKeepsPr'
  BY <1>2 DEF RowsStep
<1> QED BY <1>1, <1>2, <1>3, <1>4, RestKept DEF PullRequestsInv

\* What Now says of the heads that are approved or passed.
LEMMA HeadsAreSeen ==
    ASSUME seen' = seen \cup Now, NEW p \in Prs, prs'[p] # Unset
    PROVE  /\ prs'[p].review = "approved" => <<"approved", p, prs'[p].head>> \in seen'
           /\ prs'[p].checks = "passed" => <<"passed", p, prs'[p].head>> \in seen'
BY DEF Now

LEMMA PushKeeps ==
    ASSUME PullRequestsInv, NEW b \in Branches, NEW c \in Commits, Push(b, c)
    PROVE  PullRequestsInv'
<1>1. PrTypeOK /\ BranchInv /\ \A p \in Prs: PrInv(p)
  BY DEF PullRequestsInv
<1>2. /\ ref' = [ref EXCEPT ![b] = c]
      /\ pushed' = pushed \cup {<<b, c>>}
      /\ seen' = seen \cup Now
      /\ raced \subseteq raced'
      /\ left' \in Budget
  BY <1>1, Spending DEF Push, PrTypeOK
<1>3. /\ ref' \in [Branches -> Commits \cup {Unset}]
      /\ pushed' \subseteq Branches \X Commits
  BY <1>1, <1>2 DEF PrTypeOK
<1>4. PICK keeps \in BOOLEAN:
          prs' = [p \in Prs |-> IF p \in OpenPrs(b)
                    THEN [prs[p] EXCEPT !.head = c, !.checks = "pending",
                                        !.review = IF keeps THEN @ ELSE "required"]
                    ELSE prs[p]]
  BY DEF Push
<1>5. ASSUME NEW p \in Prs
      PROVE  /\ prs'[p] \in Pr \cup {Unset}
             /\ p \in OpenPrs(b) =>
                   /\ prs[p] # Unset
                   /\ prs[p].branch = b
                   /\ prs'[p] # Unset
                   /\ prs'[p].branch = b
                   /\ prs'[p].head = c
             /\ p \notin OpenPrs(b) => prs'[p] = prs[p]
  <2>1. CASE p \in OpenPrs(b)
    <3>1. /\ prs[p] \in Pr
          /\ prs[p].branch = b
      BY <1>1, <2>1 DEF OpenPrs, PrTypeOK
    <3>2. prs'[p] = [prs[p] EXCEPT !.head = c, !.checks = "pending",
                                   !.review = IF keeps THEN @ ELSE "required"]
      BY <1>4, <2>1
    <3>3. prs'[p] \in Pr /\ prs'[p].branch = b /\ prs'[p].head = c
      BY <3>1, <3>2 DEF Pr
    <3> QED BY <2>1, <3>1, <3>3, PullRequestsAssumption
  <2>2. CASE p \notin OpenPrs(b)
    <3>1. prs'[p] = prs[p]
      BY <1>4, <2>2
    <3> QED BY <1>1, <2>2, <3>1 DEF PrTypeOK
  <2> QED BY <2>1, <2>2
<1>6. prs' \in [Prs -> Pr \cup {Unset}]
  BY <1>4, <1>5
<1>7. PastKept
  BY <1>2, <1>5 DEF PastKept, PrsKept
<1>8. BranchInv'
  BY <1>1, <1>2, PullRequestsAssumption DEF BranchInv, PrTypeOK
<1>9. ASSUME NEW p \in Prs
      PROVE  PrInv(p)'
  <2>1. PrInv(p)
    BY <1>1
  <2>2. CASE p \in OpenPrs(b)
    <3>1. <<prs'[p].branch, prs'[p].head>> \in pushed'
      BY <1>2, <1>5, <2>2
    <3> QED BY <1>2, <3>1, HeadsAreSeen DEF PrInv
  <2>3. CASE p \notin OpenPrs(b)
    <3>1. prs'[p] = prs[p]
      BY <1>5, <2>3
    <3>2. prs'[p] # Unset => <<prs'[p].branch, prs'[p].head>> \in pushed'
      BY <1>2, <2>1, <3>1 DEF PrInv
    <3> QED BY <1>2, <3>2, HeadsAreSeen DEF PrInv
  <2> QED BY <2>2, <2>3
<1>10. ASSUME NEW k \in Checkers, chk[k] # Unset, chk[k].pc = "head"
       PROVE  \/ prs'[chk[k].pr].head = prs[chk[k].pr].head
              \/ <<chk[k].pr, prs'[chk[k].pr].head>> \in raced'
  <2>1. chk[k].pr \in Prs
    BY <1>1, <1>10 DEF PrTypeOK, Checking
  <2>2. CASE chk[k].pr \in OpenPrs(b)
    <3>1. <<chk[k].pr, c>> \in raced'
      BY <1>10, <2>2 DEF Push
    <3> QED BY <1>5, <2>1, <2>2, <3>1
  <2>3. CASE chk[k].pr \notin OpenPrs(b)
    BY <1>5, <2>1, <2>3
  <2> QED BY <2>2, <2>3
<1>11. UNCHANGED <<mirrors, recorded, review, ci, pub, wr, chk, history, ready>>
  BY DEF Push
<1> QED BY <1>2, <1>3, <1>6, <1>7, <1>8, <1>9, <1>10, <1>11, GitHubStep

LEMMA JudgeKeeps ==
    ASSUME PullRequestsInv, NEW p \in Prs, Judge(p)
    PROVE  PullRequestsInv'
<1>1. PrTypeOK /\ BranchInv /\ \A q \in Prs: PrInv(q)
  BY DEF PullRequestsInv
<1>2. /\ UNCHANGED <<ref, pushed, mirrors, recorded, review, ci, pub, wr, chk,
                     history, raced, ready>>
      /\ seen' = seen \cup Now
      /\ left' \in Budget
      /\ prs[p] \in Pr
  BY <1>1, Spending DEF Judge, PrTypeOK
<1>3. PICK r \in {"approved", "required"}, s \in {"passed", "pending"}:
          prs' = [prs EXCEPT ![p].review = r, ![p].checks = s]
  BY DEF Judge
<1> DEFINE new == [prs[p] EXCEPT !.review = r, !.checks = s]
<1>4. prs' = [prs EXCEPT ![p] = new]
  BY <1>1, <1>3 DEF PrTypeOK
<1>5. /\ new \in Pr
      /\ new.branch = prs[p].branch
      /\ new.head = prs[p].head
  BY <1>2 DEF Pr
<1> HIDE DEF new
<1>6. /\ prs' \in [Prs -> Pr \cup {Unset}]
      /\ prs'[p] = new
      /\ new # Unset
      /\ prs[p] # Unset
      /\ \A q \in Prs: q # p => prs'[q] = prs[q]
  BY <1>1, <1>2, <1>4, <1>5, PullRequestsAssumption DEF PrTypeOK
<1>7. PastKept
  BY <1>2, <1>5, <1>6 DEF PastKept, PrsKept
<1>8. BranchInv'
  BY <1>1, <1>2 DEF BranchInv
<1>9. ASSUME NEW q \in Prs
      PROVE  PrInv(q)'
  <2>1. prs'[q] # Unset => <<prs'[q].branch, prs'[q].head>> \in pushed'
    BY <1>1, <1>2, <1>5, <1>6 DEF PrInv
  <2> QED BY <1>2, <2>1, HeadsAreSeen DEF PrInv
<1>10. ASSUME NEW k \in Checkers, chk[k] # Unset, chk[k].pc = "head"
       PROVE  prs'[chk[k].pr].head = prs[chk[k].pr].head
  <2>1. chk[k].pr \in Prs
    BY <1>1, <1>10 DEF PrTypeOK, Checking
  <2> QED BY <1>5, <1>6, <2>1
<1>11. ref' \in [Branches -> Commits \cup {Unset}] /\ pushed' \subseteq Branches \X Commits
  BY <1>1, <1>2 DEF PrTypeOK
<1> QED BY <1>2, <1>6, <1>7, <1>8, <1>9, <1>10, <1>11, GitHubStep

LEMMA ClosePrKeeps ==
    ASSUME PullRequestsInv, NEW p \in Prs, ClosePr(p)
    PROVE  PullRequestsInv'
<1>1. PrTypeOK /\ BranchInv /\ \A q \in Prs: PrInv(q)
  BY DEF PullRequestsInv
<1>2. /\ UNCHANGED <<ref, pushed, seen, mirrors, recorded, review, ci, pub, wr, chk,
                     history, raced, ready>>
      /\ left' \in Budget
      /\ prs[p] \in Pr
  BY <1>1, Spending DEF ClosePr, PrTypeOK
<1> DEFINE new == [prs[p] EXCEPT !.open = FALSE]
<1>3. prs' = [prs EXCEPT ![p] = new]
  BY <1>1 DEF ClosePr, PrTypeOK
<1>4. /\ new \in Pr
      /\ new.branch = prs[p].branch
      /\ new.head = prs[p].head
      /\ new.review = prs[p].review
      /\ new.checks = prs[p].checks
  BY <1>2 DEF Pr
<1> HIDE DEF new
<1>5. /\ prs' \in [Prs -> Pr \cup {Unset}]
      /\ prs'[p] = new
      /\ new # Unset
      /\ prs[p] # Unset
      /\ \A q \in Prs: q # p => prs'[q] = prs[q]
  BY <1>1, <1>2, <1>3, <1>4, PullRequestsAssumption DEF PrTypeOK
<1>6. PastKept
  BY <1>2, <1>4, <1>5 DEF PastKept, PrsKept
<1>7. BranchInv'
  BY <1>1, <1>2 DEF BranchInv
<1>8. ASSUME NEW q \in Prs
      PROVE  PrInv(q)'
  BY <1>1, <1>2, <1>4, <1>5 DEF PrInv
<1>9. ASSUME NEW k \in Checkers, chk[k] # Unset, chk[k].pc = "head"
      PROVE  prs'[chk[k].pr].head = prs[chk[k].pr].head
  <2>1. chk[k].pr \in Prs
    BY <1>1, <1>9 DEF PrTypeOK, Checking
  <2> QED BY <1>4, <1>5, <2>1
<1>10. ref' \in [Branches -> Commits \cup {Unset}] /\ pushed' \subseteq Branches \X Commits
  BY <1>1, <1>2 DEF PrTypeOK
<1> QED BY <1>2, <1>5, <1>6, <1>7, <1>8, <1>9, <1>10, GitHubStep

-----------------------------------------------------------------------------
(* pr publish                                                                 *)
\* A step of one publish command, which may write a mirror and record.
LEMMA PublishStep ==
    ASSUME PullRequestsInv, NEW h \in CodingHosts,
           NEW x \in Publication \cup {Unset}, pub' = [pub EXCEPT ![h] = x],
           UNCHANGED quiet, left' \in Budget, RowsStep,
           recorded' \subseteq
               [task : Tasks, pr : Prs, branch : Branches, commit : Commits],
           \A r \in recorded': r \in recorded \/ RecordInv(r)',
           x # Unset => Published(h, x)'
    PROVE  PullRequestsInv'
<1>1. PrTypeOK
  BY DEF PullRequestsInv
<1>2. /\ pub' \in [CodingHosts -> Publication \cup {Unset}]
      /\ pub'[h] = x
      /\ \A g \in CodingHosts: g # h => pub'[g] = pub[g]
  BY <1>1 DEF PrTypeOK
<1>3. PrTypeOK'
  BY <1>1, <1>2 DEF PrTypeOK, quiet, github, RowsStep
<1>4. PastKept
  BY QuietPast DEF quiet
<1>5. \A g \in CodingHosts: PublishInv(g)'
  <2>1. PublishInv(h)'
    BY <1>2 DEF PublishInv, Published
  <2> QED BY <1>2, <1>3, <1>4, <2>1, RestKept
<1>6. FreshWriteKeepsPr'
  BY DEF RowsStep
<1> QED BY <1>3, <1>4, <1>5, <1>6, RestKept DEF PullRequestsInv, quiet, github

\* A step of a publish command that writes nothing.
LEMMA PublishOnly ==
    ASSUME PullRequestsInv, NEW h \in CodingHosts,
           NEW x \in Publication \cup {Unset}, pub' = [pub EXCEPT ![h] = x],
           UNCHANGED <<quiet, mirrors, recorded, history>>, left' \in Budget,
           x # Unset => Published(h, x)
    PROVE  PullRequestsInv'
<1>1. RowsStep
  BY MirrorStays
<1>2. recorded' \subseteq [task : Tasks, pr : Prs, branch : Branches, commit : Commits]
  BY DEF PullRequestsInv, PrTypeOK
<1>3. x # Unset => Published(h, x)'
  BY DEF Published, Exists, quiet, github
<1> QED BY <1>1, <1>2, <1>3, PublishStep

LEMMA EndKeeps ==
    ASSUME PullRequestsInv, NEW h \in CodingHosts, End(h),
           UNCHANGED <<quiet, mirrors, recorded, history>>, left' \in Budget
    PROVE  PullRequestsInv'
BY PublishOnly DEF End

\* What is known of a command that runs.
LEMMA Publishing ==
    ASSUME PullRequestsInv, NEW h \in CodingHosts, pub[h] # Unset
    PROVE  /\ pub \in [CodingHosts -> Publication \cup {Unset}]
           /\ pub[h] \in Publication
           /\ Published(h, pub[h])
           /\ DbOf[h] \in Dbs
           /\ Server \in Dbs
           /\ pub[h].task \in Tasks
           /\ pub[h].branch \in Branches
           /\ pub[h].commit \in Commits
           /\ pub[h].pr \in Prs \cup {Unset}
           /\ pub[h].expected \in Prs \cup {Unset}
           /\ pub[h].ver \in Nat
           /\ mirrors[DbOf[h]][pub[h].task] \in TaskRow
           /\ mirrors[Server][pub[h].task] \in TaskRow
           /\ left \in Budget
<1>1. /\ PrTypeOK
      /\ PublishInv(h)
  BY DEF PullRequestsInv
<1>2. /\ pub[h] \in Publication
      /\ Published(h, pub[h])
  BY <1>1 DEF PrTypeOK, PublishInv
<1>3. DbOf[h] \in Dbs /\ Server \in Dbs
  BY DEF Dbs
<1>4. /\ pub[h].task \in Tasks
      /\ pub[h].branch \in Branches
      /\ pub[h].commit \in Commits
      /\ pub[h].pr \in Prs \cup {Unset}
      /\ pub[h].expected \in Prs \cup {Unset}
      /\ pub[h].ver \in Nat
  BY <1>2 DEF Publication
<1> QED BY <1>1, <1>2, <1>3, <1>4 DEF PrTypeOK

\* Advance changes the program counter only.
LEMMA Advancing ==
    ASSUME PullRequestsInv, NEW h \in CodingHosts, pub[h] # Unset,
           NEW pc \in {"validate", "ref", "discover", "create", "record"},
           Advance(h, pc)
    PROVE  \E x \in Publication:
               /\ pub' = [pub EXCEPT ![h] = x]
               /\ x.pc = pc
               /\ x.task = pub[h].task
               /\ x.branch = pub[h].branch
               /\ x.commit = pub[h].commit
               /\ x.expected = pub[h].expected
               /\ x.pr = pub[h].pr
<1> DEFINE x == [pub[h] EXCEPT !.pc = pc]
<1>1. pub \in [CodingHosts -> Publication \cup {Unset}] /\ pub[h] \in Publication
  BY Publishing
<1>2. pub' = [pub EXCEPT ![h] = x]
  BY <1>1 DEF Advance
<1>3. /\ x \in Publication
      /\ x.pc = pc
      /\ x.task = pub[h].task
      /\ x.branch = pub[h].branch
      /\ x.commit = pub[h].commit
      /\ x.expected = pub[h].expected
      /\ x.pr = pub[h].pr
  BY <1>1 DEF Publication
<1> QED BY <1>2, <1>3

\* A command advances to a step that needs nothing but its commit on GitHub.
LEMMA AdvanceKeeps ==
    ASSUME PullRequestsInv, NEW h \in CodingHosts, pub[h] # Unset,
           NEW pc \in {"validate", "ref", "discover", "create"},
           Advance(h, pc),
           pc = "create" \/ (pc = "discover" /\ pub[h].expected = Unset) =>
               <<pub[h].branch, pub[h].commit>> \in pushed,
           UNCHANGED <<quiet, mirrors, recorded, history, left>>
    PROVE  PullRequestsInv'
<1>1. PICK x \in Publication:
          /\ pub' = [pub EXCEPT ![h] = x]
          /\ x.pc = pc
          /\ x.task = pub[h].task
          /\ x.branch = pub[h].branch
          /\ x.commit = pub[h].commit
          /\ x.expected = pub[h].expected
          /\ x.pr = pub[h].pr
  BY Advancing
<1>2. Published(h, pub[h]) /\ left \in Budget
  BY Publishing
<1>3. Published(h, x)
  BY <1>1, <1>2 DEF Published
<1> QED BY <1>1, <1>2, <1>3, PublishOnly

LEMMA PublishKeeps ==
    ASSUME PullRequestsInv, NEW h \in CodingHosts, NEW t \in Tasks,
           NEW b \in Branches, NEW c \in Commits, Publish(h, t, b, c)
    PROVE  PullRequestsInv'
<1> DEFINE x == [pc |-> IF DbOf[h] = Server THEN "validate" ELSE "preflight",
                 task |-> t, branch |-> b, commit |-> c, expected |-> Unset,
                 pr |-> Unset, ver |-> 0, closed |-> FALSE, action |-> "none"]
<1>1. left' \in Budget
  BY Spending DEF Publish, PullRequestsInv, PrTypeOK
<1>2. /\ x \in Publication
      /\ x.pc \in {"validate", "preflight"}
      /\ x.expected = Unset
  BY DEF Publication
<1>3. pub' = [pub EXCEPT ![h] = x] /\ UNCHANGED <<quiet, mirrors, recorded, history>>
  BY DEF Publish
<1> HIDE DEF x
<1>4. Published(h, x)
  BY <1>2 DEF Published, Exists
<1> QED BY <1>1, <1>2, <1>3, <1>4, PublishOnly

LEMMA PreflightKeeps ==
    ASSUME PullRequestsInv, NEW h \in CodingHosts, Preflight(h)
    PROVE  PullRequestsInv'
<1> DEFINE row == mirrors[Server][pub[h].task]
<1>1. pub[h] # Unset /\ UNCHANGED <<quiet, mirrors, recorded, history, left>>
  BY DEF Preflight
<1>2. /\ pub \in [CodingHosts -> Publication \cup {Unset}]
      /\ pub[h] \in Publication
      /\ Server \in Dbs
      /\ pub[h].task \in Tasks
      /\ row \in TaskRow
      /\ left' \in Budget
  BY <1>1, Publishing
<1>3. CASE End(h)
  BY <1>1, <1>2, <1>3, EndKeeps
<1>4. CASE Advance(h, "validate")
  BY <1>1, <1>4, AdvanceKeeps
<1>5. CASE pub' = [pub EXCEPT ![h].pc = "validate", ![h].expected = row.pr]
  <2> DEFINE x == [pub[h] EXCEPT !.pc = "validate", !.expected = row.pr]
  <2>1. pub' = [pub EXCEPT ![h] = x]
    BY <1>2, <1>5
  <2>2. row.pr \in Prs \cup {Unset}
    BY <1>2 DEF TaskRow
  <2>3. x \in Publication /\ x.pc = "validate" /\ x.expected = row.pr
    BY <1>2, <2>2 DEF Publication
  <2> HIDE DEF x
  <2>4. Exists(row.pr)
    BY <1>2 DEF PullRequestsInv, TaskInv
  <2>5. Published(h, x)
    BY <2>3, <2>4 DEF Published
  <2> QED BY <1>1, <1>2, <2>1, <2>3, <2>5, PublishOnly
<1> QED BY <1>3, <1>4, <1>5 DEF Preflight

LEMMA ValidateCreateKeeps ==
    ASSUME PullRequestsInv, NEW h \in CodingHosts, NEW isPushed \in BOOLEAN,
           ValidateCreate(h, isPushed)
    PROVE  PullRequestsInv'
<1>1. /\ pub[h] # Unset
      /\ UNCHANGED <<quiet, mirrors, recorded, history, left>>
      /\ left' \in Budget
  BY DEF ValidateCreate, PullRequestsInv, PrTypeOK
<1>2. End(h) \/ Advance(h, "ref")
  BY DEF ValidateCreate, Blocked
<1> QED BY <1>1, <1>2, EndKeeps, AdvanceKeeps

LEMMA ValidateLinkKeeps ==
    ASSUME PullRequestsInv, NEW h \in CodingHosts, ValidateLink(h)
    PROVE  PullRequestsInv'
<1>1. /\ pub[h] # Unset
      /\ pub[h].expected # Unset
      /\ UNCHANGED <<quiet, mirrors, recorded, history, left>>
      /\ left' \in Budget
  BY DEF ValidateLink, PullRequestsInv, PrTypeOK
<1>2. End(h) \/ Advance(h, "discover")
  BY DEF ValidateLink, Blocked
<1> QED BY <1>1, <1>2, EndKeeps, AdvanceKeeps

LEMMA FetchRefKeeps ==
    ASSUME PullRequestsInv, NEW h \in CodingHosts, FetchRef(h)
    PROVE  PullRequestsInv'
<1>1. /\ pub[h] # Unset
      /\ UNCHANGED <<quiet, mirrors, recorded, history, left>>
      /\ left' \in Budget
  BY DEF FetchRef, PullRequestsInv, PrTypeOK
<1>2. CASE HeadIsReported(h) /\ Advance(h, "discover")
  <2>1. pub[h].branch \in Branches /\ pub[h].commit \in Commits
    BY <1>1, Publishing
  <2>2. <<pub[h].branch, pub[h].commit>> \in pushed
    BY <1>2, <2>1, PullRequestsAssumption DEF HeadIsReported, PullRequestsInv, BranchInv
  <2> QED BY <1>1, <1>2, <2>2, AdvanceKeeps
<1>3. CASE End(h)
  BY <1>1, <1>3, EndKeeps
<1> QED BY <1>2, <1>3 DEF FetchRef, Blocked

\* A pull request that discovery finds carries the commit that was pushed.
LEMMA FoundKeeps ==
    ASSUME PullRequestsInv, NEW h \in CodingHosts, pub[h] # Unset,
           NEW q \in OfHead(pub[h]), Found(h, q),
           UNCHANGED <<quiet, mirrors, recorded, history, left>>
    PROVE  PullRequestsInv'
<1> DEFINE x == [pub[h] EXCEPT !.pc = "check", !.pr = q, !.action = "linked"]
<1>1. /\ pub \in [CodingHosts -> Publication \cup {Unset}]
      /\ pub[h] \in Publication
      /\ Published(h, pub[h])
      /\ left' \in Budget
  BY Publishing
<1>2. /\ q \in Prs
      /\ q # Unset
      /\ prs[q] # Unset
      /\ prs[q].branch = pub[h].branch
      /\ prs[q].head = pub[h].commit
  BY PullRequestsAssumption DEF OfHead, OpenPrs
<1>3. <<pub[h].branch, pub[h].commit>> \in pushed
  BY <1>2 DEF PullRequestsInv, PrInv
<1>4. pub' = [pub EXCEPT ![h] = x]
  BY <1>1 DEF Found
<1>5. /\ x \in Publication
      /\ x.pc = "check"
      /\ x.pr = q
      /\ x.task = pub[h].task
      /\ x.branch = pub[h].branch
      /\ x.commit = pub[h].commit
      /\ x.expected = pub[h].expected
  BY <1>1, <1>2 DEF Publication
<1> HIDE DEF x
<1>6. Published(h, x)
  BY <1>1, <1>2, <1>3, <1>5 DEF Published
<1> QED BY <1>1, <1>4, <1>5, <1>6, PublishOnly

LEMMA DiscoverKeeps ==
    ASSUME PullRequestsInv, NEW h \in CodingHosts, Discover(h)
    PROVE  PullRequestsInv'
<1>1. /\ pub[h] # Unset
      /\ pub[h].pc = "discover"
      /\ pub[h].expected = Unset
      /\ UNCHANGED <<quiet, mirrors, recorded, history, left>>
      /\ left' \in Budget
  BY DEF Discover, PullRequestsInv, PrTypeOK
<1>2. CASE Advance(h, "create")
  <2>1. <<pub[h].branch, pub[h].commit>> \in pushed
    BY <1>1, Publishing DEF Published
  <2> QED BY <1>1, <1>2, <2>1, AdvanceKeeps
<1>3. CASE End(h)
  BY <1>1, <1>3, EndKeeps
<1>4. CASE \E q \in OfHead(pub[h]): Found(h, q)
  BY <1>1, <1>4, FoundKeeps
<1> QED BY <1>2, <1>3, <1>4 DEF Discover, Blocked

LEMMA DiscoverExistingKeeps ==
    ASSUME PullRequestsInv, NEW h \in CodingHosts, DiscoverExisting(h)
    PROVE  PullRequestsInv'
<1>1. /\ pub[h] # Unset
      /\ UNCHANGED <<quiet, mirrors, recorded, history, left>>
      /\ left' \in Budget
  BY DEF DiscoverExisting, PullRequestsInv, PrTypeOK
<1>2. \/ pub[h].expected \in OfHead(pub[h]) /\ Found(h, pub[h].expected)
      \/ End(h)
  BY DEF DiscoverExisting, Blocked
<1> QED BY <1>1, <1>2, EndKeeps, FoundKeeps

LEMMA CreatePrKeeps ==
    ASSUME PullRequestsInv, NEW h \in CodingHosts, NEW q \in Prs, CreatePr(h, q)
    PROVE  PullRequestsInv'
<1> DEFINE b == pub[h].branch
           new == [branch |-> b, head |-> ref[b], open |-> TRUE,
                   review |-> "required", checks |-> "pending"]
           made == [pub[h] EXCEPT !.pc = "check", !.pr = q, !.action = "created"]
<1>1. /\ pub[h] # Unset
      /\ pub[h].pc = "create"
      /\ prs[q] = Unset
      /\ prs' = [prs EXCEPT ![q] = new]
      /\ UNCHANGED <<ref, pushed, seen, review, ci, wr, chk, raced, ready,
                     mirrors, recorded, history>>
  BY DEF CreatePr, Opened
<1>2. /\ PrTypeOK
      /\ pub \in [CodingHosts -> Publication \cup {Unset}]
      /\ pub[h] \in Publication
      /\ Published(h, pub[h])
      /\ pub[h].branch \in Branches
      /\ pub[h].commit \in Commits
      /\ DbOf[h] \in Dbs
  BY <1>1, Publishing DEF PullRequestsInv
<1>3. /\ <<b, pub[h].commit>> \in pushed
      /\ ref[b] \in Commits
      /\ <<b, ref[b]>> \in pushed
  <2>1. <<b, pub[h].commit>> \in pushed
    BY <1>1, <1>2 DEF Published
  <2>2. BranchInv
    BY DEF PullRequestsInv
  <2> QED BY <1>2, <2>1, <2>2 DEF BranchInv, PrTypeOK
<1>4. /\ new \in Pr
      /\ new.branch = b
      /\ new.head = ref[b]
      /\ new.review = "required"
      /\ new.checks = "pending"
  BY <1>2, <1>3 DEF Pr
<1> HIDE DEF new
<1>5. /\ prs' \in [Prs -> Pr \cup {Unset}]
      /\ prs'[q] = new
      /\ new # Unset
      /\ \A p \in Prs: p # q => prs'[p] = prs[p]
  BY <1>1, <1>2, <1>4, PullRequestsAssumption DEF PrTypeOK
<1>6. /\ pub' = [pub EXCEPT ![h] = Unset] \/ pub' = [pub EXCEPT ![h] = made]
      /\ left' \in Budget
  <2>1. CASE End(h) /\ Consume("fault")
    BY <1>2, <2>1, Spending DEF End, PrTypeOK
  <2>2. CASE ~(End(h) /\ Consume("fault"))
    BY <1>2, <2>2 DEF CreatePr, PrTypeOK
  <2> QED BY <2>1, <2>2
<1>7. PICK x \in Publication:
          /\ x = made
          /\ x.pc = "check"
          /\ x.pr = q
          /\ x.branch = b
          /\ x.commit = pub[h].commit
          /\ x.expected = pub[h].expected
  <2>1. made \in Publication
    BY <1>2 DEF Publication
  <2>2. /\ made.pc = "check"
        /\ made.pr = q
        /\ made.branch = b
        /\ made.commit = pub[h].commit
        /\ made.expected = pub[h].expected
    BY <1>2 DEF Publication
  <2> HIDE DEF made
  <2> QED BY <2>1, <2>2
<1> HIDE DEF made
<1>8. /\ pub' \in [CodingHosts -> Publication \cup {Unset}]
      /\ pub'[h] \in {Unset, x}
      /\ \A g \in CodingHosts: g # h => pub'[g] = pub[g]
  BY <1>2, <1>6, <1>7
<1>9. PrTypeOK'
  BY <1>1, <1>2, <1>5, <1>6, <1>8 DEF PrTypeOK, history
<1>10. PastKept
  BY <1>1, <1>5 DEF PastKept, PrsKept
<1>11. RowsStep
  BY <1>1, MirrorStays
<1>12. BranchInv' /\ \A p \in Prs: PrInv(p)'
  BY <1>1, <1>3, <1>4, <1>5 DEF PullRequestsInv, BranchInv, PrInv
<1>13. \A g \in CodingHosts: PublishInv(g)'
  <2>1. Exists(x.expected)'
    <3>1. x.expected \in Prs \cup {Unset}
      BY DEF Publication
    <3>2. x.expected # Unset => prs[x.expected] # Unset
      BY <1>2, <1>7 DEF Published, Exists
    <3> QED BY <1>10, <3>1, <3>2 DEF Exists, PastKept, PrsKept
  <2>2. /\ x.pr # Unset
        /\ prs'[x.pr] # Unset
        /\ prs'[x.pr].branch = x.branch
        /\ <<x.branch, x.commit>> \in pushed'
    BY <1>1, <1>3, <1>4, <1>5, <1>7, PullRequestsAssumption
  <2>3. Published(h, x)'
    BY <1>7, <2>1, <2>2 DEF Published
  <2>4. PublishInv(h)'
    <3>1. CASE pub'[h] = Unset
      BY <3>1 DEF PublishInv
    <3>2. CASE pub'[h] = x
      BY <2>3, <3>2 DEF PublishInv, Published
    <3> QED BY <1>8, <3>1, <3>2
  <2> QED BY <1>8, <1>9, <1>10, <1>11, <2>4, RestKept
<1>14. ASSUME NEW k \in Checkers
       PROVE  CheckerInv(k)'
  <2>1. CheckerInv(k)
    BY DEF PullRequestsInv
  <2>2. chk[k] # Unset => prs'[chk[k].pr] = prs[chk[k].pr]
    <3>1. chk[k] # Unset => chk[k].pr \in Prs
      BY <1>2 DEF PrTypeOK, Checking
    <3> QED BY <1>1, <1>5, <2>1, <3>1 DEF CheckerInv
  <2> QED BY <1>1, <1>2, <1>10, <2>1, <2>2, CheckerFrame
<1>15. FreshWriteKeepsPr'
  BY <1>11 DEF RowsStep
<1> QED BY <1>1, <1>9, <1>10, <1>11, <1>12, <1>13, <1>14, <1>15, RestKept
        DEF PullRequestsInv

LEMMA CreateRefusedKeeps ==
    ASSUME PullRequestsInv, NEW h \in CodingHosts, CreateRefused(h)
    PROVE  PullRequestsInv'
BY EndKeeps DEF CreateRefused, Blocked, PullRequestsInv, PrTypeOK

LEMMA HostCrashKeeps ==
    ASSUME PullRequestsInv, NEW h \in CodingHosts, HostCrash(h)
    PROVE  PullRequestsInv'
<1>1. left' \in Budget
  BY Spending DEF HostCrash, PullRequestsInv, PrTypeOK
<1> QED BY <1>1, EndKeeps DEF HostCrash

LEMMA FinalizeCheckKeeps ==
    ASSUME PullRequestsInv, NEW h \in CodingHosts, FinalizeCheck(h)
    PROVE  PullRequestsInv'
<1> DEFINE row == mirrors[DbOf[h]][pub[h].task]
           x == [pub[h] EXCEPT !.pc = "write", !.ver = row.ver, !.closed = row.closed]
<1>1. /\ pub[h] # Unset
      /\ pub[h].pc = "check"
      /\ UNCHANGED <<quiet, mirrors, recorded, history, left>>
      /\ \/ End(h)
         \/ ~Rebind(row, pub[h].pr)
            /\ pub' = [pub EXCEPT ![h].pc = "write", ![h].ver = row.ver,
                                  ![h].closed = row.closed]
  BY DEF FinalizeCheck, Blocked
<1>2. /\ pub \in [CodingHosts -> Publication \cup {Unset}]
      /\ pub[h] \in Publication
      /\ Published(h, pub[h])
      /\ row \in TaskRow
      /\ left' \in Budget
  BY <1>1, Publishing
<1>3. CASE End(h)
  BY <1>1, <1>2, <1>3, EndKeeps
<1>4. CASE ~End(h)
  <2>1. pub' = [pub EXCEPT ![h] = x]
    BY <1>1, <1>2, <1>4
  <2>2. row.ver \in Nat /\ row.closed \in BOOLEAN
    BY <1>2 DEF TaskRow
  <2>3. /\ x \in Publication
        /\ x.pc = "write"
        /\ x.ver = row.ver
        /\ x.task = pub[h].task
        /\ x.branch = pub[h].branch
        /\ x.commit = pub[h].commit
        /\ x.expected = pub[h].expected
        /\ x.pr = pub[h].pr
    BY <1>2, <2>2 DEF Publication
  <2> HIDE DEF x
  <2>4. ~BoundElsewhere(row, x.pr)
    BY <1>1, <1>4, <2>3 DEF Rebind
  <2>5. Published(h, x)
    BY <1>1, <1>2, <2>2, <2>3, <2>4 DEF Published
  <2> QED BY <1>1, <1>2, <2>1, <2>3, <2>5, PublishOnly
<1> QED BY <1>3, <1>4

LEMMA FinalizeWriteKeeps ==
    ASSUME PullRequestsInv, NEW h \in CodingHosts, FinalizeWrite(h)
    PROVE  PullRequestsInv'
<1> DEFINE p == pub[h]
           row == mirrors[DbOf[h]][p.task]
<1>1. /\ p # Unset
      /\ p.pc = "write"
      /\ Upsert(DbOf[h], p.task, p, p.pr, p.branch, p.commit)
      /\ End(h) \/ Advance(h, "record")
      /\ UNCHANGED <<quiet, recorded, left>>
  BY DEF FinalizeWrite
<1>2. /\ Published(h, p)
      /\ DbOf[h] \in Dbs
      /\ p.task \in Tasks
      /\ p.branch \in Branches
      /\ p.commit \in Commits
      /\ p.pr \in Prs \cup {Unset}
      /\ p.ver \in Nat /\ p.closed \in BOOLEAN
      /\ left' \in Budget
      /\ recorded' \subseteq
             [task : Tasks, pr : Prs, branch : Branches, commit : Commits]
  <2>1. p \in Publication /\ Published(h, p) /\ DbOf[h] \in Dbs
    BY <1>1, Publishing
  <2>2. /\ p.task \in Tasks /\ p.branch \in Branches /\ p.commit \in Commits
        /\ p.pr \in Prs \cup {Unset} /\ p.ver \in Nat /\ p.closed \in BOOLEAN
    BY <2>1 DEF Publication
  <2> QED BY <1>1, <2>1, <2>2 DEF PullRequestsInv, PrTypeOK
<1>3. /\ p.pr # Unset
      /\ prs[p.pr] # Unset
      /\ prs[p.pr].branch = p.branch
      /\ <<p.branch, p.commit>> \in pushed
      /\ row.ver = p.ver => ~BoundElsewhere(row, p.pr)
  BY <1>1, <1>2 DEF Published
<1>4. ASSUME NEW r \in recorded, row.ver = p.ver,
             row.pr = r.pr, row.branch = r.branch
      PROVE  p.pr = r.pr /\ p.branch = r.branch
  <2>1. r.pr # Unset /\ RecordInv(r)
    BY PullRequestsAssumption DEF PullRequestsInv, PrTypeOK
  <2>2. p.pr = r.pr
    BY <1>3, <1>4, <2>1 DEF BoundElsewhere
  <2> QED BY <1>3, <2>1, <2>2 DEF RecordInv
<1>5. Exists(p.pr)
  BY <1>3 DEF Exists
<1>6. RowsStep
  BY <1>1, <1>2, <1>3, <1>4, <1>5, Upserting
<1>7. CASE End(h)
  BY <1>1, <1>2, <1>6, <1>7, PublishStep DEF End
<1>8. CASE Advance(h, "record")
  <2>1. PICK x \in Publication:
            /\ pub' = [pub EXCEPT ![h] = x]
            /\ x.pc = "record"
            /\ x.branch = p.branch
            /\ x.commit = p.commit
            /\ x.expected = p.expected
            /\ x.pr = p.pr
    BY <1>1, <1>8, Advancing
  <2>2. /\ Exists(x.expected)'
        /\ x.pr # Unset
        /\ prs'[x.pr] # Unset
        /\ prs'[x.pr].branch = x.branch
        /\ <<x.branch, x.commit>> \in pushed'
    BY <1>1, <1>2, <1>3, <2>1 DEF Published, Exists, quiet, github
  <2>3. Published(h, x)'
    BY <2>1, <2>2 DEF Published
  <2> QED BY <1>1, <1>2, <1>6, <2>1, <2>3, PublishStep
<1> QED BY <1>1, <1>7, <1>8

\* A row that no index refuses is written, or was the same already.
LEMMA UpsertLands ==
    ASSUME PrTypeOK, NEW d \in Dbs, NEW t \in Tasks, NEW read,
           NEW pr \in Prs \cup {Unset}, NEW branch \in Branches \cup {Unset},
           NEW commit \in Commits \cup {Unset},
           ~CrossTask(d, t, branch, pr),
           Upsert(d, t, read, pr, branch, commit)
    PROVE  mirrors'[d][t].pr = pr /\ mirrors'[d][t].branch = branch
<1> DEFINE old == mirrors[d][t]
           new == [pr |-> pr, branch |-> branch, commit |-> commit,
                   closed |-> read.closed, ver |-> old.ver + 1]
           same == [new EXCEPT !.ver = old.ver] = old
<1>1. /\ mirrors \in [Dbs -> [Tasks -> TaskRow]]
      /\ old \in TaskRow
  BY DEF PrTypeOK
<1>2. Unique(d, t, new)
  BY DEF Unique, CrossTask
<1>3. CASE same
  <2>1. mirrors' = mirrors
    BY <1>3, Zenon DEF Upsert, history
  <2>2. /\ ([new EXCEPT !.ver = old.ver]).pr = pr
        /\ ([new EXCEPT !.ver = old.ver]).branch = branch
    OBVIOUS
  <2> QED BY <1>3, <2>1, <2>2
<1>4. CASE ~same
  <2>1. mirrors' = [mirrors EXCEPT ![d][t] = new]
    BY <1>2, <1>4, Zenon DEF Upsert
  <2>2. new.pr = pr /\ new.branch = branch
    OBVIOUS
  <2> HIDE DEF new
  <2>3. mirrors'[d][t] = new
    BY <1>1, <2>1
  <2> QED BY <2>2, <2>3
<1> QED BY <1>3, <1>4

LEMMA RecordKeeps ==
    ASSUME PullRequestsInv, NEW h \in CodingHosts, Record(h)
    PROVE  PullRequestsInv'
<1> DEFINE p == pub[h]
           row == mirrors[Server][p.task]
           branch == IF row.branch = Unset THEN p.branch ELSE row.branch
           entry == [task |-> p.task, pr |-> p.pr, branch |-> p.branch,
                     commit |-> p.commit]
           refused == \/ MirrorConflict(row, p.branch, p.commit,
                                        p.action = "linked" /\ row.pr = p.pr)
                      \/ CrossTask(Server, p.task, p.branch, p.pr)
                      \/ Rebind(row, p.pr)
<1>1. /\ p # Unset
      /\ p.pc = "record"
      /\ End(h)
      /\ UNCHANGED <<quiet, left>>
      /\ IF refused THEN UNCHANGED <<mirrors, recorded, history>>
         ELSE /\ recorded' = recorded \cup {entry}
              /\ Upsert(Server, p.task, row, p.pr, branch, p.commit)
  BY Zenon DEF Record
<1>2. /\ PrTypeOK
      /\ Published(h, p)
      /\ Server \in Dbs
      /\ p.task \in Tasks
      /\ p.branch \in Branches
      /\ p.commit \in Commits
      /\ p.pr \in Prs \cup {Unset}
      /\ row \in TaskRow
      /\ left' \in Budget
  BY <1>1, Publishing DEF PullRequestsInv
<1>3. CASE refused
  <2>1. UNCHANGED <<quiet, mirrors, recorded, history>>
    BY <1>1, <1>3
  <2> QED BY <1>1, <1>2, <2>1, EndKeeps
<1>4. CASE ~refused
  <2>1. /\ p.pr # Unset
        /\ p.pr \in Prs
        /\ prs[p.pr] # Unset
        /\ prs[p.pr].branch = p.branch
        /\ <<p.branch, p.commit>> \in pushed
    BY <1>1, <1>2 DEF Published
  <2>2. /\ branch = p.branch
        /\ ~BoundElsewhere(row, p.pr)
        /\ ~CrossTask(Server, p.task, branch, p.pr)
        /\ row.ver \in Nat /\ row.closed \in BOOLEAN
    BY <1>2, <1>4 DEF MirrorConflict, Rebind, TaskRow
  <2>3. /\ recorded' = recorded \cup {entry}
        /\ Upsert(Server, p.task, row, p.pr, branch, p.commit)
    BY <1>1, <1>4
  <2>4. ASSUME NEW r \in recorded, row.pr = r.pr, row.branch = r.branch
        PROVE  p.pr = r.pr /\ branch = r.branch
    <3>1. r.pr # Unset /\ r.branch # Unset
      BY <1>2, PullRequestsAssumption DEF PrTypeOK
    <3> QED BY <2>2, <2>4, <3>1 DEF BoundElsewhere
  <2>5. Exists(p.pr)
    BY <2>1 DEF Exists
  <2>6. RowsStep
    <3> HIDE DEF branch
    <3> QED BY <1>2, <2>2, <2>3, <2>4, <2>5, Upserting
  <2>7. /\ mirrors'[Server][p.task].pr = p.pr
        /\ mirrors'[Server][p.task].branch = p.branch
    <3> HIDE DEF branch
    <3> QED BY <1>2, <2>2, <2>3, UpsertLands
  <2>8. /\ entry \in [task : Tasks, pr : Prs, branch : Branches, commit : Commits]
        /\ entry.task = p.task
        /\ entry.pr = p.pr
        /\ entry.branch = p.branch
        /\ entry.commit = p.commit
    BY <1>2, <2>1
  <2> HIDE DEF entry
  <2>9. ASSUME NEW r \in recorded', r = entry
        PROVE  RecordInv(r)'
    BY <1>1, <2>1, <2>7, <2>8, <2>9 DEF RecordInv, quiet, github
  <2>10. /\ recorded' \subseteq
               [task : Tasks, pr : Prs, branch : Branches, commit : Commits]
         /\ \A r \in recorded': r \in recorded \/ RecordInv(r)'
    BY <1>2, <2>3, <2>8, <2>9 DEF PrTypeOK
  <2> QED BY <1>1, <1>2, <2>6, <2>10, PublishStep DEF End
<1> QED BY <1>3, <1>4

-----------------------------------------------------------------------------
(* pr link, branch allocate and the plan gate                                 *)
LEMMA WriterStep ==
    ASSUME PullRequestsInv, NEW w \in Writers,
           NEW x \in Rewrite \cup {Unset}, wr' = [wr EXCEPT ![w] = x],
           UNCHANGED <<github, review, ci, pub, chk, raced, ready, recorded>>,
           left' \in Budget, RowsStep, WriterInv(w)'
    PROVE  PullRequestsInv'
<1>1. PrTypeOK
  BY DEF PullRequestsInv
<1>2. /\ wr' \in [Writers -> Rewrite \cup {Unset}]
      /\ \A v \in Writers: v # w => wr'[v] = wr[v]
  BY <1>1 DEF PrTypeOK
<1>3. PrTypeOK'
  BY <1>1, <1>2 DEF PrTypeOK, github, RowsStep
<1>4. PastKept
  BY QuietPast
<1>5. \A v \in Writers: WriterInv(v)'
  BY <1>2, <1>3, <1>4, RestKept
<1>6. FreshWriteKeepsPr'
  BY DEF RowsStep
<1> QED BY <1>3, <1>4, <1>5, <1>6, RestKept DEF PullRequestsInv, github

LEMMA WriterReadKeeps ==
    ASSUME PullRequestsInv, NEW w \in Writers, NEW t \in Tasks,
           NEW kind \in {"link", "branch", "plan", "reconcile"}, WriterRead(w, t, kind)
    PROVE  PullRequestsInv'
<1> DEFINE new == [task |-> t, kind |-> kind, row |-> mirrors[Server][t]]
<1>1. PrTypeOK /\ Server \in Dbs
  BY DEF PullRequestsInv, Dbs
<1>2. /\ wr' = [wr EXCEPT ![w] = new]
      /\ UNCHANGED <<github, review, ci, pub, chk, raced, ready, mirrors,
                     recorded, history>>
      /\ left' \in Budget
  BY <1>1, Spending DEF WriterRead, PrTypeOK
<1>3. PICK x \in Rewrite:
          /\ x = new
          /\ x.task = t
          /\ x.row = mirrors[Server][t]
  <2>1. mirrors[Server][t] \in TaskRow
    BY <1>1 DEF PrTypeOK
  <2>2. new \in Rewrite /\ new.task = t /\ new.row = mirrors[Server][t]
    BY <2>1 DEF Rewrite
  <2> HIDE DEF new
  <2> QED BY <2>2
<1> HIDE DEF new
<1>4. wr'[w] = x /\ wr' = [wr EXCEPT ![w] = x]
  BY <1>1, <1>2, <1>3 DEF PrTypeOK
<1>5. /\ Exists(x.row.pr)
      /\ x.row.ver \in Nat
  BY <1>1, <1>3 DEF PullRequestsInv, TaskInv, PrTypeOK, TaskRow
<1>6. WriterInv(w)'
  BY <1>2, <1>3, <1>4, <1>5 DEF WriterInv, Exists, github
<1>7. RowsStep
  BY <1>2, MirrorStays
<1> QED BY <1>2, <1>4, <1>6, <1>7, WriterStep

\* What is known of a writer's row.
LEMMA Writing ==
    ASSUME PullRequestsInv, NEW w \in Writers, wr[w] # Unset
    PROVE  /\ Server \in Dbs
           /\ wr[w].task \in Tasks
           /\ wr[w].row \in TaskRow
           /\ wr[w].row.ver \in Nat /\ wr[w].row.closed \in BOOLEAN
           /\ wr[w].row.pr \in Prs \cup {Unset}
           /\ wr[w].row.branch \in Branches \cup {Unset}
           /\ wr[w].row.commit \in Commits \cup {Unset}
           /\ Exists(wr[w].row.pr)
           /\ mirrors[Server][wr[w].task].ver = wr[w].row.ver =>
                  mirrors[Server][wr[w].task] = wr[w].row
<1>1. wr[w] \in Rewrite /\ WriterInv(w)
  BY DEF PullRequestsInv, PrTypeOK
<1>2. wr[w].task \in Tasks /\ wr[w].row \in TaskRow
  BY <1>1 DEF Rewrite
<1> QED BY <1>1, <1>2 DEF WriterInv, TaskRow, Dbs

LEMMA WriterEndsKeeps ==
    ASSUME PullRequestsInv, NEW w \in Writers, WriterEnds(w), RowsStep
    PROVE  PullRequestsInv'
<1>1. wr' = [wr EXCEPT ![w] = Unset] /\ wr'[w] = Unset
  BY DEF WriterEnds, PullRequestsInv, PrTypeOK
<1>2. left' \in Budget
  BY DEF WriterEnds, PullRequestsInv, PrTypeOK
<1>3. WriterInv(w)'
  BY <1>1 DEF WriterInv
<1>4. UNCHANGED <<github, review, ci, pub, chk, raced, ready, recorded>>
  BY DEF WriterEnds
<1> QED BY <1>1, <1>2, <1>3, <1>4, WriterStep

LEMMA LinkTaskKeeps ==
    ASSUME PullRequestsInv, NEW w \in Writers, NEW q \in Prs,
           NEW b \in Branches \cup {Unset}, LinkTask(w, q, b)
    PROVE  PullRequestsInv'
<1> DEFINE t == wr[w].task
           row == wr[w].row
           branch == IF b = Unset THEN row.branch ELSE b
           refused == \/ row.branch \notin {Unset, branch}
                      \/ Rebind(row, q)
                      \/ \E u \in Tasks \ {t}: mirrors[Server][u].pr = q
<1>1. /\ wr[w] # Unset
      /\ prs[q] # Unset
      /\ WriterEnds(w)
      /\ IF refused THEN UNCHANGED <<mirrors, history>>
         ELSE Upsert(Server, t, row, q, branch, row.commit)
  BY Zenon DEF LinkTask
<1>2. CASE refused
  BY <1>1, <1>2, MirrorStays, WriterEndsKeeps
<1>3. CASE ~refused
  <2>1. /\ branch \in Branches \cup {Unset}
        /\ ~BoundElsewhere(row, q)
        /\ row.branch # Unset => branch = row.branch
    BY <1>1, <1>3, Writing DEF Rebind
  <2>2. Upsert(Server, t, row, q, branch, row.commit)
    BY <1>1, <1>3
  <2>3. Exists(q)
    BY <1>1 DEF Exists
  <2>4. ASSUME mirrors[Server][t] = row, NEW r \in recorded,
               row.pr = r.pr, row.branch = r.branch
        PROVE  q = r.pr /\ branch = r.branch
    <3>1. r.pr # Unset /\ r.branch # Unset
      BY PullRequestsAssumption DEF PullRequestsInv, PrTypeOK
    <3> QED BY <2>1, <2>4, <3>1 DEF BoundElsewhere
  <2> HIDE DEF branch
  <2>5. mirrors[Server][t].ver = row.ver => mirrors[Server][t] = row
    BY <1>1, Writing
  <2>6. mirrors[Server][t].ver = row.ver =>
            /\ ~BoundElsewhere(mirrors[Server][t], q)
            /\ \A r \in recorded:
                   /\ r.task = t
                   /\ mirrors[Server][t].pr = r.pr
                   /\ mirrors[Server][t].branch = r.branch
                   => q = r.pr /\ branch = r.branch
    BY <2>1, <2>4, <2>5
  <2>7. RowsStep
    BY <1>1, <2>1, <2>2, <2>3, <2>6, Writing, Upserting
  <2> QED BY <1>1, <2>7, WriterEndsKeeps
<1> QED BY <1>2, <1>3

LEMMA AllocateBranchKeeps ==
    ASSUME PullRequestsInv, NEW w \in Writers, AllocateBranch(w)
    PROVE  PullRequestsInv'
<1> DEFINE t == wr[w].task
           row == wr[w].row
           b == BranchOf[t]
           refused == \/ row.branch \notin {Unset, b}
                      \/ row.branch = Unset /\ CrossTask(Server, t, b, Unset)
<1>1. /\ wr[w] # Unset
      /\ WriterEnds(w)
      /\ IF refused THEN UNCHANGED <<mirrors, history>>
         ELSE Upsert(Server, t, row, row.pr, b, row.commit)
  BY Zenon DEF AllocateBranch
<1>2. CASE refused
  BY <1>1, <1>2, MirrorStays, WriterEndsKeeps
<1>3. CASE ~refused
  <2>1. /\ b \in Branches \cup {Unset}
        /\ ~BoundElsewhere(row, row.pr)
        /\ row.branch # Unset => b = row.branch
    BY <1>1, <1>3, Writing, PullRequestsAssumption DEF BoundElsewhere
  <2>2. Upsert(Server, t, row, row.pr, b, row.commit)
    BY <1>1, <1>3
  <2>3. ASSUME mirrors[Server][t] = row, NEW r \in recorded,
               row.pr = r.pr, row.branch = r.branch
        PROVE  b = r.branch
    <3>1. r.branch # Unset
      BY PullRequestsAssumption DEF PullRequestsInv, PrTypeOK
    <3> QED BY <2>1, <2>3, <3>1
  <2> HIDE DEF b
  <2>4. mirrors[Server][t].ver = row.ver => mirrors[Server][t] = row
    BY <1>1, Writing
  <2>5. mirrors[Server][t].ver = row.ver =>
            /\ ~BoundElsewhere(mirrors[Server][t], row.pr)
            /\ \A r \in recorded:
                   /\ r.task = t
                   /\ mirrors[Server][t].pr = r.pr
                   /\ mirrors[Server][t].branch = r.branch
                   => row.pr = r.pr /\ b = r.branch
    BY <2>1, <2>3, <2>4
  <2>6. RowsStep
    BY <1>1, <2>1, <2>2, <2>5, Writing, Upserting
  <2> QED BY <1>1, <2>6, WriterEndsKeeps
<1> QED BY <1>2, <1>3

LEMMA PlanDecisionKeeps ==
    ASSUME PullRequestsInv, NEW w \in Writers, PlanDecision(w)
    PROVE  PullRequestsInv'
<1> DEFINE row == wr[w].row
<1>1. /\ wr[w] # Unset
      /\ WriterEnds(w)
      /\ Upsert(Server, wr[w].task, row, row.pr, row.branch, row.commit)
  BY DEF PlanDecision
<1>2. ~BoundElsewhere(row, row.pr)
  BY DEF BoundElsewhere
<1>3. RowsStep
  BY <1>1, <1>2, Writing, Upserting
<1> QED BY <1>1, <1>3, WriterEndsKeeps

LEMMA ReconcileTaskKeeps ==
    ASSUME PullRequestsInv, NEW w \in Writers, NEW q \in Prs \cup {Unset},
           NEW b \in Branches \cup {Unset}, NEW c \in BOOLEAN, ReconcileTask(w, q, b, c)
    PROVE  PullRequestsInv'
<1> DEFINE t == wr[w].task
           row == wr[w].row
           read == [row EXCEPT !.closed = c]
           pr == IF q = Unset THEN row.pr ELSE q
           branch == IF b = Unset THEN row.branch ELSE b
           refused == row.branch \notin {Unset, branch} \/ Rebind(row, pr)
<1>1. /\ wr[w] # Unset
      /\ q # Unset => prs[q] # Unset
      /\ WriterEnds(w)
      /\ IF refused THEN UNCHANGED <<mirrors, history>>
         ELSE Upsert(Server, t, read, pr, branch, row.commit)
  BY Zenon DEF ReconcileTask
<1>2. CASE refused
  BY <1>1, <1>2, MirrorStays, WriterEndsKeeps
<1>3. CASE ~refused
  <2>1. /\ branch \in Branches \cup {Unset}
        /\ pr \in Prs \cup {Unset}
        /\ ~BoundElsewhere(row, pr)
        /\ row.branch # Unset => branch = row.branch
        /\ row.pr # Unset => pr = row.pr
        /\ Exists(pr)
    BY <1>1, <1>3, Writing DEF Rebind, BoundElsewhere, Exists
  <2>2. read.ver = row.ver /\ read.closed = c /\ row.ver \in Nat
    BY <1>1, Writing DEF TaskRow
  <2>3. Upsert(Server, t, read, pr, branch, row.commit)
    BY <1>1, <1>3
  <2>4. ASSUME mirrors[Server][t] = row, NEW r \in recorded,
               row.pr = r.pr, row.branch = r.branch
        PROVE  pr = r.pr /\ branch = r.branch
    <3>1. r.pr # Unset /\ r.branch # Unset
      BY PullRequestsAssumption DEF PullRequestsInv, PrTypeOK
    <3> QED BY <2>1, <2>4, <3>1
  <2> HIDE DEF branch, pr, read
  <2>5. mirrors[Server][t].ver = row.ver => mirrors[Server][t] = row
    BY <1>1, Writing
  <2>6. mirrors[Server][t].ver = read.ver =>
            /\ ~BoundElsewhere(mirrors[Server][t], pr)
            /\ \A r \in recorded:
                   /\ r.task = t
                   /\ mirrors[Server][t].pr = r.pr
                   /\ mirrors[Server][t].branch = r.branch
                   => pr = r.pr /\ branch = r.branch
    BY <2>1, <2>2, <2>4, <2>5
  <2>7. RowsStep
    BY <1>1, <2>1, <2>2, <2>3, <2>6, Writing, Upserting
  <2> QED BY <1>1, <2>7, WriterEndsKeeps
<1> QED BY <1>2, <1>3

-----------------------------------------------------------------------------
(* pr review, ci check and the merge gate                                     *)
LEMMA CheckerStep ==
    ASSUME PullRequestsInv, NEW k \in Checkers,
           NEW x \in Checking \cup {Unset}, chk' = [chk EXCEPT ![k] = x],
           UNCHANGED checks, left' \in Budget,
           review' \in [Tasks -> Verdict \cup {Unset}],
           ci' \in [Tasks -> Verdict \cup {Unset}],
           CheckerInv(k)', \A t \in Tasks: TaskInv(t)', ReadyWasVerified'
    PROVE  PullRequestsInv'
<1>1. PrTypeOK
  BY DEF PullRequestsInv
<1>2. /\ chk' \in [Checkers -> Checking \cup {Unset}]
      /\ \A j \in Checkers: j # k => chk'[j] = chk[j]
  BY <1>1 DEF PrTypeOK
<1>3. PrTypeOK'
  BY <1>1, <1>2 DEF PrTypeOK, checks, github, history
<1>4. PastKept
  BY QuietPast DEF checks
<1>5. RowsStep
  BY MirrorStays DEF checks
<1>6. \A j \in Checkers: CheckerInv(j)'
  <2>1. prs' = prs
    BY DEF checks, github
  <2> QED BY <1>2, <1>3, <1>4, <1>5, <2>1, RestKept
<1>7. FreshWriteKeepsPr'
  BY <1>5 DEF RowsStep
<1> QED BY <1>3, <1>4, <1>5, <1>6, <1>7, RestKept DEF PullRequestsInv, checks

\* What a check that runs knows.
LEMMA CheckingFacts ==
    ASSUME PullRequestsInv, NEW k \in Checkers, chk[k] # Unset
    PROVE  /\ chk \in [Checkers -> Checking \cup {Unset}]
           /\ chk[k] \in Checking
           /\ chk[k].pr \in Prs
           /\ chk[k].task \in Tasks
           /\ prs[chk[k].pr] \in Pr
           /\ PrInv(chk[k].pr)
           /\ CheckerInv(k)
<1>1. PrTypeOK /\ CheckerInv(k)
  BY DEF PullRequestsInv
<1>2. chk[k] \in Checking
  BY <1>1 DEF PrTypeOK
<1>3. chk[k].pr \in Prs /\ chk[k].task \in Tasks
  BY <1>2 DEF Checking
<1>4. PrInv(chk[k].pr)
  BY <1>3 DEF PullRequestsInv
<1> QED BY <1>1, <1>2, <1>3, <1>4 DEF PrTypeOK, CheckerInv

\* A check that goes on without writing its event.
LEMMA CheckerOnly ==
    ASSUME PullRequestsInv, NEW k \in Checkers, NEW x \in Checking,
           chk' = [chk EXCEPT ![k] = x],
           UNCHANGED <<checks, review, ci, ready>>, left' \in Budget,
           prs[x.pr] # Unset,
           x.kind # "gate" /\ x.ok =>
               /\ x.pc = "head" => Vouched(Says(x.kind), x.pr, prs[x.pr].head)
               /\ x.pc = "write" => Vouched(Says(x.kind), x.pr, x.head)
    PROVE  PullRequestsInv'
<1>1. chk'[k] = x /\ prs' = prs /\ seen' = seen /\ raced' = raced
  BY DEF PullRequestsInv, PrTypeOK, checks, github
<1>2. CheckerInv(k)'
  BY <1>1 DEF CheckerInv, Vouched, Says
<1>3. /\ review' \in [Tasks -> Verdict \cup {Unset}]
      /\ ci' \in [Tasks -> Verdict \cup {Unset}]
      /\ \A t \in Tasks: TaskInv(t)'
      /\ ReadyWasVerified'
  <2>1. mirrors' = mirrors /\ Dbs' = Dbs
    BY DEF checks, Dbs
  <2> QED BY <1>1, <2>1 DEF PullRequestsInv, PrTypeOK, TaskInv, Exists, Vouched,
                            ReadyWasVerified
<1> QED BY <1>2, <1>3, CheckerStep

LEMMA CheckBeginKeeps ==
    ASSUME PullRequestsInv, NEW k \in Checkers, NEW t \in Tasks, NEW p \in Prs,
           NEW kind \in {"review", "ci", "gate"}, CheckBegin(k, t, kind, p)
    PROVE  PullRequestsInv'
<1> DEFINE new == [pc |-> IF kind = "gate" THEN "head" ELSE "status", task |-> t,
                   kind |-> kind, pr |-> p, ok |-> FALSE, head |-> Unset]
<1>1. /\ prs[p] # Unset
      /\ chk' = [chk EXCEPT ![k] = new]
      /\ UNCHANGED <<checks, review, ci, ready>>
      /\ left' \in Budget
  BY Spending DEF CheckBegin, PullRequestsInv, PrTypeOK
<1>2. new \in Checking /\ new.pr = p /\ new.ok = FALSE
  BY DEF Checking
<1> HIDE DEF new
<1> QED BY <1>1, <1>2, CheckerOnly

\* The answer of gh: what it says of a head was true when it said it.
LEMMA QueriedKeeps ==
    ASSUME PullRequestsInv, NEW k \in Checkers, chk[k] # Unset,
           NEW ok \in BOOLEAN, Queried(k, ok),
           UNCHANGED <<checks, review, ci, ready, left>>,
           ok => <<Says(chk[k].kind), chk[k].pr, prs[chk[k].pr].head>> \in seen
    PROVE  PullRequestsInv'
<1> DEFINE x == [chk[k] EXCEPT !.pc = "head", !.ok = ok]
<1>1. left' \in Budget
  BY DEF PullRequestsInv, PrTypeOK
<1>2. chk' = [chk EXCEPT ![k] = x]
  BY CheckingFacts DEF Queried
<1>3. /\ x \in Checking
      /\ x.pc = "head"
      /\ x.ok = ok
      /\ x.pr = chk[k].pr
      /\ x.kind = chk[k].kind
  BY CheckingFacts DEF Checking
<1> HIDE DEF x
<1>4. prs[x.pr] # Unset
  BY <1>3, CheckingFacts DEF CheckerInv
<1>5. x.ok => Vouched(Says(x.kind), x.pr, prs[x.pr].head)
  BY <1>3 DEF Vouched
<1> QED BY <1>1, <1>2, <1>3, <1>4, <1>5, CheckerOnly

LEMMA QueryReviewKeeps ==
    ASSUME PullRequestsInv, NEW k \in Checkers, QueryReview(k)
    PROVE  PullRequestsInv'
<1> DEFINE ok == prs[chk[k].pr].review = "approved"
<1>1. /\ chk[k] # Unset
      /\ chk[k].kind = "review"
      /\ Queried(k, ok)
      /\ UNCHANGED <<checks, review, ci, ready, left>>
  BY DEF QueryReview
<1>2. ok => <<Says(chk[k].kind), chk[k].pr, prs[chk[k].pr].head>> \in seen
  BY <1>1, CheckingFacts DEF PrInv, CheckerInv, Says
<1> QED BY <1>1, <1>2, QueriedKeeps

LEMMA QueryChecksKeeps ==
    ASSUME PullRequestsInv, NEW k \in Checkers, QueryChecks(k)
    PROVE  PullRequestsInv'
<1> DEFINE ok == prs[chk[k].pr].checks = "passed"
<1>1. /\ chk[k] # Unset
      /\ chk[k].kind = "ci"
      /\ Queried(k, ok)
      /\ UNCHANGED <<checks, review, ci, ready, left>>
  BY DEF QueryChecks
<1>2. ok => <<Says(chk[k].kind), chk[k].pr, prs[chk[k].pr].head>> \in seen
  BY <1>1, CheckingFacts DEF PrInv, CheckerInv, Says
<1> QED BY <1>1, <1>2, QueriedKeeps

LEMMA QueryHeadKeeps ==
    ASSUME PullRequestsInv, NEW k \in Checkers, QueryHead(k)
    PROVE  PullRequestsInv'
<1> DEFINE x == [chk[k] EXCEPT !.pc = "write", !.head = prs[chk[k].pr].head]
<1>1. /\ chk[k] # Unset
      /\ chk[k].pc = "head"
      /\ UNCHANGED <<checks, review, ci, ready, left>>
      /\ left' \in Budget
  BY DEF QueryHead, PullRequestsInv, PrTypeOK
<1>2. chk' = [chk EXCEPT ![k] = x]
  BY <1>1, CheckingFacts DEF QueryHead
<1>3. prs[chk[k].pr].head \in Commits
  BY <1>1, CheckingFacts DEF Pr
<1>4. /\ x \in Checking
      /\ x.pc = "write"
      /\ x.head = prs[chk[k].pr].head
      /\ x.ok = chk[k].ok
      /\ x.pr = chk[k].pr
      /\ x.kind = chk[k].kind
  BY <1>1, <1>3, CheckingFacts DEF Checking
<1> HIDE DEF x
<1>5. /\ prs[x.pr] # Unset
      /\ x.kind # "gate" /\ x.ok => Vouched(Says(x.kind), x.pr, x.head)
  BY <1>1, <1>4, CheckingFacts DEF CheckerInv
<1> QED BY <1>1, <1>2, <1>4, <1>5, CheckerOnly

LEMMA WriteReviewKeeps ==
    ASSUME PullRequestsInv, NEW k \in Checkers, WriteReview(k)
    PROVE  PullRequestsInv'
<1> DEFINE c == chk[k]
<1>1. /\ c # Unset
      /\ c.pc = "write"
      /\ c.kind = "review"
      /\ review' = [review EXCEPT ![c.task] = Result(c)]
      /\ chk' = [chk EXCEPT ![k] = Unset]
      /\ UNCHANGED <<checks, ci, ready, left>>
      /\ left' \in Budget
  BY DEF WriteReview, PullRequestsInv, PrTypeOK
<1>2. PICK e \in Verdict:
          /\ e = Result(c)
          /\ e.ok = c.ok
          /\ e.pr = c.pr
          /\ e.head = c.head
  BY <1>1, CheckingFacts DEF Checking, Verdict, Result
<1>3. /\ review' \in [Tasks -> Verdict \cup {Unset}]
      /\ review'[c.task] = e
      /\ \A t \in Tasks: t # c.task => review'[t] = review[t]
      /\ ci' \in [Tasks -> Verdict \cup {Unset}]
  BY <1>1, <1>2, CheckingFacts DEF PullRequestsInv, PrTypeOK
<1>4. e.ok => Vouched("approved", e.pr, e.head)
  BY <1>1, <1>2, CheckingFacts DEF CheckerInv, Says
<1>5. /\ mirrors' = mirrors
      /\ prs' = prs
      /\ seen' = seen
      /\ raced' = raced
      /\ Dbs' = Dbs
      /\ ci' = ci
      /\ ready' = ready
  BY <1>1 DEF checks, github, Dbs
<1>6. ASSUME NEW t \in Tasks
      PROVE  TaskInv(t)'
  <2>1. TaskInv(t)
    BY DEF PullRequestsInv
  <2>2. review'[t] # Unset /\ review'[t].ok =>
            Vouched("approved", review'[t].pr, review'[t].head)
    BY <1>3, <1>4, <2>1 DEF TaskInv
  <2> QED BY <1>5, <2>1, <2>2 DEF TaskInv, Exists, Vouched
<1>7. ReadyWasVerified'
  BY <1>5 DEF PullRequestsInv, ReadyWasVerified
<1>8. CheckerInv(k)'
  <2>1. chk'[k] = Unset
    BY <1>1, CheckingFacts
  <2> QED BY <2>1 DEF CheckerInv
<1> QED BY <1>1, <1>3, <1>6, <1>7, <1>8, CheckerStep

LEMMA WriteCiKeeps ==
    ASSUME PullRequestsInv, NEW k \in Checkers, WriteCi(k)
    PROVE  PullRequestsInv'
<1> DEFINE c == chk[k]
<1>1. /\ c # Unset
      /\ c.pc = "write"
      /\ c.kind = "ci"
      /\ ci' = [ci EXCEPT ![c.task] = Result(c)]
      /\ chk' = [chk EXCEPT ![k] = Unset]
      /\ UNCHANGED <<checks, review, ready, left>>
      /\ left' \in Budget
  BY DEF WriteCi, PullRequestsInv, PrTypeOK
<1>2. PICK e \in Verdict:
          /\ e = Result(c)
          /\ e.ok = c.ok
          /\ e.pr = c.pr
          /\ e.head = c.head
  BY <1>1, CheckingFacts DEF Checking, Verdict, Result
<1>3. /\ ci' \in [Tasks -> Verdict \cup {Unset}]
      /\ ci'[c.task] = e
      /\ \A t \in Tasks: t # c.task => ci'[t] = ci[t]
      /\ review' \in [Tasks -> Verdict \cup {Unset}]
  BY <1>1, <1>2, CheckingFacts DEF PullRequestsInv, PrTypeOK
<1>4. e.ok => Vouched("passed", e.pr, e.head)
  BY <1>1, <1>2, CheckingFacts DEF CheckerInv, Says
<1>5. /\ mirrors' = mirrors
      /\ prs' = prs
      /\ seen' = seen
      /\ raced' = raced
      /\ Dbs' = Dbs
      /\ review' = review
      /\ ready' = ready
  BY <1>1 DEF checks, github, Dbs
<1>6. ASSUME NEW t \in Tasks
      PROVE  TaskInv(t)'
  <2>1. TaskInv(t)
    BY DEF PullRequestsInv
  <2>2. ci'[t] # Unset /\ ci'[t].ok =>
            Vouched("passed", ci'[t].pr, ci'[t].head)
    BY <1>3, <1>4, <2>1 DEF TaskInv
  <2> QED BY <1>5, <2>1, <2>2 DEF TaskInv, Exists, Vouched
<1>7. ReadyWasVerified'
  BY <1>5 DEF PullRequestsInv, ReadyWasVerified
<1>8. CheckerInv(k)'
  <2>1. chk'[k] = Unset
    BY <1>1, CheckingFacts
  <2> QED BY <2>1 DEF CheckerInv
<1> QED BY <1>1, <1>3, <1>6, <1>7, <1>8, CheckerStep

\* The gate's verdict needs a vouched approval and vouched checks.
LEMMA GateKeeps ==
    ASSUME PullRequestsInv, NEW k \in Checkers, Gate(k)
    PROVE  PullRequestsInv'
<1> DEFINE c == chk[k]
           passes == /\ CountsFor(review[c.task], c.pr, c.head)
                     /\ CountsFor(ci[c.task], c.pr, c.head)
<1>1. /\ c # Unset
      /\ ready' = IF passes THEN ready \cup {<<c.pr, c.head>>} ELSE ready
      /\ chk' = [chk EXCEPT ![k] = Unset]
      /\ UNCHANGED <<checks, review, ci, left>>
      /\ left' \in Budget
  BY DEF Gate, PullRequestsInv, PrTypeOK
<1>2. /\ mirrors' = mirrors
      /\ prs' = prs
      /\ seen' = seen
      /\ raced' = raced
      /\ Dbs' = Dbs
      /\ review' = review
      /\ ci' = ci
  BY <1>1 DEF checks, github, Dbs
<1>3. passes => \/ {<<"approved", c.pr, c.head>>, <<"passed", c.pr, c.head>>} \subseteq seen
                \/ <<c.pr, c.head>> \in raced
  <2>1. TaskInv(c.task)
    BY <1>1, CheckingFacts DEF PullRequestsInv
  <2> QED BY <2>1 DEF TaskInv, CountsFor, Vouched
<1>4. ReadyWasVerified'
  <2>1. ReadyWasVerified
    BY DEF PullRequestsInv
  <2>2. CASE passes
    <3> DEFINE g == <<c.pr, c.head>>
    <3>1. g[1] = c.pr /\ g[2] = c.head
      OBVIOUS
    <3>2. ready' = ready \cup {g}
      BY <1>1, <2>2
    <3>3. \/ {<<"approved", g[1], g[2]>>, <<"passed", g[1], g[2]>>} \subseteq seen
          \/ g \in raced
      BY <1>3, <2>2, <3>1
    <3> HIDE DEF g
    <3> QED BY <1>2, <2>1, <3>2, <3>3 DEF ReadyWasVerified
  <2>3. CASE ~passes
    BY <1>1, <1>2, <2>1, <2>3 DEF ReadyWasVerified
  <2> QED BY <2>2, <2>3
<1>5. \A t \in Tasks: TaskInv(t)'
  BY <1>2 DEF PullRequestsInv, TaskInv, Exists, Vouched
<1>6. CheckerInv(k)'
  <2>1. chk'[k] = Unset
    BY <1>1, CheckingFacts
  <2> QED BY <2>1 DEF CheckerInv
<1>7. /\ review' \in [Tasks -> Verdict \cup {Unset}]
      /\ ci' \in [Tasks -> Verdict \cup {Unset}]
  BY <1>2 DEF PullRequestsInv, PrTypeOK
<1> QED BY <1>1, <1>4, <1>5, <1>6, <1>7, CheckerStep

-----------------------------------------------------------------------------
LEMMA PrInitKeeps == PrInit => PullRequestsInv
<1> SUFFICES ASSUME PrInit
             PROVE  PullRequestsInv
  OBVIOUS
<1>1. NoRow \in TaskRow /\ NoRow.pr = Unset
  BY DEF NoRow, TaskRow
<1>2. PrTypeOK
  BY <1>1, PullRequestsAssumption DEF PrInit, PrTypeOK
<1>3. ASSUME NEW t \in Tasks
      PROVE  TaskInv(t)
  BY <1>1, <1>3 DEF PrInit, TaskInv, Exists
<1> QED BY <1>2, <1>3
        DEF PrInit, PullRequestsInv, BranchInv, PrInv, PublishInv, WriterInv,
            CheckerInv, FreshWriteKeepsPr, ReadyWasVerified

LEMMA PrStepKeeps ==
    ASSUME PullRequestsInv, [PrNext]_prVars
    PROVE  PullRequestsInv'
<1>1. CASE \E b \in Branches, c \in Commits: Push(b, c)
  BY <1>1, PushKeeps
<1>2. CASE \E p \in Prs: Judge(p) \/ ClosePr(p)
  BY <1>2, JudgeKeeps, ClosePrKeeps
<1>3. CASE \E h \in CodingHosts, t \in Tasks, b \in Branches, c \in Commits:
              Publish(h, t, b, c)
  BY <1>3, PublishKeeps
<1>4. CASE \E h \in CodingHosts, isPushed \in BOOLEAN: ValidateCreate(h, isPushed)
  BY <1>4, ValidateCreateKeeps
<1>5. CASE \E h \in CodingHosts, q \in Prs: CreatePr(h, q)
  BY <1>5, CreatePrKeeps
<1>6. CASE \E h \in CodingHosts:
              \/ Preflight(h) \/ ValidateLink(h) \/ FetchRef(h) \/ Discover(h)
              \/ DiscoverExisting(h) \/ CreateRefused(h)
              \/ FinalizeCheck(h) \/ FinalizeWrite(h) \/ Record(h) \/ HostCrash(h)
  BY <1>6, PreflightKeeps, ValidateLinkKeeps, FetchRefKeeps, DiscoverKeeps,
     DiscoverExistingKeeps, CreateRefusedKeeps, FinalizeCheckKeeps,
     FinalizeWriteKeeps, RecordKeeps, HostCrashKeeps
<1>7. CASE \E w \in Writers, t \in Tasks, kind \in {"link", "branch", "plan", "reconcile"}:
              WriterRead(w, t, kind)
  BY <1>7, WriterReadKeeps
<1>8. CASE \E w \in Writers, q \in Prs, b \in Branches \cup {Unset}:
              LinkTask(w, q, b)
  BY <1>8, LinkTaskKeeps
<1>9. CASE \E w \in Writers: AllocateBranch(w) \/ PlanDecision(w)
  BY <1>9, AllocateBranchKeeps, PlanDecisionKeeps
<1>13. CASE \E w \in Writers, q \in Prs \cup {Unset}, b \in Branches \cup {Unset},
              c \in BOOLEAN: ReconcileTask(w, q, b, c)
  BY <1>13, ReconcileTaskKeeps
<1>10. CASE \E k \in Checkers, t \in Tasks, kind \in {"review", "ci", "gate"}, p \in Prs:
               CheckBegin(k, t, kind, p)
  BY <1>10, CheckBeginKeeps
<1>11. CASE \E k \in Checkers:
               \/ QueryReview(k) \/ QueryChecks(k) \/ QueryHead(k)
               \/ WriteReview(k) \/ WriteCi(k) \/ Gate(k)
  BY <1>11, QueryReviewKeeps, QueryChecksKeeps, QueryHeadKeeps, WriteReviewKeeps,
     WriteCiKeeps, GateKeeps
<1>12. CASE UNCHANGED prVars
  BY <1>12
     DEF prVars, github, history, PullRequestsInv, PrTypeOK, BranchInv, PrInv,
         TaskInv, Exists, Vouched, PublishInv, Published, WriterInv, CheckerInv,
         RecordInv, FreshWriteKeepsPr, ReadyWasVerified, Dbs
<1> QED BY <1>1, <1>2, <1>3, <1>4, <1>5, <1>6, <1>7, <1>8, <1>9, <1>13, <1>10, <1>11,
           <1>12 DEF PrNext

\* Whatever is pushed, reviewed, written or killed in between, the inductive
\* invariant of the pull requests holds.
LEMMA PullRequestsHold == PrSpec => []PullRequestsInv
<1>1. PullRequestsInv /\ [PrNext]_prVars => PullRequestsInv'
  BY PrStepKeeps
<1> QED BY <1>1, PrInitKeeps, PTL DEF PrSpec

\* Every variable keeps its type: rows, commands, checks and verdicts.
THEOREM PrTyped == PrSpec => []PrTypeOK
<1>1. PullRequestsInv => PrTypeOK
  BY DEF PullRequestsInv
<1> QED BY <1>1, PullRequestsHold, PTL

\* No command that read the row as it still is gives a task another pull
\* request: publish, pr link, branch allocate and the plan gate all test it.
THEOREM FreshKeepsPr == PrSpec => []FreshWriteKeepsPr
<1>1. PullRequestsInv => FreshWriteKeepsPr
  BY DEF PullRequestsInv
<1> QED BY <1>1, PullRequestsHold, PTL

\* The sink records a commit only if it was the head of its branch on GitHub.
THEOREM RecordsWerePushed == PrSpec => []RecordedWasPushed
<1>1. PullRequestsInv => RecordedWasPushed
  BY DEF PullRequestsInv, RecordInv, RecordedWasPushed
<1> QED BY <1>1, PullRequestsHold, PTL

\* What the sink recorded is what the control plane's mirror says, unless a
\* command wrote the row back from a stale copy.
THEOREM RecordsAreMirrored == PrSpec => []RecordedIsMirrored
<1>1. PullRequestsInv => RecordedIsMirrored
  BY DEF PullRequestsInv, RecordInv, RecordedIsMirrored
<1> QED BY <1>1, PullRequestsHold, PTL

\* The merge gate calls a head ready only if GitHub approved and passed it, or
\* it came between the two reads of a check.
THEOREM ReadyHeadsVerified == PrSpec => []ReadyWasVerified
<1>1. PullRequestsInv => ReadyWasVerified
  BY DEF PullRequestsInv
<1> QED BY <1>1, PullRequestsHold, PTL
=============================================================================
