--------------------------- MODULE DeliveryProofs ---------------------------
(***************************************************************************)
(* Proofs about the three processes that events, messages and local jobs   *)
(* go through: the daemon's event pump, the delivery outbox and the local  *)
(* job runner.                                                             *)
(*                                                                         *)
(* EventPump: the shared cursor never passes an event without all its      *)
(* deliveries, unless a scan left it behind at the limit of pump_events,   *)
(* for any limit, threads, workspaces, events, exceptions and restarts.    *)
(* DeliveryOutbox: a channel message is posted at most once, and what its  *)
(* row says of it is true, for any deliveries, senders and callers.        *)
(* JobRunner: no pump starts a job twice, and no started job is in the     *)
(* queue again, for any number of pumps, jobs, operators and crashes.      *)
(***************************************************************************)
EXTENDS EventPump, DeliveryOutbox, JobRunner, SequenceTheorems, TLAPS

------------------------------------------------------------------------------
(* The event pump *)

(* The events of a workspace up to place k have their deliveries (from the *)
(* daemon's first reading on), or were left behind.                        *)
CoveredIn(events, made, left, from, w, k) ==
  \A r \in 1 .. Len(events) :
    from < r /\ r <= k /\ events[r].ws = w =>
      r \in left \/ \A i \in 1 .. events[r].parts : <<r, i>> \in made
Covered(w, k) == CoveredIn(log, rows, leftOver, base, w, k)

CursorKnown == cursor # Null => base # Null /\ cursor <= Len(log)

(* Where a scan stands: everything up to its event is covered, or all but  *)
(* the second delivery of that event.                                      *)
ScanOf(events, made, left, from, x) ==
  IF x.rest = 0 THEN CoveredIn(events, made, left, from, x.ws, x.at)
  ELSE /\ x.at \in 1 .. Len(events) /\ <<x.at, 1>> \in made
       /\ CoveredIn(events, made, left, from, x.ws, x.at - 1)

(* Where a call stands: the workspaces it is through with are covered up   *)
(* to its cutoff, and the one it scans up to where the scan is.            *)
PumpOf(t) ==
  /\ pump[t].seen <= Len(log)
  /\ pump[t].pc \in {"cutoff", "next", "scan"} => cursor # Null
  /\ pump[t].pc = "next" =>
       \A w \in Workspaces \ pump[t].todo : Covered(w, pump[t].seen)
  /\ pump[t].pc = "scan" =>
       /\ pump[t].ws \in Workspaces /\ pump[t].at <= Len(log)
       /\ ScanOf(log, rows, leftOver, base, pump[t])
       /\ \A w \in Workspaces \ (pump[t].todo \cup {pump[t].ws}) : Covered(w, pump[t].seen)

PumpInv ==
  /\ PumpTypeOK /\ CursorKnown /\ PassedIsDelivered
  /\ \A t \in Threads : PumpOf(t)

LEMMA PumpTypes ==
  ASSUME PumpTypeOK
  PROVE  /\ Len(log) \in Nat /\ base \in Nat \cup {Null} /\ cursor \in Nat \cup {Null}
         /\ Null \notin Nat /\ log \in Seq(Event)
         /\ \A r \in 1 .. Len(log) : log[r] \in Event
         /\ \A t \in Threads : pump[t] \in Pump
BY EventPumpAssumption DEF PumpTypeOK

LEMMA PumpStarts == PumpInit => PumpInv
<1> SUFFICES ASSUME PumpInit PROVE PumpInv OBVIOUS
<1>1. log = << >> /\ Len(log) = 0 /\ log \in Seq(Event) BY DEF PumpInit
<1>2. PumpTypeOK BY <1>1, EventPumpAssumption DEF PumpInit, PumpTypeOK, Idle, Pump
<1>3. \A t \in Threads : PumpOf(t) BY <1>1 DEF PumpInit, PumpOf, Idle
<1> QED BY <1>2, <1>3 DEF PumpInit, PumpInv, CursorKnown, PassedIsDelivered

(* What is covered stays covered: the log, the deliveries and what is left *)
(* behind only grow, and the first reading only moves on.                  *)
LEMMA CoveredStays ==
  ASSUME PumpTypeOK, NEW w, NEW k \in Nat, k <= Len(log), Covered(w, k),
         Len(log') \in Nat, Len(log) <= Len(log'), \A r \in 1 .. Len(log) : log'[r] = log[r],
         rows \subseteq rows', leftOver \subseteq leftOver',
         base \in Nat, base' \in Nat, base <= base'
  PROVE  CoveredIn(log', rows', leftOver', base', w, k)
<1> SUFFICES ASSUME NEW r \in 1 .. Len(log'), base' < r, r <= k, log'[r].ws = w
             PROVE  r \in leftOver' \/ \A i \in 1 .. log'[r].parts : <<r, i>> \in rows'
  BY DEF CoveredIn
<1>1. Len(log) \in Nat BY PumpTypes
<1>2. r \in 1 .. Len(log) /\ base < r BY <1>1
<1> QED BY <1>2 DEF Covered, CoveredIn

(* A thread whose locals stay. *)
LEMMA PumpStays ==
  ASSUME PumpInv, NEW t \in Threads, pump'[t] = pump[t],
         Len(log') \in Nat, Len(log) <= Len(log'), \A r \in 1 .. Len(log) : log'[r] = log[r],
         rows \subseteq rows', leftOver \subseteq leftOver',
         base \in Nat => base' \in Nat /\ base <= base',
         cursor # Null => cursor' # Null
  PROVE  PumpOf(t)'
<1>1. PumpTypeOK /\ PumpOf(t) /\ Len(log) \in Nat /\ pump[t] \in Pump BY PumpTypes DEF PumpInv
<1>2. pump[t].pc \in {"cutoff", "next", "scan"} => base \in Nat
  BY <1>1, PumpTypes DEF PumpInv, PumpOf, CursorKnown
<1>3. pump[t].seen \in Nat /\ pump[t].at \in Nat BY <1>1 DEF Pump
<1>4. \A w : \A k \in Nat : k <= Len(log) /\ base \in Nat /\ Covered(w, k)
                              => CoveredIn(log', rows', leftOver', base', w, k)
  BY <1>1, CoveredStays
<1>5. pump[t].seen <= Len(log') /\ (pump[t].at <= Len(log) => pump[t].at <= Len(log'))
  BY <1>1, <1>3 DEF PumpOf
<1>6. pump[t].pc = "next" =>
        \A w \in Workspaces \ pump[t].todo : CoveredIn(log', rows', leftOver', base', w, pump[t].seen)
  BY <1>1, <1>2, <1>3, <1>4 DEF PumpOf
<1>9. pump[t].pc = "scan" => ScanOf(log', rows', leftOver', base', pump[t])
  <2>1. CASE pump[t].rest = 0 BY <2>1, <1>1, <1>2, <1>3, <1>4 DEF PumpOf, ScanOf, Covered
  <2>2. CASE pump[t].rest # 0
    <3> SUFFICES ASSUME pump[t].pc = "scan" PROVE ScanOf(log', rows', leftOver', base', pump[t])
      OBVIOUS
    <3>1. /\ pump[t].at \in 1 .. Len(log) /\ <<pump[t].at, 1>> \in rows
          /\ Covered(pump[t].ws, pump[t].at - 1)
      BY <2>2, <1>1 DEF PumpOf, ScanOf, Covered
    <3>2. pump[t].at - 1 \in Nat /\ pump[t].at - 1 <= Len(log) BY <3>1, <1>1
    <3>3. CoveredIn(log', rows', leftOver', base', pump[t].ws, pump[t].at - 1)
      BY <3>1, <3>2, <1>2, <1>4
    <3>4. pump[t].at \in 1 .. Len(log') BY <3>1, <1>1
    <3> QED BY <2>2, <3>1, <3>3, <3>4 DEF ScanOf
  <2> QED BY <2>1, <2>2
<1>7. pump[t].pc = "scan" =>
        /\ pump[t].ws \in Workspaces /\ pump[t].at <= Len(log')
        /\ ScanOf(log', rows', leftOver', base', pump[t])
        /\ \A w \in Workspaces \ (pump[t].todo \cup {pump[t].ws}) :
             CoveredIn(log', rows', leftOver', base', w, pump[t].seen)
  BY <1>1, <1>2, <1>3, <1>4, <1>5, <1>9 DEF PumpOf
<1>8. pump[t].pc \in {"cutoff", "next", "scan"} => cursor' # Null BY <1>1 DEF PumpOf
<1> QED BY <1>5, <1>6, <1>7, <1>8 DEF PumpOf, Covered

(* A step of one thread, or of none: the others keep their locals.         *)
LEMMA StepKeeps ==
  ASSUME PumpInv, PumpTypeOK', CursorKnown', PassedIsDelivered', NEW S \in SUBSET Threads,
         \A u \in Threads \ S : pump'[u] = pump[u],
         \A u \in S : PumpOf(u)',
         Len(log) <= Len(log'), \A r \in 1 .. Len(log) : log'[r] = log[r],
         rows \subseteq rows', leftOver \subseteq leftOver',
         base \in Nat => base' \in Nat /\ base <= base',
         cursor # Null => cursor' # Null
  PROVE  PumpInv'
<1>1. Len(log') \in Nat BY DEF PumpTypeOK
<1>2. ASSUME NEW u \in Threads PROVE PumpOf(u)'
  <2>1. CASE u \in S BY <2>1
  <2>2. CASE u \notin S BY <2>2, <1>1, PumpStays
  <2> QED BY <2>1, <2>2
<1> QED BY <1>2 DEF PumpInv

(* A step that changes nothing but one thread's locals.                    *)
LEMMA LocalsOnly ==
  ASSUME PumpInv, NEW t \in Threads, NEW p \in Pump, pump' = [pump EXCEPT ![t] = p],
         UNCHANGED <<log, rows, cursor, base, leftOver>>, faults' \in 0 .. MaxFaults,
         PumpOf(t)'
  PROVE  PumpInv'
<1>1. PumpTypeOK' BY DEF PumpInv, PumpTypeOK
<1>2. CursorKnown' /\ PassedIsDelivered' BY DEF PumpInv, CursorKnown, PassedIsDelivered, Delivered
<1>3. Len(log) \in Nat BY PumpTypes DEF PumpInv
<1>4. \A u \in Threads \ {t} : pump'[u] = pump[u] BY DEF PumpInv, PumpTypeOK
<1>5. base \in Nat => base' \in Nat /\ base <= base' OBVIOUS
<1>6. Len(log) <= Len(log') /\ \A r \in 1 .. Len(log) : log'[r] = log[r] BY <1>3
<1> DEFINE S == {t}
<1>7. S \in SUBSET Threads /\ \A u \in S : PumpOf(u)' OBVIOUS
<1>8. \A u \in Threads \ S : pump'[u] = pump[u] BY <1>4
<1> HIDE DEF S
<1> QED BY <1>1, <1>2, <1>5, <1>6, <1>7, <1>8, StepKeeps

LEMMA AppendKeeps ==
  ASSUME PumpInv, NEW w \in Workspaces, NEW n \in 0 .. 2, AppendEvent(w, n)
  PROVE  PumpInv'
<1> DEFINE e == [ws |-> w, parts |-> n]
<1>1. PumpTypeOK /\ Len(log) \in Nat /\ e \in Event /\ log \in Seq(Event) BY PumpTypes DEF PumpInv, Event
<1>2. log' = Append(log, e) /\ UNCHANGED <<rows, cursor, pump, base, leftOver, faults>> /\ Len(log) < MaxEvents
  BY DEF AppendEvent
<1> HIDE DEF e
<1>3. /\ log' \in Seq(Event) /\ Len(log') = Len(log) + 1
      /\ \A r \in 1 .. Len(log) : log'[r] = log[r]
  BY <1>1, <1>2, AppendProperties
<1>4. PumpTypeOK' BY <1>1, <1>2, <1>3, EventPumpAssumption DEF PumpTypeOK
<1>5. CursorKnown' BY <1>1, <1>2, <1>3, PumpTypes DEF PumpInv, CursorKnown
<1>6. PassedIsDelivered'
  <2> SUFFICES ASSUME cursor' # Null, NEW r \in 1 .. Len(log'), base' < r, r <= cursor'
               PROVE  Delivered(r)' \/ r \in leftOver'
    BY DEF PassedIsDelivered
  <2>1. cursor \in Nat /\ cursor <= Len(log) BY <1>1, <1>2, PumpTypes DEF PumpInv, CursorKnown
  <2>2. r \in 1 .. Len(log) BY <1>1, <1>2, <2>1
  <2> QED BY <2>2, <1>2, <1>3 DEF PumpInv, PassedIsDelivered, Delivered
<1>7. base \in Nat => base' \in Nat /\ base <= base' BY <1>2
<1>8. Len(log) <= Len(log') BY <1>1, <1>3
<1> DEFINE S == {}
<1>9. \A u \in Threads \ S : pump'[u] = pump[u] BY <1>2
<1>10. S \in SUBSET Threads /\ \A u \in S : PumpOf(u)' OBVIOUS
<1> HIDE DEF S
<1> QED BY <1>10, <1>2, <1>3, <1>4, <1>5, <1>6, <1>7, <1>8, <1>9, StepKeeps

LEMMA BeginKeeps ==
  ASSUME PumpInv, NEW t \in Threads, PumpBegin(t) \/ PumpCutoff(t)
  PROVE  PumpInv'
<1>1. PumpTypeOK /\ Len(log) \in Nat /\ faults \in 0 .. MaxFaults BY PumpTypes DEF PumpInv, PumpTypeOK
<1> DEFINE p == IF pump[t].pc = "cutoff" THEN At(t, "next", Len(log), Workspaces)
                ELSE IF cursor = Null THEN At(t, "first", Len(log), {})
                                      ELSE At(t, "cutoff", 0, {})
<1>2. /\ pump' = [pump EXCEPT ![t] = p] /\ UNCHANGED <<log, rows, cursor, base, leftOver, faults>>
      /\ pump[t].pc \in {"idle", "cutoff"}
  BY DEF PumpBegin, PumpCutoff
<1>3. p \in Pump BY <1>1 DEF At, Pump
<1>4. pump'[t] = p BY <1>1, <1>2 DEF PumpTypeOK
<1>5. pump[t].pc = "cutoff" => cursor # Null BY DEF PumpInv, PumpOf
<1>6. /\ p.seen \in {0, Len(log)} /\ p.pc \in {"first", "cutoff", "next"}
      /\ p.pc # "first" => cursor # Null
      /\ p.pc = "next" => p.todo = Workspaces
  BY <1>5 DEF At
<1> HIDE DEF p
<1>7. PumpOf(t)' BY <1>1, <1>2, <1>4, <1>6 DEF PumpOf
<1> QED BY <1>1, <1>2, <1>3, <1>7, LocalsOnly

LEMMA FailsKeeps ==
  ASSUME PumpInv, NEW t \in Threads, PumpFails(t)
  PROVE  PumpInv'
<1>1. PumpTypeOK /\ Len(log) \in Nat /\ faults \in 0 .. MaxFaults BY PumpTypes DEF PumpInv, PumpTypeOK
<1>2. Idle \in Pump BY DEF Idle, Pump
<1>3. pump' = [pump EXCEPT ![t] = Idle] /\ UNCHANGED <<log, rows, cursor, base, leftOver>> BY DEF PumpFails
<1>4. faults' \in 0 .. MaxFaults BY <1>1, EventPumpAssumption DEF PumpFails
<1>5. pump'[t] = Idle BY <1>1, <1>3 DEF PumpTypeOK
<1>6. Idle.seen = 0 /\ Idle.pc = "idle" BY DEF Idle
<1>7. PumpOf(t)' BY <1>1, <1>3, <1>5, <1>6 DEF PumpOf
<1> QED BY <1>2, <1>3, <1>4, <1>7, LocalsOnly

(* The first reading becomes the cursor and the place from which on nothing *)
(* may be lost, so nothing lies between the two.                            *)
LEMMA FirstKeeps ==
  ASSUME PumpInv, NEW t \in Threads, PumpFirst(t)
  PROVE  PumpInv'
<1> DEFINE p == At(t, "cutoff", 0, {})
<1>1. /\ PumpTypeOK /\ Len(log) \in Nat /\ pump[t] \in Pump /\ PumpOf(t)
      /\ base \in Nat \cup {Null} /\ Null \notin Nat
  BY PumpTypes DEF PumpInv
<1>2. /\ pump' = [pump EXCEPT ![t] = p] /\ UNCHANGED <<log, rows, leftOver, faults>>
      /\ cursor' = pump[t].seen
      /\ base' = IF base # Null /\ base > pump[t].seen THEN base ELSE pump[t].seen
  BY DEF PumpFirst
<1>3. pump[t].seen \in Nat /\ pump[t].seen <= Len(log) BY <1>1 DEF Pump, PumpOf
<1>4. p \in Pump /\ p.pc = "cutoff" /\ p.seen = 0 BY DEF At, Pump
<1> HIDE DEF p
<1>5. base' \in Nat /\ cursor' \in Nat /\ cursor' <= base' BY <1>1, <1>2, <1>3
<1>6. PumpTypeOK' BY <1>1, <1>2, <1>3, <1>4, <1>5 DEF PumpTypeOK
<1>7. CursorKnown' BY <1>1, <1>2, <1>3, <1>5 DEF CursorKnown
<1>8. PassedIsDelivered' BY <1>1, <1>2, <1>5 DEF PassedIsDelivered
<1>9. base \in Nat => base' \in Nat /\ base <= base' BY <1>1, <1>2, <1>3
<1>10. pump'[t] = p /\ \A u \in Threads \ {t} : pump'[u] = pump[u] BY <1>1, <1>2 DEF PumpTypeOK
<1>11. cursor' # Null BY <1>5, <1>1
<1>12. PumpOf(t)' BY <1>1, <1>2, <1>4, <1>10, <1>11 DEF PumpOf
<1> DEFINE S == {t}
<1>13. S \in SUBSET Threads /\ (\A u \in S : PumpOf(u)') /\ \A u \in Threads \ S : pump'[u] = pump[u]
  BY <1>10, <1>12
<1> HIDE DEF S
<1>14. /\ Len(log) <= Len(log') /\ (\A r \in 1 .. Len(log) : log'[r] = log[r])
       /\ rows \subseteq rows' /\ leftOver \subseteq leftOver'
  BY <1>1, <1>2
<1> QED BY <1>6, <1>7, <1>8, <1>9, <1>11, <1>13, <1>14, StepKeeps

(* A scan starts at the cursor, up to which everything is covered.         *)
LEMMA ScanBeginKeeps ==
  ASSUME PumpInv, NEW t \in Threads, NEW w \in Workspaces, ScanBegin(t, w)
  PROVE  PumpInv'
<1> DEFINE p == [pc |-> "scan", seen |-> pump[t].seen, todo |-> pump[t].todo \ {w},
                 ws |-> w, at |-> cursor, rest |-> 0, created |-> 0]
<1>1. /\ PumpTypeOK /\ Len(log) \in Nat /\ pump[t] \in Pump /\ PumpOf(t)
      /\ cursor \in Nat \cup {Null} /\ faults \in 0 .. MaxFaults
      /\ \A r \in 1 .. Len(log) : log[r] \in Event
  BY PumpTypes DEF PumpInv, PumpTypeOK
<1>2. /\ pump' = [pump EXCEPT ![t] = p] /\ UNCHANGED <<log, rows, cursor, base, leftOver, faults>>
      /\ pump[t].pc = "next" /\ w \in pump[t].todo
  BY DEF ScanBegin
<1>3. cursor \in Nat /\ cursor <= Len(log) BY <1>1, <1>2 DEF PumpOf, PumpInv, CursorKnown
<1>4. p \in Pump BY <1>1, <1>3 DEF Pump
<1>5. /\ p.pc = "scan" /\ p.seen = pump[t].seen /\ p.todo = pump[t].todo \ {w}
      /\ p.ws = w /\ p.at = cursor /\ p.rest = 0
  OBVIOUS
<1> HIDE DEF p
<1>6. pump'[t] = p BY <1>1, <1>2 DEF PumpTypeOK
<1>7. Covered(w, cursor)
  BY <1>1, <1>2 DEF PumpOf, PumpInv, PassedIsDelivered, Delivered, Covered, CoveredIn
<1>8. \A x \in Workspaces \ (p.todo \cup {w}) : Covered(x, p.seen)
  BY <1>1, <1>2, <1>5 DEF PumpOf
<1>9. Covered(w, cursor)' /\ \A x \in Workspaces \ (p.todo \cup {w}) : CoveredIn(log', rows', leftOver', base', x, p.seen)
  BY <1>2, <1>7, <1>8 DEF Covered
<1>10. PumpOf(t)'
  BY <1>1, <1>2, <1>3, <1>5, <1>6, <1>9 DEF PumpOf, Covered, ScanOf
<1> QED BY <1>1, <1>2, <1>4, <1>10, LocalsOnly

(* One delivery of event r, after which the scan is at p: what lies between *)
(* r and the scan's last place is of other workspaces.                     *)
LEMMA DeliverKeeps ==
  ASSUME PumpInv, NEW t \in Threads, NEW r \in 1 .. Len(log), NEW p \in Pump,
         pump[t].pc = "scan", p.pc = "scan", p.seen = pump[t].seen, p.todo = pump[t].todo,
         p.ws = pump[t].ws, p.at = r, pump' = [pump EXCEPT ![t] = p],
         rows \subseteq rows', rows' \subseteq (1 .. Len(log)) \X (1 .. 2),
         UNCHANGED <<log, cursor, base, leftOver, faults>>,
         ScanOf(log, rows', leftOver, base, p)
  PROVE  PumpInv'
<1>1. /\ PumpTypeOK /\ Len(log) \in Nat /\ pump[t] \in Pump /\ PumpOf(t)
      /\ cursor \in Nat \cup {Null} /\ base \in Nat \cup {Null} /\ base # Null /\ cursor # Null
  BY PumpTypes DEF PumpInv, PumpOf, CursorKnown
<1>2. pump'[t] = p /\ \A u \in Threads \ {t} : pump'[u] = pump[u] BY <1>1 DEF PumpTypeOK
<1>3. PumpTypeOK' BY <1>1 DEF PumpTypeOK
<1>4. CursorKnown' /\ PassedIsDelivered'
  BY DEF PumpInv, CursorKnown, PassedIsDelivered, Delivered
<1>5. \A x \in Workspaces \ (p.todo \cup {p.ws}) : CoveredIn(log', rows', leftOver', base', x, p.seen)
  BY <1>1 DEF PumpOf, Covered, CoveredIn
<1>6. /\ p.seen <= Len(log) /\ p.at <= Len(log) /\ p.ws \in Workspaces /\ cursor' # Null
  BY <1>1 DEF PumpOf
<1>7. ScanOf(log', rows', leftOver', base', p) OBVIOUS
<1>8. PumpOf(t)' BY <1>2, <1>5, <1>6, <1>7 DEF PumpOf, Covered
<1> DEFINE S == {t}
<1>9. S \in SUBSET Threads /\ (\A u \in S : PumpOf(u)') /\ \A u \in Threads \ S : pump'[u] = pump[u]
  BY <1>2, <1>8
<1> HIDE DEF S
<1>10. /\ Len(log) <= Len(log') /\ (\A q \in 1 .. Len(log) : log'[q] = log[q])
       /\ (base \in Nat => base' \in Nat /\ base <= base') /\ leftOver \subseteq leftOver'
       /\ (cursor # Null => cursor' # Null)
  BY <1>1
<1> QED BY <1>3, <1>4, <1>9, <1>10, StepKeeps

(* The event a scan comes to: all before it is covered. *)
LEMMA NextIsCovered ==
  ASSUME PumpInv, NEW t \in Threads, NEW r \in 1 .. Len(log), NextEvent(t, r)
  PROVE  /\ pump[t].pc = "scan" /\ r \in Nat
         /\ CoveredIn(log, rows, leftOver, base, pump[t].ws, r - 1)
<1>1. /\ PumpTypeOK /\ Len(log) \in Nat /\ pump[t] \in Pump /\ PumpOf(t)
  BY PumpTypes DEF PumpInv
<1>2. /\ pump[t].pc = "scan" /\ pump[t].rest = 0 /\ InScope(t, r)
      /\ \A q \in 1 .. (r - 1) : ~InScope(t, q)
  BY DEF NextEvent
<1>3. /\ pump[t].seen \in Nat /\ pump[t].at \in Nat /\ pump[t].at < r /\ r <= pump[t].seen
      /\ CoveredIn(log, rows, leftOver, base, pump[t].ws, pump[t].at)
  BY <1>1, <1>2 DEF Pump, PumpOf, InScope, ScanOf
<1>4. ASSUME NEW q \in 1 .. Len(log), base < q, q <= r - 1, log[q].ws = pump[t].ws
      PROVE  q \in leftOver \/ \A i \in 1 .. log[q].parts : <<q, i>> \in rows
  <2>1. CASE q <= pump[t].at BY <2>1, <1>3, <1>4 DEF CoveredIn
  <2>2. CASE pump[t].at < q BY <2>2, <1>2, <1>3, <1>4 DEF InScope
  <2> QED BY <2>1, <2>2, <1>3
<1> QED BY <1>2, <1>4 DEF CoveredIn

LEMMA ScanEventKeeps ==
  ASSUME PumpInv, NEW t \in Threads, NEW r \in 1 .. Len(log), ScanEvent(t, r)
  PROVE  PumpInv'
<1> DEFINE p == [pc |-> "scan", seen |-> pump[t].seen, todo |-> pump[t].todo,
                 ws |-> pump[t].ws, at |-> r, rest |-> log[r].parts - 1,
                 created |-> pump[t].created + (IF <<r, 1>> \in rows THEN 0 ELSE 1)]
<1>1. /\ PumpTypeOK /\ Len(log) \in Nat /\ pump[t] \in Pump /\ log[r] \in Event
  BY PumpTypes DEF PumpInv
<1>2. /\ NextEvent(t, r) /\ log[r].parts > 0 /\ rows' = rows \cup {<<r, 1>>}
      /\ pump' = [pump EXCEPT ![t] = p] /\ UNCHANGED <<log, cursor, base, leftOver, faults>>
  BY DEF ScanEvent, Deliver
<1>3. /\ pump[t].pc = "scan" /\ r \in Nat
      /\ CoveredIn(log, rows, leftOver, base, pump[t].ws, r - 1)
  BY <1>2, NextIsCovered
<1>4. log[r].parts \in {1, 2} BY <1>1, <1>2 DEF Event
<1>5. pump[t].created + (IF <<r, 1>> \in rows THEN 0 ELSE 1) \in Nat BY <1>1 DEF Pump
<1>6. p \in Pump BY <1>1, <1>3, <1>4, <1>5 DEF Pump
<1>7. /\ p.pc = "scan" /\ p.seen = pump[t].seen /\ p.todo = pump[t].todo /\ p.ws = pump[t].ws
      /\ p.at = r /\ p.rest = log[r].parts - 1
  OBVIOUS
<1> HIDE DEF p
<1>8. rows \subseteq rows' /\ rows' \subseteq (1 .. Len(log)) \X (1 .. 2) /\ <<r, 1>> \in rows'
  BY <1>1, <1>2 DEF PumpTypeOK
<1>9. CoveredIn(log, rows', leftOver, base, p.ws, r - 1) BY <1>3, <1>7, <1>8 DEF CoveredIn
<1>10. ScanOf(log, rows', leftOver, base, p)
  <2>1. CASE log[r].parts = 2 BY <2>1, <1>7, <1>8, <1>9 DEF ScanOf
  <2>2. CASE log[r].parts = 1
    <3>1. \A i \in 1 .. log[r].parts : <<r, i>> \in rows' BY <2>2, <1>8
    <3>2. CoveredIn(log, rows', leftOver, base, p.ws, r) BY <1>3, <1>9, <3>1 DEF CoveredIn
    <3> QED BY <2>2, <1>7, <3>2 DEF ScanOf
  <2> QED BY <1>4, <2>1, <2>2
<1> QED BY <1>2, <1>3, <1>6, <1>7, <1>8, <1>10, DeliverKeeps

LEMMA ScanUnsupportedKeeps ==
  ASSUME PumpInv, NEW t \in Threads, NEW r \in 1 .. Len(log), ScanUnsupported(t, r)
  PROVE  PumpInv'
<1> DEFINE p == [pump[t] EXCEPT !.at = r]
<1>1. /\ PumpTypeOK /\ Len(log) \in Nat /\ pump[t] \in Pump
  BY PumpTypes DEF PumpInv
<1>2. /\ NextEvent(t, r) /\ log[r].parts = 0 /\ pump' = [pump EXCEPT ![t] = p]
      /\ UNCHANGED <<log, rows, cursor, base, leftOver, faults>>
  BY DEF ScanUnsupported
<1>3. /\ pump[t].pc = "scan" /\ r \in Nat /\ pump[t].rest = 0
      /\ CoveredIn(log, rows, leftOver, base, pump[t].ws, r - 1)
  BY <1>2, NextIsCovered DEF NextEvent
<1>4. /\ p \in Pump /\ p.pc = "scan" /\ p.seen = pump[t].seen /\ p.todo = pump[t].todo
      /\ p.ws = pump[t].ws /\ p.at = r /\ p.rest = 0
  BY <1>1, <1>3 DEF Pump
<1> HIDE DEF p
<1>5. CoveredIn(log, rows', leftOver, base, p.ws, r)
  BY <1>2, <1>3, <1>4 DEF CoveredIn
<1>6. ScanOf(log, rows', leftOver, base, p) BY <1>4, <1>5 DEF ScanOf
<1>7. rows \subseteq rows' /\ rows' \subseteq (1 .. Len(log)) \X (1 .. 2) BY <1>1, <1>2 DEF PumpTypeOK
<1> QED BY <1>2, <1>3, <1>4, <1>6, <1>7, DeliverKeeps

(* The second delivery completes the event. *)
LEMMA ScanRestKeeps ==
  ASSUME PumpInv, NEW t \in Threads, ScanRest(t)
  PROVE  PumpInv'
<1>r. PICK r : r = pump[t].at OBVIOUS
<1> DEFINE p == [pc |-> "scan", seen |-> pump[t].seen, todo |-> pump[t].todo,
                 ws |-> pump[t].ws, at |-> r, rest |-> 0,
                 created |-> pump[t].created + (IF <<r, 2>> \in rows THEN 0 ELSE 1)]
<1>1. /\ PumpTypeOK /\ Len(log) \in Nat /\ pump[t] \in Pump /\ PumpOf(t)
  BY PumpTypes DEF PumpInv
<1>2. /\ pump[t].pc = "scan" /\ pump[t].rest > 0 /\ rows' = rows \cup {<<r, 2>>}
      /\ pump' = [pump EXCEPT ![t] = p] /\ UNCHANGED <<log, cursor, base, leftOver, faults>>
  BY <1>r DEF ScanRest, Deliver
<1>3. /\ r \in 1 .. Len(log) /\ <<r, 1>> \in rows
      /\ CoveredIn(log, rows, leftOver, base, pump[t].ws, r - 1)
  BY <1>r, <1>1, <1>2 DEF PumpOf, ScanOf
<1>4. log[r] \in Event BY <1>3, PumpTypes DEF PumpInv
<1>5. pump[t].created + (IF <<r, 2>> \in rows THEN 0 ELSE 1) \in Nat BY <1>1 DEF Pump
<1>6. p \in Pump BY <1>1, <1>3, <1>5 DEF Pump
<1>7. /\ p.pc = "scan" /\ p.seen = pump[t].seen /\ p.todo = pump[t].todo /\ p.ws = pump[t].ws
      /\ p.at = r /\ p.rest = 0
  OBVIOUS
<1> HIDE DEF p
<1>8. rows \subseteq rows' /\ rows' \subseteq (1 .. Len(log)) \X (1 .. 2)
      /\ <<r, 1>> \in rows' /\ <<r, 2>> \in rows'
  BY <1>1, <1>2, <1>3 DEF PumpTypeOK
<1>9. CoveredIn(log, rows', leftOver, base, p.ws, r - 1) BY <1>3, <1>7, <1>8 DEF CoveredIn
<1>10. \A i \in 1 .. log[r].parts : <<r, i>> \in rows' BY <1>4, <1>8 DEF Event
<1>11. CoveredIn(log, rows', leftOver, base, p.ws, r) BY <1>1, <1>3, <1>9, <1>10 DEF CoveredIn
<1>12. ScanOf(log, rows', leftOver, base, p) BY <1>7, <1>11 DEF ScanOf
<1> QED BY <1>2, <1>3, <1>6, <1>7, <1>8, <1>12, DeliverKeeps

(* A scan ends at the cutoff, or leaves behind what it did not come to.    *)
LEMMA ScanEndKeeps ==
  ASSUME PumpInv, NEW t \in Threads, ScanEnd(t)
  PROVE  PumpInv'
<1> DEFINE p == At(t, "next", pump[t].seen, pump[t].todo)
           missed == {r \in 1 .. Len(log) : InScope(t, r)}
<1>1. /\ PumpTypeOK /\ Len(log) \in Nat /\ pump[t] \in Pump /\ PumpOf(t)
      /\ cursor \in Nat \cup {Null} /\ base \in Nat \cup {Null}
  BY PumpTypes DEF PumpInv
<1>2. /\ pump' = [pump EXCEPT ![t] = p] /\ UNCHANGED <<log, rows, cursor, base, faults>>
      /\ pump[t].pc = "scan" /\ pump[t].rest = 0 /\ leftOver' = leftOver \cup missed
  BY DEF ScanEnd
<1>3. p \in Pump /\ p.pc = "next" /\ p.seen = pump[t].seen /\ p.todo = pump[t].todo
  BY <1>1 DEF At, Pump
<1>4. \A r \in 1 .. Len(log) : InScope(t, r) => r \in leftOver' BY <1>2
<1>5. leftOver \subseteq leftOver' /\ leftOver' \subseteq 1 .. Len(log) BY <1>1, <1>2 DEF PumpTypeOK
<1> HIDE DEF p, missed
<1>6. /\ pump[t].at \in Nat /\ pump[t].seen \in Nat /\ pump[t].seen <= Len(log)
      /\ pump[t].ws \in Workspaces /\ cursor # Null
      /\ CoveredIn(log, rows, leftOver, base, pump[t].ws, pump[t].at)
  BY <1>1, <1>2 DEF Pump, PumpOf, ScanOf
<1>7. CoveredIn(log, rows, leftOver', base, pump[t].ws, pump[t].seen)
  <2> SUFFICES ASSUME NEW r \in 1 .. Len(log), base < r, r <= pump[t].seen,
                      log[r].ws = pump[t].ws
               PROVE  r \in leftOver' \/ \A i \in 1 .. log[r].parts : <<r, i>> \in rows
    BY DEF CoveredIn
  <2>1. CASE r <= pump[t].at BY <2>1, <1>5, <1>6 DEF CoveredIn
  <2>2. CASE pump[t].at < r BY <2>2, <1>4 DEF InScope
  <2> QED BY <2>1, <2>2, <1>6
<1>8. \A w \in Workspaces \ (p.todo \cup {pump[t].ws}) :
        CoveredIn(log, rows, leftOver', base, w, p.seen)
  BY <1>1, <1>2, <1>3, <1>5 DEF PumpOf, Covered, CoveredIn
<1>9. pump'[t] = p /\ \A u \in Threads \ {t} : pump'[u] = pump[u] BY <1>1, <1>2 DEF PumpTypeOK
<1>10. \A w \in Workspaces \ p.todo : CoveredIn(log', rows', leftOver', base', w, p.seen)
  BY <1>2, <1>3, <1>7, <1>8
<1>11. PumpOf(t)' BY <1>2, <1>3, <1>6, <1>9, <1>10 DEF PumpOf, Covered
<1>12. PumpTypeOK' BY <1>1, <1>2, <1>3, <1>5 DEF PumpTypeOK
<1>13. CursorKnown' /\ PassedIsDelivered'
  BY <1>2, <1>5 DEF PumpInv, CursorKnown, PassedIsDelivered, Delivered
<1> DEFINE S == {t}
<1>14. S \in SUBSET Threads /\ (\A u \in S : PumpOf(u)') /\ \A u \in Threads \ S : pump'[u] = pump[u]
  BY <1>9, <1>11
<1> HIDE DEF S
<1>15. /\ Len(log) <= Len(log') /\ (\A q \in 1 .. Len(log) : log'[q] = log[q])
       /\ (base \in Nat => base' \in Nat /\ base <= base') /\ rows \subseteq rows'
       /\ (cursor # Null => cursor' # Null)
  BY <1>1, <1>2
<1> QED BY <1>5, <1>12, <1>13, <1>14, <1>15, StepKeeps

(* Every workspace is through, so the cutoff may become the cursor.        *)
LEMMA EndKeeps ==
  ASSUME PumpInv, NEW t \in Threads, PumpEnd(t)
  PROVE  PumpInv'
<1>1. /\ PumpTypeOK /\ Len(log) \in Nat /\ pump[t] \in Pump /\ PumpOf(t)
      /\ cursor \in Nat \cup {Null} /\ base \in Nat \cup {Null} /\ Null \notin Nat
      /\ \A r \in 1 .. Len(log) : log[r] \in Event
  BY PumpTypes DEF PumpInv, PumpTypeOK
<1>2. /\ pump' = [pump EXCEPT ![t] = Idle] /\ UNCHANGED <<log, rows, base, leftOver, faults>>
      /\ pump[t].pc = "next" /\ pump[t].todo = {} /\ cursor' = pump[t].seen
  BY DEF PumpEnd
<1>3. cursor' \in Nat /\ cursor' <= Len(log) /\ base # Null
  BY <1>1, <1>2 DEF Pump, PumpOf, PumpInv, CursorKnown
<1>4. Idle \in Pump /\ Idle.pc = "idle" /\ Idle.seen = 0 BY DEF Idle, Pump
<1>5. PumpTypeOK' BY <1>1, <1>2, <1>3, <1>4 DEF PumpTypeOK
<1>6. CursorKnown' BY <1>2, <1>3 DEF CursorKnown
<1>7. PassedIsDelivered'
  <2> SUFFICES ASSUME NEW r \in 1 .. Len(log), base < r, r <= pump[t].seen
               PROVE  Delivered(r) \/ r \in leftOver
    BY <1>2 DEF PassedIsDelivered, Delivered
  <2>1. log[r].ws \in Workspaces \ pump[t].todo BY <1>1, <1>2 DEF Event
  <2> QED BY <2>1, <1>1, <1>2 DEF PumpOf, Covered, CoveredIn, Delivered
<1>8. pump'[t] = Idle /\ \A u \in Threads \ {t} : pump'[u] = pump[u] BY <1>1, <1>2 DEF PumpTypeOK
<1>9. cursor' # Null BY <1>1, <1>3
<1>10. PumpOf(t)' BY <1>1, <1>2, <1>4, <1>8 DEF PumpOf
<1> DEFINE S == {t}
<1>11. S \in SUBSET Threads /\ (\A u \in S : PumpOf(u)') /\ \A u \in Threads \ S : pump'[u] = pump[u]
  BY <1>8, <1>10
<1> HIDE DEF S
<1>12. /\ Len(log) <= Len(log') /\ (\A q \in 1 .. Len(log) : log'[q] = log[q])
       /\ (base \in Nat => base' \in Nat /\ base <= base')
       /\ rows \subseteq rows' /\ leftOver \subseteq leftOver'
  BY <1>1, <1>2
<1> QED BY <1>5, <1>6, <1>7, <1>9, <1>11, <1>12, StepKeeps

LEMMA RestartKeeps ==
  ASSUME PumpInv, Restart
  PROVE  PumpInv'
<1>1. PumpTypeOK /\ Len(log) \in Nat /\ faults \in 0 .. MaxFaults BY PumpTypes DEF PumpInv, PumpTypeOK
<1>2. /\ pump' = [t \in Threads |-> Idle] /\ cursor' = Null /\ base' = Null
      /\ leftOver' = {} /\ UNCHANGED <<log, rows>> /\ faults' \in 0 .. MaxFaults
  BY <1>1, EventPumpAssumption DEF Restart
<1>3. Idle \in Pump /\ Idle.pc = "idle" /\ Idle.seen = 0 BY DEF Idle, Pump
<1>4. PumpTypeOK' BY <1>1, <1>2, <1>3 DEF PumpTypeOK
<1>5. CursorKnown' /\ PassedIsDelivered' BY <1>2 DEF CursorKnown, PassedIsDelivered
<1>6. ASSUME NEW u \in Threads PROVE PumpOf(u)'
  <2>1. pump'[u] = Idle BY <1>2
  <2> QED BY <2>1, <1>1, <1>2, <1>3 DEF PumpOf
<1> QED BY <1>4, <1>5, <1>6 DEF PumpInv

LEMMA PumpInductive ==
  ASSUME PumpInv, [PumpNext]_pumpVars
  PROVE  PumpInv'
<1>1. CASE UNCHANGED pumpVars
  BY <1>1 DEF pumpVars, PumpInv, PumpTypeOK, CursorKnown, PassedIsDelivered, Delivered, PumpOf,
              ScanOf, Covered, CoveredIn
<1>2. ASSUME NEW t \in Threads, Run(t) PROVE PumpInv'
  BY <1>2, FirstKeeps, BeginKeeps, ScanBeginKeeps, ScanEventKeeps, ScanUnsupportedKeeps,
     ScanRestKeeps, ScanEndKeeps, EndKeeps DEF Run
<1>3. CASE PumpNext BY <1>2, <1>3, AppendKeeps, BeginKeeps, FailsKeeps, RestartKeeps DEF PumpNext
<1> QED BY <1>1, <1>3

(* An event between the daemon's first reading of the log and its cursor   *)
(* has all its deliveries or was left behind by a scan at its limit,       *)
(* however many calls move the cursor of _do_pump and whatever the limit.  *)
THEOREM PassedAreDelivered == PumpSpec => []PassedIsDelivered
<1>1. PumpInit => PumpInv BY PumpStarts
<1>2. PumpInv /\ [PumpNext]_pumpVars => PumpInv' BY PumpInductive
<1>3. PumpInv => PassedIsDelivered BY DEF PumpInv
<1> QED BY <1>1, <1>2, <1>3, PTL DEF PumpSpec

------------------------------------------------------------------------------
(* The delivery outbox *)

(* A sender only holds rows of the generic outbox: send_delivery's test    *)
(* and the recovery leave the channel rows out.                            *)
SenderOf(x) ==
  /\ x.pc \in {"checked", "read", "marked", "ok", "error"} => x.id \in Outbox
  /\ x.list \subseteq Outbox

(* A caller that reserved a key has its row to itself until it ends: the   *)
(* row stays "sending", and the platform has what the caller knows of.     *)
Owners == {"reserved", "ok", "rejected"}

CallerOf(x, deliveries, posted) ==
  /\ x.pc # "idle" => x.key \in Keys /\ x.content \in Contents
  /\ x.pc \in Owners => deliveries[x.key].status = "sending"
  /\ x.pc \in {"reserved", "rejected"} => posted[x.key] = 0
  /\ x.pc = "ok" => posted[x.key] = 1

OwnersApart ==
  \A c, d \in Callers :
    caller[c].pc \in Owners /\ caller[d].pc \in Owners /\ caller[c].key = caller[d].key => c = d

(* The life of a channel row. *)
RowOf(row, posted) ==
  /\ row.status \in {"none", "sending", "sent", "dead"} /\ posted <= 1
  /\ row.status \in {"none", "dead"} => posted = 0
  /\ row.status = "sent" => posted = 1

OutboxInv ==
  /\ TypeOK
  /\ \A s \in Senders : SenderOf(sender[s])
  /\ \A c \in Callers : CallerOf(caller[c], table, platform)
  /\ OwnersApart
  /\ \A k \in Keys : RowOf(table[k], platform[k])

------------------------------------------------------------------------------
LEMMA OutboxStarts == Init => OutboxInv
<1> SUFFICES ASSUME Init PROVE OutboxInv OBVIOUS
<1>1. TypeOK BY DeliveryOutboxAssumption DEF Init, TypeOK, Row, Buses, Sender, Caller, NoSender, NoCaller
<1>2. /\ \A s \in Senders : SenderOf(sender[s])
      /\ \A c \in Callers : CallerOf(caller[c], table, platform) /\ caller[c].pc = "idle"
  BY DEF Init, SenderOf, CallerOf, NoSender, NoCaller, Owners
<1>3. \A k \in Keys : RowOf(table[k], platform[k]) BY DEF Init, RowOf, Ids
<1> QED BY <1>1, <1>2, <1>3 DEF OutboxInv, OwnersApart, Owners

(* A step of a sender or of the generic outbox: the rows and the messages  *)
(* of the channel sends are not touched.                                   *)
LEMMA OutboxKeeps ==
  ASSUME OutboxInv, TypeOK', UNCHANGED caller,
         \A s \in Senders : SenderOf(sender'[s]),
         \A k \in Keys : table'[k] = table[k] /\ platform'[k] = platform[k]
  PROVE  OutboxInv'
<1>1. \A c \in Callers : CallerOf(caller[c], table', platform')
  BY DEF OutboxInv, CallerOf, Owners
<1>2. OwnersApart' BY DEF OutboxInv, OwnersApart
<1>3. \A k \in Keys : RowOf(table'[k], platform'[k]) BY DEF OutboxInv
<1> QED BY <1>1, <1>2, <1>3 DEF OutboxInv

LEMMA CreateKeeps ==
  ASSUME OutboxInv, NEW d \in Outbox, NEW b \in Buses, CreateDelivery(d, b)
  PROVE  OutboxInv'
<1>1. TypeOK' BY DEF CreateDelivery, OutboxInv, TypeOK, Row, Ids
<1>2. \A k \in Keys : table'[k] = table[k] /\ platform'[k] = platform[k]
  BY DeliveryOutboxAssumption DEF CreateDelivery, OutboxInv, TypeOK, Ids
<1> QED BY <1>1, <1>2, OutboxKeeps DEF OutboxInv, CreateDelivery

(* The locals a sender goes on with. *)
LEMMA SenderMoves ==
  ASSUME OutboxInv, NEW s \in Senders, NEW x \in Sender, SenderOf(x),
         sender' = [sender EXCEPT ![s] = x]
  PROVE  sender' \in [Senders -> Sender] /\ \A u \in Senders : SenderOf(sender'[u])
BY DEF OutboxInv, TypeOK

LEMMA SenderKeeps ==
  ASSUME OutboxInv, NEW s \in Senders,
         \/ \E d \in Ids, scoped \in BOOLEAN : SendCheck(s, d, scoped)
         \/ SendStep(s) \/ RecoverRead(s) \/ SenderCrash(s)
  PROVE  OutboxInv'
<1>1. /\ TypeOK /\ sender[s] \in Sender /\ SenderOf(sender[s])
      /\ \A k \in Keys : k \notin Outbox /\ k \in Ids
      /\ \A d \in Outbox : d \in Ids
  BY DeliveryOutboxAssumption DEF OutboxInv, TypeOK, Ids
<1> DEFINE d == sender[s].id
<1>2. ASSUME NEW pc \in {"checked", "read", "marked", "ok", "error", "idle"}, NEW e, NEW n \in Nat,
             pc # "idle" => e \in Outbox, pc = "idle" => e = None, Goto(s, pc, e, n)
      PROVE  sender' \in [Senders -> Sender] /\ \A u \in Senders : SenderOf(sender'[u])
  <2> DEFINE x == [pc |-> pc, id |-> e, count |-> n, list |-> {}]
  <2>1. x \in Sender /\ SenderOf(x) BY <1>1, <1>2 DEF Sender, SenderOf
  <2> QED BY <1>2, <2>1, SenderMoves DEF Goto
<1>3. ASSUME NEW e \in Outbox, NEW st \in {"sending", "sent", "failed", "dead"}, NEW n \in Nat,
             Put(e, st, n)
      PROVE  table' \in [Ids -> Row] /\ \A k \in Keys : table'[k] = table[k]
  BY <1>1, <1>3 DEF Put, TypeOK, Row
<1>4. CASE \E e \in Ids, scoped \in BOOLEAN : SendCheck(s, e, scoped)
  <2>1. PICK e \in Ids, scoped \in BOOLEAN : SendCheck(s, e, scoped) BY <1>4
  <2>2. e \in Outbox BY <2>1 DEF SendCheck, Sendable, Ids
  <2>3. sender' \in [Senders -> Sender] /\ \A u \in Senders : SenderOf(sender'[u])
    BY <1>2, <2>1, <2>2 DEF SendCheck
  <2> QED BY <1>1, <2>1, <2>3, OutboxKeeps DEF SendCheck, TypeOK
<1>5. CASE MarkRead(s)
  <2>1. d \in Outbox /\ table[d].attempts \in Nat BY <1>1, <1>5 DEF MarkRead, SenderOf, TypeOK, Row
  <2>2. sender' \in [Senders -> Sender] /\ \A u \in Senders : SenderOf(sender'[u])
    BY <1>2, <1>5, <2>1 DEF MarkRead
  <2> QED BY <1>1, <1>5, <2>2, OutboxKeeps DEF MarkRead, TypeOK
<1>6. CASE MarkSending(s)
  <2>1. d \in Outbox /\ sender[s].count + 1 \in Nat BY <1>1, <1>6 DEF MarkSending, SenderOf, Sender
  <2>2. sender' \in [Senders -> Sender] /\ \A u \in Senders : SenderOf(sender'[u])
    BY <1>2, <1>6, <2>1 DEF MarkSending
  <2>3. table' \in [Ids -> Row] /\ \A k \in Keys : table'[k] = table[k]
    BY <1>3, <1>6, <2>1 DEF MarkSending
  <2> QED BY <1>1, <1>6, <2>2, <2>3, OutboxKeeps DEF MarkSending, TypeOK
<1>7. CASE MarkSent(s) \/ MarkFailed(s)
  <2>1. d \in Outbox /\ table[d].attempts \in Nat
    BY <1>1, <1>7 DEF MarkSent, MarkFailed, SenderOf, TypeOK, Row
  <2>2. sender' \in [Senders -> Sender] /\ \A u \in Senders : SenderOf(sender'[u])
    BY <1>2, <1>7 DEF MarkSent, MarkFailed
  <2>3. table' \in [Ids -> Row] /\ \A k \in Keys : table'[k] = table[k]
    BY <1>3, <1>7, <2>1 DEF MarkSent, MarkFailed
  <2> QED BY <1>1, <1>7, <2>2, <2>3, OutboxKeeps DEF MarkSent, MarkFailed, TypeOK
<1>8. CASE \E a \in BOOLEAN, pc \in {"ok", "error"} : Post(s, a, pc)
  <2>1. PICK a \in BOOLEAN, pc \in {"ok", "error"} : Post(s, a, pc) BY <1>8
  <2>2. d \in Outbox /\ table[d].attempts \in Nat BY <1>1, <2>1 DEF Post, SenderOf, TypeOK, Row
  <2>3. sender' \in [Senders -> Sender] /\ \A u \in Senders : SenderOf(sender'[u])
    BY <1>2, <2>1, <2>2 DEF Post
  <2>4. platform' \in [Ids -> Nat] /\ \A k \in Keys : platform'[k] = platform[k]
    BY <1>1, <2>1, <2>2 DEF Post, TypeOK
  <2> QED BY <1>1, <2>1, <2>3, <2>4, OutboxKeeps DEF Post, TypeOK
<1>9. CASE RecoverRead(s)
  <2> DEFINE x == [pc |-> "recover", id |-> None, count |-> 0, list |-> {e \in Ids : Recoverable(e)}]
  <2>1. x \in Sender /\ SenderOf(x) BY DEF Sender, SenderOf, Recoverable, Ids
  <2>2. sender' \in [Senders -> Sender] /\ \A u \in Senders : SenderOf(sender'[u])
    BY <1>9, <2>1, SenderMoves DEF RecoverRead
  <2> QED BY <1>1, <1>9, <2>2, OutboxKeeps DEF RecoverRead, TypeOK
<1>10. CASE RecoverWrite(s)
  <2>1. sender' \in [Senders -> Sender] /\ \A u \in Senders : SenderOf(sender'[u])
    BY <1>2, <1>10 DEF RecoverWrite
  <2>2. table' \in [Ids -> Row] BY <1>1, <1>10 DEF RecoverWrite, TypeOK, Row
  <2>3. \A k \in Keys : table'[k] = table[k] BY <1>1, <1>10 DEF RecoverWrite, SenderOf
  <2> QED BY <1>1, <1>10, <2>1, <2>2, <2>3, OutboxKeeps DEF RecoverWrite, TypeOK
<1>11. CASE SenderCrash(s)
  <2>1. sender' \in [Senders -> Sender] /\ \A u \in Senders : SenderOf(sender'[u])
    BY <1>2, <1>11 DEF SenderCrash
  <2>2. crashes' \in 0 .. MaxCrashes BY <1>1, <1>11, DeliveryOutboxAssumption DEF SenderCrash, TypeOK
  <2> QED BY <1>1, <1>11, <2>1, <2>2, OutboxKeeps DEF SenderCrash, TypeOK
<1> QED BY <1>4, <1>5, <1>6, <1>7, <1>8, <1>9, <1>10, <1>11 DEF SendStep

(* A caller moves to x and touches no other row than that of k, which no   *)
(* other caller owns.                                                      *)
LEMMA CallerMoves ==
  ASSUME OutboxInv, NEW c \in Callers, NEW x \in Caller, NEW k \in Keys, UNCHANGED sender,
         caller' = [caller EXCEPT ![c] = x], CallerOf(x, table', platform'),
         table' \in [Ids -> Row], platform' \in [Ids -> Nat], crashes' \in 0 .. MaxCrashes,
         \A j \in Keys : j # k => table'[j] = table[j] /\ platform'[j] = platform[j],
         \A u \in Callers \ {c} : caller[u].pc \in Owners => caller[u].key # k,
         RowOf(table'[k], platform'[k]), x.pc \in Owners => x.key = k
  PROVE  OutboxInv'
<1>1. TypeOK' BY DEF OutboxInv, TypeOK
<1>2. caller'[c] = x /\ \A u \in Callers \ {c} : caller'[u] = caller[u] BY DEF OutboxInv, TypeOK
<1>3. \A u \in Callers : CallerOf(caller'[u], table', platform')
  BY <1>2 DEF OutboxInv, CallerOf, Owners
<1>4. OwnersApart' BY <1>2 DEF OutboxInv, OwnersApart
<1>5. \A j \in Keys : RowOf(table'[j], platform'[j]) BY DEF OutboxInv
<1> QED BY <1>1, <1>3, <1>4, <1>5 DEF OutboxInv

(* The caller's steps, from the reading of the key to the result. *)
LEMMA CallerKeeps == ASSUME OutboxInv, NEW c \in Callers, ChannelStep(c) PROVE OutboxInv'
<1>1. /\ TypeOK /\ caller[c] \in Caller /\ CallerOf(caller[c], table, platform) /\ OwnersApart
      /\ \A k \in Keys : k \in Ids /\ RowOf(table[k], platform[k]) /\ platform[k] \in Nat
      /\ \A u \in Callers : CallerOf(caller[u], table, platform)
  BY DEF OutboxInv, TypeOK, Ids
<1>2. NoCaller \in Caller /\ CallerOf(NoCaller, table', platform') /\ NoCaller.pc \notin Owners
  BY DEF NoCaller, Caller, CallerOf, Owners
<1>3. CASE \E k \in Keys, y \in Contents : ChannelInspect(c, k, y)
  <2>1. PICK k \in Keys, y \in Contents : ChannelInspect(c, k, y) BY <1>3
  <2> DEFINE x == [pc |-> "inspected", key |-> k, content |-> y]
  <2>2. x \in Caller /\ CallerOf(x, table', platform') /\ x.pc \notin Owners
    BY DEF Caller, CallerOf, Owners
  <2>3. table[k].status = "none" /\ caller' = [caller EXCEPT ![c] = x]
        /\ UNCHANGED <<table, platform, sender, crashes>>
    BY <2>1 DEF ChannelInspect, CallerAt
  <2>4. \A u \in Callers : caller[u].pc \in Owners => caller[u].key # k
    BY <1>1, <2>3 DEF CallerOf
  <2> HIDE DEF x
  <2> QED BY <1>1, <2>2, <2>3, <2>4, CallerMoves DEF TypeOK
<1>k. PICK k, y : k = caller[c].key /\ y = caller[c].content OBVIOUS
<1>4. ASSUME caller[c].pc # "idle", caller' = [caller EXCEPT ![c] = NoCaller],
             UNCHANGED <<table, platform, sender>>, crashes' \in 0 .. MaxCrashes
      PROVE  OutboxInv'
  <2>1. TypeOK' BY <1>1, <1>2, <1>4 DEF TypeOK
  <2>2. caller'[c] = NoCaller /\ \A u \in Callers \ {c} : caller'[u] = caller[u]
    BY <1>1, <1>4 DEF TypeOK
  <2>3. \A u \in Callers : CallerOf(caller'[u], table', platform') BY <1>1, <1>2, <1>4, <2>2
  <2>4. OwnersApart' BY <1>1, <1>2, <2>2 DEF OwnersApart
  <2> QED BY <1>4, <2>1, <2>3, <2>4 DEF OutboxInv
<1>5. CASE ReserveReplays(c) \/ CallerCrash(c)
  <2>1. /\ caller[c].pc # "idle" /\ caller' = [caller EXCEPT ![c] = NoCaller]
        /\ UNCHANGED <<table, platform, sender>>
    BY <1>5 DEF ReserveReplays, CallerCrash, CallerAt, NoCaller
  <2>2. crashes' \in 0 .. MaxCrashes
    BY <1>1, <1>5, DeliveryOutboxAssumption DEF ReserveReplays, CallerCrash, TypeOK
  <2> QED BY <1>4, <2>1, <2>2
<1>6. CASE Reserve(c)
  <2> DEFINE x == [pc |-> "reserved", key |-> k, content |-> y]
             row == [status |-> "sending", attempts |-> 1, content |-> y, bus |-> "adapter"]
  <2>1. /\ k \in Keys /\ y \in Contents /\ table[k].status = "none"
        /\ table' = [table EXCEPT ![k] = row] /\ caller' = [caller EXCEPT ![c] = x]
        /\ UNCHANGED <<platform, sender, crashes>>
    BY <1>1, <1>k, <1>6 DEF Reserve, CallerAt, CallerOf
  <2>2. row \in Row /\ table' \in [Ids -> Row] /\ table'[k] = row
    BY <1>1, <2>1 DEF TypeOK, Row, Buses
  <2>3. platform[k] = 0 BY <1>1, <2>1 DEF RowOf
  <2>4. x \in Caller /\ CallerOf(x, table', platform') /\ RowOf(table'[k], platform'[k])
    BY <2>1, <2>2, <2>3 DEF Caller, CallerOf, Owners, RowOf
  <2>5. \A u \in Callers : caller[u].pc \in Owners => caller[u].key # k
    BY <1>1, <2>1 DEF CallerOf
  <2>6. /\ UNCHANGED sender /\ crashes' \in 0 .. MaxCrashes /\ platform' \in [Ids -> Nat]
        /\ \A j \in Keys : j # k => table'[j] = table[j] /\ platform'[j] = platform[j]
    BY <1>1, <2>1 DEF TypeOK
  <2>7. x.key = k /\ caller' = [caller EXCEPT ![c] = x] /\ table' \in [Ids -> Row] BY <2>1, <2>2
  <2> HIDE DEF x
  <2>8. k \in Keys /\ x \in Caller BY <2>1, <2>4
  <2> QED BY <2>4, <2>5, <2>6, <2>7, <2>8, CallerMoves
<1>7. ASSUME caller[c].pc \in Owners
      PROVE  /\ k \in Keys /\ table[k].status = "sending"
             /\ \A u \in Callers \ {c} : caller[u].pc \in Owners => caller[u].key # k
  BY <1>1, <1>k, <1>7 DEF CallerOf, OwnersApart, Owners
<1>8. CASE \E a \in BOOLEAN, answer \in {"message", "4xx", "lost"} : ChannelPost(c, a, answer)
  <2>1. PICK a \in BOOLEAN, answer \in {"message", "4xx", "lost"} : ChannelPost(c, a, answer)
    BY <1>8
  <2> DEFINE pc == OutcomeOf(a, answer)
             x == IF pc = "idle" THEN NoCaller
                  ELSE [pc |-> pc, key |-> k, content |-> y]
  <2>2. /\ caller[c].pc = "reserved" /\ pc \in {"ok", "rejected", "idle"}
        /\ pc = "ok" => a
        /\ pc = "rejected" => ~a
    BY <2>1 DEF ChannelPost, OutcomeOf
  <2>3. /\ platform' = [platform EXCEPT ![k] = @ + (IF a THEN 1 ELSE 0)]
        /\ caller' = [caller EXCEPT ![c] = x] /\ UNCHANGED <<table, sender, crashes>>
    BY <1>k, <2>1 DEF ChannelPost, CallerAt, NoCaller
  <2>4. k \in Keys /\ k \in Ids /\ platform[k] = 0 /\ y \in Contents
    BY <1>1, <1>k, <2>2 DEF CallerOf
  <2>5. /\ platform' \in [Ids -> Nat] /\ platform'[k] = (IF a THEN 1 ELSE 0)
        /\ \A j \in Keys : j # k => platform'[j] = platform[j]
    BY <1>1, <2>3, <2>4 DEF TypeOK
  <2>6. RowOf(table'[k], platform'[k]) BY <1>7, <2>2, <2>3, <2>5 DEF RowOf, Owners
  <2>7. x \in Caller /\ CallerOf(x, table', platform') /\ (x.pc \in Owners => x.key = k)
    <3>1. CASE pc = "idle" BY <1>2, <3>1
    <3>2. CASE pc # "idle"
      <4>1. /\ x = [pc |-> pc, key |-> k, content |-> y] /\ pc \in {"ok", "rejected"}
        BY <2>2, <3>2
      <4>2. table'[k].status = "sending" BY <1>7, <2>2, <2>3 DEF Owners
      <4>3. platform'[k] = (IF pc = "ok" THEN 1 ELSE 0)
        <5>1. CASE a BY <2>2, <2>5, <4>1, <5>1
        <5>2. CASE ~a BY <2>2, <2>5, <4>1, <5>2
        <5> QED BY <5>1, <5>2
      <4> HIDE DEF pc
      <4>4. x \in Caller BY <2>4, <4>1 DEF Caller
      <4> QED BY <2>4, <4>1, <4>2, <4>3, <4>4 DEF CallerOf, Owners
    <3> QED BY <3>1, <3>2
  <2> HIDE DEF x, pc
  <2>8. /\ UNCHANGED sender /\ caller' = [caller EXCEPT ![c] = x]
        /\ table' \in [Ids -> Row] /\ crashes' \in 0 .. MaxCrashes
        /\ \A j \in Keys : j # k => table'[j] = table[j] /\ platform'[j] = platform[j]
        /\ \A u \in Callers \ {c} : caller[u].pc \in Owners => caller[u].key # k
    BY <1>1, <1>7, <2>2, <2>3, <2>5 DEF TypeOK, Owners
  <2> QED BY <2>4, <2>5, <2>6, <2>7, <2>8, CallerMoves
<1>9. CASE ChannelFinish(c)
  <2>1. PICK st \in {"sent", "dead"} :
          /\ Put(k, st, table[k].attempts) /\ caller[c].pc \in {"ok", "rejected"}
          /\ st = "sent" <=> caller[c].pc = "ok"
          /\ caller' = [caller EXCEPT ![c] = NoCaller] /\ UNCHANGED <<platform, sender, crashes>>
    BY <1>k, <1>9 DEF ChannelFinish, CallerAt, NoCaller
  <2>2. k \in Keys /\ k \in Ids /\ platform[k] = (IF caller[c].pc = "ok" THEN 1 ELSE 0)
    BY <1>1, <1>k, <2>1 DEF CallerOf, Owners
  <2>3. /\ table' \in [Ids -> Row] /\ table'[k].status = st
        /\ \A j \in Keys : j # k => table'[j] = table[j]
    BY <1>1, <2>1, <2>2 DEF Put, TypeOK, Row
  <2>4. RowOf(table'[k], platform'[k]) BY <2>1, <2>2, <2>3 DEF RowOf
  <2>5. /\ UNCHANGED sender /\ platform' \in [Ids -> Nat] /\ crashes' \in 0 .. MaxCrashes
        /\ \A j \in Keys : j # k => table'[j] = table[j] /\ platform'[j] = platform[j]
        /\ \A u \in Callers \ {c} : caller[u].pc \in Owners => caller[u].key # k
    BY <1>1, <1>7, <2>1, <2>3 DEF TypeOK, Owners
  <2>6. caller' = [caller EXCEPT ![c] = NoCaller] /\ table' \in [Ids -> Row] BY <2>1, <2>3
  <2>7. PICK x : x = NoCaller OBVIOUS
  <2>8. /\ x \in Caller /\ CallerOf(x, table', platform') /\ caller' = [caller EXCEPT ![c] = x]
        /\ x.pc \in Owners => x.key = k
    BY <1>2, <2>6, <2>7
  <2> QED BY <2>2, <2>4, <2>5, <2>6, <2>8, CallerMoves
<1> QED BY <1>3, <1>5, <1>6, <1>8, <1>9 DEF ChannelStep

------------------------------------------------------------------------------
LEMMA OutboxInductive == OutboxInv /\ [Next]_vars => OutboxInv'
<1> SUFFICES ASSUME OutboxInv, [Next]_vars PROVE OutboxInv' OBVIOUS
<1>1. CASE UNCHANGED vars
  <2>1. UNCHANGED <<table, platform, sender, caller, crashes>> BY <1>1 DEF vars
  <2>2. TypeOK' BY <2>1 DEF OutboxInv, TypeOK
  <2> QED BY <2>1, <2>2, OutboxKeeps DEF OutboxInv
<1>2. CASE \E d \in Outbox, b \in Buses : CreateDelivery(d, b) BY <1>2, CreateKeeps
<1>3. CASE \E s \in Senders : \/ \E d \in Ids, scoped \in BOOLEAN : SendCheck(s, d, scoped)
                              \/ SendStep(s) \/ RecoverRead(s) \/ SenderCrash(s)
  BY <1>3, SenderKeeps
<1>4. CASE \E c \in Callers : ChannelStep(c) BY <1>4, CallerKeeps
<1> QED BY <1>1, <1>2, <1>3, <1>4 DEF Next

LEMMA InvariantHolds == Spec => []OutboxInv
BY OutboxStarts, OutboxInductive, PTL DEF Spec

(* Rows, messages and the locals of senders and callers keep their types.  *)
THEOREM OutboxTyped == Spec => []TypeOK
<1>1. OutboxInv => TypeOK BY DEF OutboxInv
<1> QED BY <1>1, InvariantHolds, PTL

(* A channel message is posted at most once, for any number of callers     *)
(* that repeat its key with any contents, senders, recoveries and crashes. *)
THEOREM PostedOnce == Spec => []OneShot
<1>1. OutboxInv => OneShot BY DEF OutboxInv, OneShot, RowOf
<1> QED BY <1>1, InvariantHolds, PTL

(* A channel row that says "sent" or "dead" says what happened.            *)
THEOREM ReceiptsAreTrue == Spec => []ReceiptIsTrue
<1>1. OutboxInv => ReceiptIsTrue BY DEF OutboxInv, ReceiptIsTrue, RowOf
<1> QED BY <1>1, InvariantHolds, PTL

------------------------------------------------------------------------------
(* Callers write their channel rows only. *)
LEMMA CallersApart ==
  ASSUME OutboxInv, NEW c \in Callers, ChannelStep(c)
  PROVE  /\ UNCHANGED sender
         /\ \A d \in Outbox : table'[d] = table[d] /\ platform'[d] = platform[d]
<1>1. /\ caller[c].pc # "idle" => caller[c].key \in Keys
      /\ \A d \in Outbox : d \notin Keys /\ d \in Ids
      /\ table \in [Ids -> Row] /\ platform \in [Ids -> Nat]
  BY DeliveryOutboxAssumption DEF OutboxInv, CallerOf, TypeOK, Ids
<1>2. CASE \E k \in Keys, x \in Contents : ChannelInspect(c, k, x)
  BY <1>2 DEF ChannelInspect
<1>3. CASE Reserve(c) BY <1>1, <1>3 DEF Reserve
<1>4. CASE ReserveReplays(c) \/ CallerCrash(c) BY <1>4 DEF ReserveReplays, CallerCrash
<1>5. CASE \E a \in BOOLEAN, answer \in {"message", "4xx", "lost"} : ChannelPost(c, a, answer)
  BY <1>1, <1>5 DEF ChannelPost
<1>6. CASE ChannelFinish(c) BY <1>1, <1>6 DEF ChannelFinish, Put
<1> QED BY <1>2, <1>3, <1>4, <1>5, <1>6 DEF ChannelStep

(* A sender that was answered has posted its row.                          *)
Posted ==
  /\ \A s \in Senders : sender[s].pc = "ok" => platform[sender[s].id] >= 1
  /\ \A d \in Outbox : table[d].status = "sent" => platform[d] >= 1

LEMMA SendersPost ==
  ASSUME OutboxInv, Posted, NEW s \in Senders,
         \/ \E d \in Ids, scoped \in BOOLEAN : SendCheck(s, d, scoped)
         \/ SendStep(s) \/ RecoverRead(s) \/ SenderCrash(s)
  PROVE  Posted'
<1>1. /\ sender \in [Senders -> Sender] /\ table \in [Ids -> Row] /\ platform \in [Ids -> Nat]
      /\ \A u \in Senders : sender[u].pc \in {"ok", "marked"} => sender[u].id \in Ids
      /\ \A e \in Outbox : e \in Ids
  BY DEF OutboxInv, TypeOK, SenderOf, Ids
<1>2. ASSUME sender'[s].pc # "ok", \A u \in Senders \ {s} : sender'[u] = sender[u], platform' = platform,
             \A e \in Outbox : table'[e].status = "sent" => table[e].status = "sent" \/ platform[e] >= 1
      PROVE  Posted'
  BY <1>2 DEF Posted
<1>3. ASSUME NEW pc, NEW e, NEW n, Goto(s, pc, e, n)
      PROVE  sender'[s].pc = pc /\ sender'[s].id = e /\ \A u \in Senders \ {s} : sender'[u] = sender[u]
  BY <1>1, <1>3 DEF Goto
<1>4. CASE (\E d \in Ids, scoped \in BOOLEAN : SendCheck(s, d, scoped)) \/ MarkRead(s) \/ SenderCrash(s)
  BY <1>2, <1>3, <1>4 DEF SendCheck, MarkRead, SenderCrash
<1>5. CASE MarkSending(s) \/ MarkFailed(s)
  <2>1. sender'[s].pc # "ok" /\ \A u \in Senders \ {s} : sender'[u] = sender[u]
    BY <1>3, <1>5 DEF MarkSending, MarkFailed
  <2>2. \A e \in Outbox : table'[e].status = "sent" => table[e].status = "sent"
    BY <1>1, <1>5 DEF MarkSending, MarkFailed, Put
  <2> QED BY <1>2, <1>5, <2>1, <2>2 DEF MarkSending, MarkFailed
<1>6. CASE MarkSent(s)
  <2>1. sender'[s].pc # "ok" /\ \A u \in Senders \ {s} : sender'[u] = sender[u]
    BY <1>3, <1>6 DEF MarkSent
  <2>2. platform[sender[s].id] >= 1 BY <1>6 DEF MarkSent, Posted
  <2>3. \A e \in Outbox : table'[e] = table[e] \/ e = sender[s].id
    BY <1>1, <1>6 DEF MarkSent, Put
  <2> QED BY <1>2, <1>6, <2>1, <2>2, <2>3 DEF MarkSent
<1>7. ASSUME NEW a \in BOOLEAN, NEW pc \in {"ok", "error"}, Post(s, a, pc) PROVE Posted'
  <2>1. /\ sender'[s].pc = pc /\ sender'[s].id = sender[s].id /\ table' = table
        /\ \A u \in Senders \ {s} : sender'[u] = sender[u]
    BY <1>3, <1>7 DEF Post
  <2>2. sender[s].id \in Ids BY <1>1, <1>7 DEF Post
  <2>3. /\ \A e \in Ids : platform[e] \in Nat /\ platform'[e] \in Nat /\ platform'[e] >= platform[e]
        /\ pc = "ok" => platform'[sender[s].id] >= 1
    BY <1>1, <1>7, <2>2 DEF Post
  <2> QED BY <1>1, <2>1, <2>3 DEF Posted
<1>8. CASE RecoverRead(s)
  <2>1. sender'[s].pc # "ok" /\ \A u \in Senders \ {s} : sender'[u] = sender[u]
    BY <1>1, <1>8 DEF RecoverRead
  <2> QED BY <1>2, <1>8, <2>1 DEF RecoverRead
<1>9. CASE RecoverWrite(s)
  <2>1. sender'[s].pc # "ok" /\ \A u \in Senders \ {s} : sender'[u] = sender[u]
    BY <1>3, <1>9 DEF RecoverWrite
  <2>2. \A e \in Outbox : table'[e].status = "sent" => table[e].status = "sent"
    BY <1>1, <1>9 DEF RecoverWrite
  <2> QED BY <1>2, <1>9, <2>1, <2>2 DEF RecoverWrite
<1> QED BY <1>4, <1>5, <1>6, <1>7, <1>8, <1>9 DEF SendStep

LEMMA PostedKept == ASSUME OutboxInv, Posted, [Next]_vars PROVE Posted'
<1>1. CASE UNCHANGED vars BY <1>1 DEF vars, Posted
<1>2. ASSUME NEW c \in Callers, ChannelStep(c) PROVE Posted'
  <2>1. \A s \in Senders : sender[s].pc = "ok" => sender[s].id \in Outbox
    BY DEF OutboxInv, SenderOf
  <2> QED BY <1>2, <2>1, CallersApart DEF Posted
<1>3. ASSUME NEW d \in Outbox, NEW b \in Buses, CreateDelivery(d, b) PROVE Posted'
  BY <1>3 DEF CreateDelivery, Posted, OutboxInv, TypeOK, Ids
<1> QED BY <1>1, <1>2, <1>3, SendersPost DEF Next

(* A generic row marked sent is on the platform, for any number of senders *)
(* and recoveries that work on the same rows, whatever answers are lost.   *)
THEOREM SentIsPosted ==
  Spec => [](\A d \in Outbox : table[d].status = "sent" => platform[d] >= 1)
<1> DEFINE I == OutboxInv /\ Posted
           P == \A d \in Outbox : table[d].status = "sent" => platform[d] >= 1
<1>1. Init => I BY OutboxStarts DEF Init, Posted, NoSender, Ids
<1>2. I /\ [Next]_vars => I' BY OutboxInductive, PostedKept
<1>3. I => P BY DEF Posted
<1> HIDE DEF I, P
<1>4. Spec => []P BY <1>1, <1>2, <1>3, PTL DEF Spec
<1> QED BY <1>4 DEF P

------------------------------------------------------------------------------
(* With one sender nobody else writes the row it works on. *)

SenderKnows(s) ==
  LET x == sender[s] IN
    /\ x.pc \in {"checked", "read"} => table[x.id].status \in {"pending", "failed"}
    /\ x.pc \in {"marked", "ok", "error"} => table[x.id].status # "none"
    /\ x.pc = "ok" => platform[x.id] >= 1
    /\ x.pc = "error" => x.count = table[x.id].attempts

(* The one sender's next step. *)
LEMMA SenderStays ==
  ASSUME NEW s \in Senders, OutboxInv, SenderKnows(s), NoEarlyDeath,
         \/ \E d \in Ids, scoped \in BOOLEAN : SendCheck(s, d, scoped)
         \/ SendStep(s) \/ RecoverRead(s) \/ SenderCrash(s)
  PROVE  SenderKnows(s)' /\ NoEarlyDeath'
<1> DEFINE d == sender[s].id
<1>1. /\ sender \in [Senders -> Sender] /\ SenderOf(sender[s])
      /\ table \in [Ids -> Row] /\ platform \in [Ids -> Nat]
      /\ \A e \in Outbox : e \in Ids
      /\ MaxAttempts \in Nat
  BY DeliveryOutboxAssumption DEF OutboxInv, TypeOK, Ids
<1>2. ASSUME NEW e \in Ids, NEW scoped \in BOOLEAN, SendCheck(s, e, scoped)
      PROVE  SenderKnows(s)' /\ NoEarlyDeath'
  BY <1>1, <1>2 DEF SendCheck, Sendable, Goto, SenderKnows, NoEarlyDeath
<1>3. CASE MarkRead(s)
  BY <1>1, <1>3 DEF MarkRead, Goto, SenderKnows, NoEarlyDeath
<1>4. CASE MarkSending(s)
  <2>1. sender'[s].pc = "marked" /\ sender'[s].id = d BY <1>1, <1>4 DEF MarkSending, Goto
  <2>2. d \in Outbox /\ table'[d].status = "sending" /\ platform' = platform
        /\ \A e \in Outbox \ {d} : table'[e] = table[e]
    BY <1>1, <1>4 DEF MarkSending, Put, SenderOf
  <2> QED BY <2>1, <2>2 DEF SenderKnows, NoEarlyDeath
<1>5. ASSUME NEW a \in BOOLEAN, NEW pc \in {"ok", "error"}, Post(s, a, pc)
      PROVE  SenderKnows(s)' /\ NoEarlyDeath'
  <2>1. /\ d \in Outbox /\ d \in Ids /\ platform[d] \in Nat /\ table' = table
        /\ platform'[d] = platform[d] + (IF a THEN 1 ELSE 0)
        /\ \A e \in Outbox \ {d} : platform'[e] = platform[e]
    BY <1>1, <1>5 DEF Post, SenderOf
  <2>2. /\ sender'[s].pc = pc /\ sender'[s].id = d /\ sender'[s].count = table[d].attempts
        /\ pc = "ok" => a
        /\ table[d].status # "none"
    BY <1>1, <1>5 DEF Post, Goto, SenderKnows
  <2>3. platform'[d] >= platform[d] /\ (a => platform'[d] >= 1)
    BY <2>1
  <2>4. NoEarlyDeath'
    BY <1>1, <2>1, <2>3 DEF NoEarlyDeath
  <2> QED BY <2>1, <2>2, <2>3, <2>4 DEF SenderKnows
<1>6. CASE MarkSent(s)
  <2>1. /\ d \in Outbox /\ table'[d].status = "sent" /\ platform' = platform
        /\ \A e \in Outbox \ {d} : table'[e] = table[e]
        /\ sender'[s].pc = "idle" /\ platform[d] >= 1
    BY <1>1, <1>6 DEF MarkSent, Put, Goto, SenderOf, SenderKnows
  <2> QED BY <2>1 DEF SenderKnows, NoEarlyDeath
<1>7. CASE MarkFailed(s)
  <2>1. /\ d \in Outbox /\ platform' = platform /\ sender'[s].pc = "idle"
        /\ \A e \in Outbox \ {d} : table'[e] = table[e]
        /\ table'[d].status \in {"failed", "dead"}
        /\ table'[d].status = "dead" => table'[d].attempts >= MaxAttempts
    BY <1>1, <1>7 DEF MarkFailed, Put, Goto, SenderOf, SenderKnows, Exhausted
  <2> QED BY <2>1 DEF SenderKnows, NoEarlyDeath
<1>8. CASE RecoverRead(s)
  BY <1>1, <1>8 DEF RecoverRead, SenderKnows, NoEarlyDeath
<1>9. CASE RecoverWrite(s)
  <2>1. sender'[s].pc = "idle" /\ platform' = platform
    BY <1>1, <1>9 DEF RecoverWrite, Goto
  <2>2. \A e \in Outbox : table'[e] = table[e] \/ table'[e].status = "pending"
    BY <1>1, <1>9 DEF RecoverWrite
  <2> QED BY <2>1, <2>2 DEF SenderKnows, NoEarlyDeath
<1>10. CASE SenderCrash(s)
  BY <1>1, <1>10 DEF SenderCrash, Goto, SenderKnows, NoEarlyDeath
<1> QED BY <1>2, <1>3, <1>4, <1>5, <1>6, <1>7, <1>8, <1>9, <1>10 DEF SendStep

LEMMA OneSenderKeeps ==
  ASSUME NEW s \in Senders, Senders = {s}, OutboxInv, SenderKnows(s), NoEarlyDeath, [Next]_vars
  PROVE  SenderKnows(s)' /\ NoEarlyDeath'
<1>1. SenderOf(sender[s]) BY DEF OutboxInv
<1>2. ASSUME UNCHANGED sender,
             \A d \in Outbox : table'[d] = table[d] /\ platform'[d] = platform[d]
      PROVE  SenderKnows(s)' /\ NoEarlyDeath'
  BY <1>1, <1>2 DEF SenderKnows, SenderOf, NoEarlyDeath
<1>3. CASE UNCHANGED vars BY <1>2, <1>3 DEF vars
<1>4. ASSUME NEW c \in Callers, ChannelStep(c) PROVE SenderKnows(s)' /\ NoEarlyDeath'
  BY <1>2, <1>4, CallersApart
<1>5. ASSUME NEW d \in Outbox, NEW b \in Buses, CreateDelivery(d, b)
      PROVE  SenderKnows(s)' /\ NoEarlyDeath'
  <2>1. /\ table'[d].status = "pending" /\ table[d].status = "none"
        /\ \A e \in Outbox \ {d} : table'[e] = table[e]
        /\ UNCHANGED sender /\ UNCHANGED platform
    BY <1>5 DEF CreateDelivery, OutboxInv, TypeOK, Ids
  <2>2. sender[s].pc \in {"checked", "read", "marked", "ok", "error"} =>
          sender[s].id # d /\ sender[s].id \in Outbox
    BY <1>1, <2>1 DEF SenderKnows, SenderOf
  <2> QED BY <2>1, <2>2 DEF SenderKnows, NoEarlyDeath
<1>6. CASE \/ \E d \in Ids, scoped \in BOOLEAN : SendCheck(s, d, scoped)
           \/ SendStep(s) \/ RecoverRead(s) \/ SenderCrash(s)
  BY <1>6, SenderStays
<1> QED BY <1>3, <1>4, <1>5, <1>6 DEF Next

(* With one sender a generic delivery is given up only after MaxAttempts   *)
(* attempts, and one marked sent is on the platform, whatever answers are  *)
(* lost and however often the sender is killed and recovers its rows.      *)
THEOREM OneSenderPersists == ASSUME NEW s, Senders = {s} PROVE Spec => []NoEarlyDeath
<1> DEFINE I == OutboxInv /\ SenderKnows(s) /\ NoEarlyDeath
<1>1. Init => I
  BY OutboxStarts DEF Init, SenderKnows, NoSender, NoEarlyDeath, Ids
<1>2. I /\ [Next]_vars => I'
  BY OutboxInductive, OneSenderKeeps
<1>3. I => NoEarlyDeath OBVIOUS
<1> HIDE DEF I
<1> QED BY <1>1, <1>2, <1>3, PTL DEF Spec

------------------------------------------------------------------------------
(* The local job runner *)

(* A runner that saw its job pending has not started it, whatever the      *)
(* operators wrote since, and a job in the queue was never started.        *)
RunnerOf(r) ==
  /\ runner[r].pc \in {"checked", "marked", "exited"} => runner[r].job \in Jobs
  /\ runner[r].pc = "checked" => started[runner[r].job][r] = 0
  /\ runner[r].pc = "exited" => runner[r].exit \in Completed

QueueOf(j) == jobs[j] \in {"none", "pending"} => \A r \in Runners : started[j][r] = 0

RunnerInv ==
  /\ RunnerTypeOK /\ RunsOnceEach
  /\ \A j \in Jobs : QueueOf(j)
  /\ \A r \in Runners : RunnerOf(r)

LEMMA RunnerStarts == RunnerInit => RunnerInv
BY JobRunnerAssumption
   DEF RunnerInit, RunnerInv, RunnerTypeOK, RunsOnceEach, QueueOf, RunnerOf, IdleRunner, Status, Runner,
       Fitness

(* Steps that start nothing: the queue only loses jobs to other states,    *)
(* and a runner that newly saw its job pending saw it unstarted.           *)
LEMMA UnstartedKeeps ==
  ASSUME RunnerInv, RunnerTypeOK', UNCHANGED started,
         \A j \in Jobs : jobs'[j] \in {"none", "pending"} => jobs[j] \in {"none", "pending"},
         \A r \in Runners : \/ runner'[r] = runner[r] \/ RunnerOf(r)'
  PROVE  RunnerInv'
BY DEF RunnerInv, RunsOnceEach, QueueOf, RunnerOf

LEMMA QueueKeeps == ASSUME RunnerInv, QueueStep PROVE RunnerInv'
<1>1. ASSUME NEW j \in Jobs, NEW f \in Fitness, CreateJob(j, f) PROVE RunnerInv'
  <2>1. /\ jobs' = [jobs EXCEPT ![j] = "pending"] /\ jobs[j] = "none"
        /\ fitness' = [fitness EXCEPT ![j] = f]
        /\ UNCHANGED <<runner, cancel, started, kills, changes>>
    BY <1>1 DEF CreateJob
  <2>2. RunnerTypeOK' BY <2>1 DEF RunnerInv, RunnerTypeOK, Status
  <2> QED BY <2>1, <2>2, UnstartedKeeps DEF RunnerInv, RunnerTypeOK
<1>2. ASSUME NEW i \in Jobs, NEW j \in Jobs, RetryJob(i, j) PROVE RunnerInv'
  <2>1. fitness[i] \in Fitness BY DEF RunnerInv, RunnerTypeOK
  <2> QED BY <1>1, <1>2, <2>1 DEF RetryJob
<1>3. ASSUME NEW j \in Jobs, NEW f \in Fitness, FitnessChanges(j, f) PROVE RunnerInv'
  <2>1. RunnerTypeOK'
    BY <1>3, JobRunnerAssumption DEF FitnessChanges, RunnerInv, RunnerTypeOK
  <2> QED BY <1>3, <2>1, UnstartedKeeps DEF FitnessChanges
<1> QED BY <1>1, <1>2, <1>3 DEF QueueStep

LEMMA CancelKeeps == ASSUME RunnerInv, CancelStep PROVE RunnerInv'
<1>1. PICK o \in Operators : (\E j \in Jobs : CancelRead(o, j)) \/ CancelWrite(o)
  BY DEF CancelStep
<1>2. CASE \E j \in Jobs : CancelRead(o, j)
  <2>1. RunnerTypeOK' BY <1>2 DEF CancelRead, RunnerInv, RunnerTypeOK
  <2> QED BY <1>2, <2>1, UnstartedKeeps DEF CancelRead
<1>3. CASE CancelWrite(o)
  <2>1. cancel[o] \in Jobs BY <1>3 DEF CancelWrite, RunnerInv, RunnerTypeOK
  <2>2. RunnerTypeOK' BY <1>3, <2>1 DEF CancelWrite, RunnerInv, RunnerTypeOK, Status
  <2> QED BY <1>3, <2>1, <2>2, UnstartedKeeps DEF CancelWrite, RunnerInv, RunnerTypeOK
<1> QED BY <1>1, <1>2, <1>3

(* The runner's list, its reading of the row, the end of the subprocess    *)
(* and of the process.                                                     *)
LEMMA ReadsKeep ==
  ASSUME RunnerInv, NEW r \in Runners,
         \/ PumpList(r) \/ RunnerCrash(r)
         \/ \E j \in Jobs : RunCheck(r, j) \/ RunRefused(r, j) \/ RunRaises(r, j)
         \/ \E e \in Completed : SubprocessEnds(r, e)
  PROVE  RunnerInv'
<1>1. RunnerTypeOK /\ runner[r] \in Runner /\ RunnerOf(r) BY DEF RunnerInv, RunnerTypeOK
<1>2. ASSUME NEW x \in Runner, runner' = [runner EXCEPT ![r] = x], UNCHANGED <<jobs, fitness, cancel, started, changes>>,
             kills' \in 0 .. MaxKills,
             x.pc \in {"checked", "marked", "exited"} => x.job \in Jobs,
             x.pc = "checked" => started[x.job][r] = 0,
             x.pc = "exited" => x.exit \in Completed
      PROVE  RunnerInv'
  <2>1. RunnerTypeOK' BY <1>1, <1>2 DEF RunnerTypeOK
  <2>2. \A u \in Runners : runner'[u] = runner[u] \/ RunnerOf(u)'
    BY <1>1, <1>2 DEF RunnerTypeOK, RunnerOf
  <2> QED BY <1>2, <2>1, <2>2, UnstartedKeeps
<1>3. IdleRunner \in Runner /\ IdleRunner.pc = "idle" BY DEF IdleRunner, Runner
<1>4. CASE PumpList(r)
  <2> DEFINE L == {j \in {k \in Jobs : jobs[k] = "pending"} :
                     Cardinality({k \in {i \in Jobs : jobs[i] = "pending"} : k < j}) < Batch}
             x == [IdleRunner EXCEPT !.pc = "pump", !.todo = L]
  <2>1. x \in Runner /\ x.pc = "pump" BY DEF IdleRunner, Runner
  <2>2. runner' = [runner EXCEPT ![r] = x] BY <1>4 DEF PumpList
  <2> HIDE DEF x
  <2> QED BY <1>1, <1>2, <1>4, <2>1, <2>2 DEF PumpList, RunnerTypeOK
<1>5. CASE RunnerCrash(r)
  <2>1. kills' \in 0 .. MaxKills BY <1>1, <1>5, JobRunnerAssumption DEF RunnerCrash, RunnerTypeOK
  <2> QED BY <1>2, <1>3, <1>5, <2>1 DEF RunnerCrash
<1>6. ASSUME NEW j \in Jobs, RunCheck(r, j) PROVE RunnerInv'
  <2> DEFINE x == [pc |-> "checked", todo |-> runner[r].todo \ {j}, job |-> j, exit |-> "none"]
  <2>1. x \in Runner BY <1>1 DEF Runner
  <2>2. started[j][r] = 0 BY <1>6 DEF RunCheck, RunnerInv, QueueOf
  <2> QED BY <1>1, <1>2, <1>6, <2>1, <2>2 DEF RunCheck, InHand, RunnerAt, RunnerTypeOK
<1>7. ASSUME NEW j \in Jobs, RunRefused(r, j) PROVE RunnerInv'
  <2> DEFINE x == [IdleRunner EXCEPT !.pc = "pump", !.todo = runner[r].todo \ {j}]
  <2>1. x \in Runner /\ x.pc = "pump" BY <1>1 DEF IdleRunner, Runner
  <2>2. runner' = [runner EXCEPT ![r] = IdleRunner] \/ runner' = [runner EXCEPT ![r] = x]
    BY <1>7 DEF RunRefused
  <2> HIDE DEF x
  <2> QED BY <1>1, <1>2, <1>3, <1>7, <2>1, <2>2 DEF RunRefused, RunnerTypeOK
<1>8. ASSUME NEW e \in Completed, SubprocessEnds(r, e) PROVE RunnerInv'
  <2> DEFINE x == [pc |-> "exited", todo |-> runner[r].todo \ {runner[r].job},
                   job |-> runner[r].job, exit |-> e]
  <2>1. x \in Runner /\ x.job \in Jobs
    BY <1>1, <1>8 DEF SubprocessEnds, Runner, RunnerOf, Completed
  <2> QED BY <1>1, <1>2, <1>8, <2>1 DEF SubprocessEnds, RunnerAt, RunnerTypeOK
<1>9. ASSUME NEW j \in Jobs, RunRaises(r, j) PROVE RunnerInv'
  BY <1>1, <1>2, <1>3, <1>9 DEF RunRaises, RunnerTypeOK
<1> QED BY <1>4, <1>5, <1>6, <1>7, <1>8, <1>9

LEMMA CompletedKeeps == ASSUME RunnerInv, NEW r \in Runners, MarkCompleted(r) PROVE RunnerInv'
<1>1. PICK j : j = runner[r].job OBVIOUS
<1>2. RunnerTypeOK /\ runner[r] \in Runner /\ j \in Jobs
  BY <1>1 DEF MarkCompleted, RunnerInv, RunnerTypeOK, RunnerOf
<1> DEFINE x == [IdleRunner EXCEPT !.pc = "pump", !.todo = runner[r].todo]
<1>3. IdleRunner \in Runner /\ IdleRunner.pc = "idle" /\ x \in Runner /\ x.pc = "pump"
  BY <1>2 DEF IdleRunner, Runner
<1>4. PICK y \in Runner : runner' = [runner EXCEPT ![r] = y] /\ y.pc \in {"idle", "pump"}
  BY <1>3 DEF MarkCompleted, NextInList
<1>5. PICK st \in Status :
        jobs' = [jobs EXCEPT ![j] = st] /\ (st = jobs[j] \/ st \in Completed)
  BY <1>1, <1>2 DEF MarkCompleted, RunnerTypeOK, Status, Completed, RunnerInv, RunnerOf
<1>6. UNCHANGED <<fitness, cancel, started, kills, changes>> BY DEF MarkCompleted
<1>7. jobs' \in [Jobs -> Status] /\ runner' \in [Runners -> Runner]
  BY <1>2, <1>4, <1>5 DEF RunnerTypeOK
<1>8. RunnerTypeOK' BY <1>2, <1>6, <1>7 DEF RunnerTypeOK
<1>9. \A u \in Runners : runner'[u] = runner[u] \/ RunnerOf(u)'
  BY <1>2, <1>4 DEF RunnerTypeOK, RunnerOf
<1>10. \A k \in Jobs : jobs'[k] \in {"none", "pending"} => jobs[k] \in {"none", "pending"}
  BY <1>2, <1>5 DEF RunnerTypeOK, Completed
<1> QED BY <1>6, <1>8, <1>9, <1>10, UnstartedKeeps

(* The start itself: what another runner knows of the job is about that    *)
(* runner's own starts.                                                    *)
LEMMA StartKeeps ==
  ASSUME RunnerInv, NEW r \in Runners, MarkStarted(r)
  PROVE  RunnerInv'
<1>1. PICK j : j = runner[r].job OBVIOUS
<1>2. /\ RunnerTypeOK /\ runner[r] \in Runner /\ runner[r].pc = "checked" /\ j \in Jobs
      /\ started[j][r] = 0
  BY <1>1 DEF MarkStarted, RunnerInv, RunnerTypeOK, RunnerOf
<1> DEFINE x == [pc |-> "marked", todo |-> runner[r].todo \ {j}, job |-> j, exit |-> "none"]
<1>3. x \in Runner /\ x.pc = "marked" /\ x.job = j BY <1>2 DEF Runner
<1>4. /\ jobs' = [jobs EXCEPT ![j] = "running"] /\ started' = [started EXCEPT ![j][r] = @ + 1]
      /\ runner' = [runner EXCEPT ![r] = x] /\ UNCHANGED <<fitness, cancel, kills, changes>>
  BY <1>1 DEF MarkStarted, RunnerAt
<1> HIDE DEF x
<1>5. /\ started' \in [Jobs -> [Runners -> Nat]] /\ started'[j][r] = 1
      /\ \A k \in Jobs, u \in Runners : k # j \/ u # r => started'[k][u] = started[k][u]
  BY <1>2, <1>4 DEF RunnerTypeOK
<1>6. RunnerTypeOK' BY <1>2, <1>3, <1>4, <1>5 DEF RunnerTypeOK, Status
<1>7. jobs'[j] = "running" /\ \A k \in Jobs \ {j} : jobs'[k] = jobs[k]
  BY <1>2, <1>4 DEF RunnerTypeOK
<1>8. RunsOnceEach'
  BY <1>2, <1>5, <1>7 DEF RunnerInv, RunsOnceEach
<1>9. \A k \in Jobs : QueueOf(k)' BY <1>5, <1>7 DEF RunnerInv, QueueOf
<1>10. ASSUME NEW u \in Runners PROVE RunnerOf(u)'
  <2>1. CASE u = r BY <2>1, <1>2, <1>3, <1>4 DEF RunnerTypeOK, RunnerOf
  <2>2. CASE u # r
    <3>1. runner'[u] = runner[u] /\ RunnerOf(u) BY <2>2, <1>2, <1>4 DEF RunnerTypeOK, RunnerInv
    <3> QED BY <2>2, <3>1, <1>5 DEF RunnerOf
  <2> QED BY <2>1, <2>2
<1> QED BY <1>6, <1>8, <1>9, <1>10 DEF RunnerInv

LEMMA RunnerInductive == ASSUME RunnerInv, [RunnerNext]_runnerVars PROVE RunnerInv'
<1>1. CASE UNCHANGED runnerVars
  <2>1. UNCHANGED <<jobs, fitness, runner, cancel, started, kills, changes>> BY <1>1 DEF runnerVars
  <2>2. RunnerTypeOK' BY <2>1 DEF RunnerInv, RunnerTypeOK
  <2> QED BY <2>1, <2>2, UnstartedKeeps
<1>2. CASE QueueStep \/ CancelStep BY <1>2, QueueKeeps, CancelKeeps
<1>3. ASSUME NEW r \in Runners, PumpList(r) \/ RunStep(r) \/ RunnerCrash(r) PROVE RunnerInv'
  BY <1>3, ReadsKeep, CompletedKeeps, StartKeeps DEF RunStep
<1> QED BY <1>1, <1>2, <1>3 DEF RunnerNext

(* No pump starts a job twice, and no started job is in the queue again,   *)
(* for any number of pumps and however many jobs fail, are cancelled       *)
(* around their start, retried, or lose their runner.                      *)
THEOREM EachPumpRunsOnce == RunnerSpec => []RunsOnceEach
<1>1. RunnerInit => RunnerInv BY RunnerStarts
<1>2. RunnerInv /\ [RunnerNext]_runnerVars => RunnerInv' BY RunnerInductive
<1>3. RunnerInv => RunsOnceEach BY DEF RunnerInv
<1> QED BY <1>1, <1>2, <1>3, PTL DEF RunnerSpec

(* With one pump the exit code of a subprocess never replaces a            *)
(* cancellation: mark_job_completed leaves a cancelled row as it is, and   *)
(* nobody else has a job in hand that was started.                         *)
THEOREM OnePumpKeepsCancelled ==
  ASSUME NEW p, Runners = {p} PROVE RunnerSpec => CancelSurvivesExit
<1> DEFINE Final(j) == jobs[j] = "cancelled" /\ (\E r \in Runners : started[j][r] > 0)
                      => jobs'[j] = "cancelled"
<1>1. RunnerInit => RunnerInv BY RunnerStarts
<1>2. RunnerInv /\ [RunnerNext]_runnerVars => RunnerInv' BY RunnerInductive
<1>3. ASSUME RunnerInv, RunnerNext, NEW j \in Jobs PROVE Final(j)
  <2>0. jobs \in [Jobs -> Status] /\ RunnerOf(p) BY <1>3 DEF RunnerInv, RunnerTypeOK
  <2>1. CASE QueueStep BY <2>0, <2>1 DEF QueueStep, RetryJob, CreateJob, FitnessChanges
  <2>2. CASE CancelStep BY <2>0, <2>2 DEF CancelStep, CancelRead, CancelWrite
  <2>3. CASE PumpList(p) \/ RunnerCrash(p) BY <2>3 DEF PumpList, RunnerCrash
  <2>4. CASE RunStep(p)
    <3>1. CASE \E k \in Jobs : RunCheck(p, k) \/ RunRefused(p, k) \/ RunRaises(p, k)
      BY <3>1 DEF RunCheck, RunRefused, RunRaises
    <3>2. CASE MarkStarted(p) BY <2>0, <3>2 DEF MarkStarted, RunnerOf
    <3>3. CASE MarkCompleted(p) BY <2>0, <3>3 DEF MarkCompleted
    <3>4. CASE \E e \in Completed : SubprocessEnds(p, e) BY <3>4 DEF SubprocessEnds
    <3> QED BY <2>4, <3>1, <3>2, <3>3, <3>4 DEF RunStep
  <2> QED BY <1>3, <2>1, <2>2, <2>3, <2>4 DEF RunnerNext
<1>4. ASSUME RunnerInv, [RunnerNext]_runnerVars
      PROVE  [\A j \in Jobs : jobs[j] = "cancelled" /\ (\E r \in Runners : started[j][r] > 0) =>
                jobs'[j] = "cancelled"]_runnerVars
  BY <1>3, <1>4
<1> HIDE DEF Final
<1> QED BY <1>1, <1>2, <1>4, PTL DEF RunnerSpec, CancelSurvivesExit

==============================================================================
