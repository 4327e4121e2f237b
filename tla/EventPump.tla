------------------------------ MODULE EventPump ------------------------------
(***************************************************************************)
(* The Discord daemon's event pump: _do_pump of daemon.py and pump_events  *)
(* of policy.py.  Each call turns the events between the daemon's cursor   *)
(* and a cutoff into rows of the deliveries table.  The cursor lives in    *)
(* memory and is shared by every call under way: the pump loop (on_ready   *)
(* may start more than one) and the pump and handoff commands, each on a   *)
(* thread of its own.                                                      *)
(***************************************************************************)
EXTENDS Integers, Sequences, FiniteSets

CONSTANTS
  Threads,      \* threads of the daemon that may be inside _do_pump
  Loop,         \* the one that runs _pump_loop; the others run commands
  Workspaces,   \* the workspaces whose default_bus is discord_webhook, as
                \* numbers in the order of their ids
  Limit,        \* pump_events' limit on deliveries created in one call
  Null,         \* Python None
  MaxEvents, MaxFaults     \* bounds of the model

ASSUME EventPumpAssumption ==
  /\ Loop \in Threads /\ Workspaces \subseteq Nat
  /\ Limit \in Nat \ {0} /\ MaxEvents \in Nat /\ MaxFaults \in Nat
  /\ Null \notin Nat

VARIABLES
  log,       \* the events table; the index is the rowid
  rows,      \* deliveries of events: <<rowid, number of the delivery>>
  cursor,    \* _pump_cursor_rowid
  pump,      \* per thread, the local variables of its _do_pump
  base,      \* history: the latest first reading of the log by this daemon
  leftOver,  \* history: events a scan left behind when it hit the limit
  faults     \* history: exceptions and restarts so far

pumpVars == <<log, rows, cursor, pump, base, leftOver, faults>>

(* An event renders no delivery (it is not supported), one, or two: a      *)
(* handoff and an agent's coming or going each add one of their own.       *)
Event == [ws : Workspaces, parts : 0..2]

Delivered(r) == \A i \in 1..log[r].parts : <<r, i>> \in rows

(* pc is where the call stands: "first" has read MAX(rowid) for a cursor   *)
(* that was None, "cutoff" is about to read the cutoff, "next" is between  *)
(* two workspaces and "scan" inside pump_events, where at is the event it  *)
(* is at and rest the deliveries of that event still to create.            *)
Pump == [pc : {"idle", "first", "cutoff", "next", "scan"},
         seen : Nat, todo : SUBSET Workspaces, ws : Workspaces \cup {Null},
         at : Nat, rest : 0..1, created : Nat]

PumpTypeOK ==
  /\ log \in Seq(Event) /\ Len(log) <= MaxEvents
  /\ rows \subseteq (1..Len(log)) \X (1..2)
  /\ cursor \in Nat \cup {Null} /\ base \in Nat \cup {Null}
  /\ pump \in [Threads -> Pump]
  /\ leftOver \subseteq 1..Len(log)
  /\ faults \in 0..MaxFaults

Idle == [pc |-> "idle", seen |-> 0, todo |-> {}, ws |-> Null, at |-> 0,
         rest |-> 0, created |-> 0]

PumpInit ==
  /\ log = << >> /\ rows = {} /\ leftOver = {}
  /\ cursor = Null /\ base = Null
  /\ pump = [t \in Threads |-> Idle]
  /\ faults = 0

At(t, pc, seen, todo) ==
  [pc |-> pc, seen |-> seen, todo |-> todo, ws |-> Null, at |-> 0,
   rest |-> 0, created |-> 0]

-----------------------------------------------------------------------------
(* Any process appends events at any time.                                 *)
AppendEvent(w, parts) ==
  /\ Len(log) < MaxEvents
  /\ log' = Append(log, [ws |-> w, parts |-> parts])
  /\ UNCHANGED <<rows, cursor, pump, base, leftOver, faults>>

(* The test of the cursor, and the first SELECT MAX(rowid) when it is None *)
PumpBegin(t) ==
  /\ pump[t].pc = "idle"
  /\ pump' = [pump EXCEPT ![t] =
       IF cursor = Null THEN At(t, "first", Len(log), {})
                        ELSE At(t, "cutoff", 0, {})]
  /\ UNCHANGED <<log, rows, cursor, base, leftOver, faults>>

PumpFirst(t) ==
  /\ pump[t].pc = "first"
  /\ cursor' = pump[t].seen
  /\ base' = IF base # Null /\ base > pump[t].seen THEN base ELSE pump[t].seen
  /\ pump' = [pump EXCEPT ![t] = At(t, "cutoff", 0, {})]
  /\ UNCHANGED <<log, rows, leftOver, faults>>

(* The cutoff of this cycle                                                *)
PumpCutoff(t) ==
  /\ pump[t].pc = "cutoff"
  /\ pump' = [pump EXCEPT ![t] = At(t, "next", Len(log), Workspaces)]
  /\ UNCHANGED <<log, rows, cursor, base, leftOver, faults>>

(* pump_events for the next workspace, from the cursor as it is now        *)
ScanBegin(t, w) ==
  /\ pump[t].pc = "next" /\ w \in pump[t].todo /\ \A x \in pump[t].todo : w <= x
  /\ pump' = [pump EXCEPT ![t] =
       [pc |-> "scan", seen |-> pump[t].seen, todo |-> pump[t].todo \ {w},
        ws |-> w, at |-> cursor, rest |-> 0, created |-> 0]]
  /\ UNCHANGED <<log, rows, cursor, base, leftOver, faults>>

(* min_rowid < rowid <= max_rowid, of this workspace                       *)
InScope(t, r) ==
  /\ pump[t].at < r /\ r <= pump[t].seen
  /\ log[r].ws = pump[t].ws

(* The next event of the scan, unless created >= limit broke it off.       *)
NextEvent(t, r) ==
  /\ pump[t].pc = "scan" /\ pump[t].rest = 0 /\ pump[t].created < Limit
  /\ InScope(t, r) /\ \A q \in 1..(r - 1) : ~InScope(t, q)

(* create_delivery for delivery i of event r.  The message key makes a     *)
(* second creation find the first one's row.                               *)
Deliver(t, r, i, rest) ==
  /\ rows' = rows \cup {<<r, i>>}
  /\ pump' = [pump EXCEPT ![t] =
       [pc |-> "scan", seen |-> pump[t].seen, todo |-> pump[t].todo,
        ws |-> pump[t].ws, at |-> r, rest |-> rest,
        created |-> pump[t].created + (IF <<r, i>> \in rows THEN 0 ELSE 1)]]
  /\ UNCHANGED <<log, cursor, base, leftOver, faults>>

(* Mutant: the scan does not move on from an event without a delivery. *)
ScanUnsupportedStays(t, r) ==
  /\ NextEvent(t, r) /\ log[r].parts = 0
  /\ UNCHANGED pumpVars

ScanUnsupported(t, r) ==
  /\ NextEvent(t, r) /\ log[r].parts = 0
  /\ pump' = [pump EXCEPT ![t].at = r]
  /\ UNCHANGED <<log, rows, cursor, base, leftOver, faults>>

(* create_deliveries_for_event: the first delivery, and the second, which  *)
(* is a transaction of its own and does not look at the limit.             *)
ScanEvent(t, r) ==
  /\ NextEvent(t, r) /\ log[r].parts > 0
  /\ Deliver(t, r, 1, log[r].parts - 1)

ScanRest(t) ==
  /\ pump[t].pc = "scan" /\ pump[t].rest > 0
  /\ Deliver(t, pump[t].at, 2, 0)

(* The scan is through, or created >= limit broke it off.                  *)
ScanEnd(t) ==
  LET missed == {r \in 1..Len(log) : InScope(t, r)} IN
  /\ pump[t].pc = "scan" /\ pump[t].rest = 0
  /\ pump[t].created >= Limit \/ missed = {}
  /\ pump' = [pump EXCEPT ![t] = At(t, "next", pump[t].seen, pump[t].todo)]
  /\ leftOver' = leftOver \cup missed
  /\ UNCHANGED <<log, rows, cursor, base, faults>>

(* Mutant: the cursor jumps to the end of the log as it is now. *)
PumpEndAtMax(t) ==
  /\ pump[t].pc = "next" /\ pump[t].todo = {}
  /\ cursor' = Len(log)
  /\ pump' = [pump EXCEPT ![t] = Idle]
  /\ UNCHANGED <<log, rows, base, leftOver, faults>>

(* Every workspace is done: the cursor advances to the cutoff.             *)
PumpEnd(t) ==
  /\ pump[t].pc = "next" /\ pump[t].todo = {}
  /\ cursor' = pump[t].seen
  /\ pump' = [pump EXCEPT ![t] = Idle]
  /\ UNCHANGED <<log, rows, base, leftOver, faults>>

(* An exception ends the call and leaves the cursor where it is.           *)
PumpFails(t) ==
  /\ pump[t].pc # "idle" /\ faults < MaxFaults
  /\ faults' = faults + 1
  /\ pump' = [pump EXCEPT ![t] = Idle]
  /\ UNCHANGED <<log, rows, cursor, base, leftOver>>

(* The daemon is killed and started again with no cursor.                  *)
Restart ==
  /\ faults < MaxFaults
  /\ faults' = faults + 1
  /\ cursor' = Null /\ base' = Null /\ leftOver' = {}
  /\ pump' = [t \in Threads |-> Idle]
  /\ UNCHANGED <<log, rows>>

Run(t) ==
  \/ PumpFirst(t) \/ PumpCutoff(t)
  \/ \E w \in Workspaces : ScanBegin(t, w)
  \/ \E r \in 1..Len(log) : ScanEvent(t, r) \/ ScanUnsupported(t, r)
  \/ ScanRest(t) \/ ScanEnd(t) \/ PumpEnd(t)

PumpNext ==
  \/ \E w \in Workspaces, n \in 0..2 : AppendEvent(w, n)
  \/ \E t \in Threads : PumpBegin(t) \/ Run(t) \/ PumpFails(t)
  \/ Restart

PumpSpec == PumpInit /\ [][PumpNext]_pumpVars

-----------------------------------------------------------------------------
(* An event between the daemon's first reading of the log and its cursor   *)
(* has all its deliveries, whatever the concurrent calls do to the shared  *)
(* cursor, unless a scan that created as many deliveries as the limit      *)
(* allows left it behind.                                                  *)
PassedIsDelivered ==
  cursor # Null => \A r \in 1..Len(log) :
    base < r /\ r <= cursor => Delivered(r) \/ r \in leftOver

-----------------------------------------------------------------------------
(* A call under way goes on, and the pump loop calls again after every     *)
(* pump_interval, an exception included.                                   *)
PumpFairness ==
  /\ \A t \in Threads : WF_pumpVars(Run(t))
  /\ WF_pumpVars(PumpBegin(Loop))

PumpLiveSpec == PumpSpec /\ PumpFairness

(* An event appended after the first pump gets its deliveries in the end,  *)
(* unless the daemon is restarted first or a scan leaves it behind.        *)
EventIsDelivered ==
  \A r \in 1..MaxEvents :
    (base # Null /\ base < r /\ r <= Len(log))
      ~> \/ base = Null \/ base >= r
         \/ r <= Len(log) /\ (Delivered(r) \/ r \in leftOver)
=============================================================================
