------------------------- MODULE ChannelProvisioning -------------------------
(***************************************************************************)
(* Discord channels of workspaces: the (platform, channel) bindings of     *)
(* db.py, which a command line may bind and release at any time, and the   *)
(* daemon's provisioning, which answers durable requests and the channel   *)
(* command.  A channel made by the daemon carries the workspace's marker   *)
(* in its topic, so that a restarted daemon finds it again.                *)
(***************************************************************************)
EXTENDS Naturals, FiniteSets

CONSTANTS
  Workspaces,
  Channels,     \* channels that may exist on Discord
  Manual,       \* those made by hand, without a marker
  Requests,     \* MCP requests, by idempotency key, oldest first
  RequestWs,    \* the workspace each of them names
  Loops,        \* pump loops: on_ready starts one more after a reconnect
  Commands,     \* "channel create" messages
  Operators,    \* command line processes
  None, Failed,
  Budgets       \* bounds: the faults, operations and commands of a run

ASSUME ChannelAssumption ==
  /\ Manual \subseteq Channels /\ IsFiniteSet(Channels) /\ Requests \subseteq Nat
  /\ RequestWs \in [Requests -> Workspaces]
  /\ Loops \cap Commands = {} /\ (Loops \cup Commands) \cap Operators = {}
  /\ None \notin Workspaces \cup Channels /\ Failed \notin Channels \cup {None}
  /\ "cli" \notin Workspaces
  /\ Budgets \subseteq [faults : Nat, ops : Nat, commands : Nat]

(* Idempotency keys: an operator's own, and the daemon's for a binding.    *)
Keys == ({"cli"} \X Nat) \cup (Workspaces \X Channels)

Daemon == Loops \cup Commands
Tasks == Daemon \cup Operators

VARIABLES
  guild,     \* channels on Discord -> the workspace of the topic marker
  cached,    \* guild.channels as the client knows it
  bound,     \* the channel_bindings table
  used,      \* bound and released events, by their keys
  ledger,    \* history: what those events of a channel add up to
  route,     \* default_destination of a workspace
  asked,     \* requests that were recorded
  answer,    \* request -> its terminal event: a channel, Failed or None
  task,      \* local variables of every task
  lost,      \* history: workspaces of creations whose answer was lost
  left       \* what is left of the run's budget

vars == <<guild, cached, bound, used, ledger, route, asked, answer, task,
          lost, left>>
discord == <<guild, cached, lost>>
rows == <<bound, used, ledger>>
requests == <<asked, answer>>

BindingEvent == [key : Keys,
                 type : {"bound", "released"}, ws : Workspaces, ch : Channels]

Steps == {"off", "loop", "lock", "inspect", "find", "create", "final",
          "bindread", "bind", "relread", "rel", "route", "check",
          "finish"}
Held == {"inspect", "find", "create", "final", "bindread", "bind", "route"}

Task == [pc : Steps, ws : Workspaces \cup {None}, ch : Channels \cup {None, Failed},
         key : Keys \cup {None},
         req : Requests \cup {None}, todo : SUBSET Requests]

TypeOK ==
  /\ guild \in [Channels -> Workspaces \cup {None}]
  /\ cached \subseteq Channels
  /\ bound \in [Channels -> Workspaces \cup {None}]
  /\ ledger \in [Channels -> Workspaces \cup {None}]
  /\ used \subseteq BindingEvent
  /\ route \in [Workspaces -> Channels \cup {None}]
  /\ asked \subseteq Requests
  /\ answer \in [Requests -> Channels \cup {None, Failed}]
  /\ task \in [Tasks -> Task]
  /\ lost \in [Workspaces -> Nat]
  /\ left \in [faults : Nat, ops : Nat, commands : Nat]

Off == [pc |-> "off", ws |-> None, ch |-> None, key |-> None, req |-> None,
        todo |-> {}]

Init ==
  /\ guild = [c \in Channels |-> None] /\ cached = Manual
  /\ bound = [c \in Channels |-> None] /\ ledger = bound /\ used = {}
  /\ route = [w \in Workspaces |-> None]
  /\ asked = {} /\ answer = [r \in Requests |-> None]
  /\ task = [t \in Tasks |-> Off]
  /\ lost = [w \in Workspaces |-> 0] /\ left \in Budgets

Pending == {r \in asked : answer[r] = None}
Bindings(w) == {c \in Channels : bound[c] = w}
Marked(w) == {c \in Channels : guild[c] = w}
OnDiscord == Manual \cup {c \in Channels : guild[c] # None}
KeyUsed(k) == \E e \in used : e.key = k

Spend(kind) == left[kind] > 0 /\ left' = [left EXCEPT ![kind] = @ - 1]

Goto(t, pc) == task' = [task EXCEPT ![t].pc = pc]

(* The loop goes on with the rest of its list.                             *)
Back(t) == [Off EXCEPT !.pc = "loop", !.todo = task[t].todo]

(* Mutant: an exception ends the request without a failure event. *)
RaisedSilently(t) == IF t \in Loops THEN Back(t) ELSE Off

(* An exception: the loop's except branch finishes the request with a      *)
(* failure, a command and an operator end.                                 *)
Raised(t) == IF t \in Loops THEN [task[t] EXCEPT !.pc = "finish", !.ch = Failed]
                            ELSE Off

Raise(t) == task' = [task EXCEPT ![t] = Raised(t)]

-----------------------------------------------------------------------------
(* request_discord_channel_provision: a repeated key only reads, and a     *)
(* second pending request of the workspace is refused, under the write     *)
(* lock.                                                                   *)
RequestChannel(r) ==
  /\ r \notin asked /\ \A q \in Pending : RequestWs[q] # RequestWs[r]
  /\ asked' = asked \cup {r}
  /\ UNCHANGED <<discord, rows, route, answer, task, left>>

(* on_ready starts a loop, and a loop lists the pending requests.          *)
LoopStart(t) ==
  /\ t \in Loops /\ task[t].pc = "off"
  /\ Goto(t, "loop")
  /\ UNCHANGED <<discord, rows, route, requests, left>>

LoopList(t) ==
  /\ task[t].pc = "loop" /\ task[t].todo = {} /\ Pending # {}
  /\ task' = [task EXCEPT ![t].todo = Pending]
  /\ UNCHANGED <<discord, rows, route, requests, left>>

LoopTakes(t, r) ==
  /\ task[t].pc = "loop" /\ r \in task[t].todo
  /\ \A q \in task[t].todo : r <= q
  /\ task' = [task EXCEPT ![t] =
       [Off EXCEPT !.pc = "lock", !.ws = RequestWs[r], !.req = r,
                   !.todo = @ \cup (task[t].todo \ {r})]]
  /\ UNCHANGED <<discord, rows, route, requests, left>>

CommandStart(t, w) ==
  /\ t \in Commands /\ task[t].pc = "off"
  /\ task' = [task EXCEPT ![t] = [Off EXCEPT !.pc = "lock", !.ws = w]]
  /\ Spend("commands")
  /\ UNCHANGED <<discord, rows, route, requests>>

-----------------------------------------------------------------------------
(* Mutant: the per-workspace lock is missing. *)
LockFreeAlways(w) == TRUE

(* _channel_provision_locks                                                *)
LockFree(w) == \A t \in Daemon : task[t].ws = w => task[t].pc \notin Held

Acquire(t) ==
  /\ task[t].pc = "lock" /\ LockFree(task[t].ws)
  /\ Goto(t, "inspect")
  /\ UNCHANGED <<discord, rows, route, requests, left>>

(* inspect_discord_provisioning: several bindings are an error, one is     *)
(* finalized again, and without one the marker is looked for.              *)
Inspect(t) ==
  LET b == Bindings(task[t].ws) IN
  /\ task[t].pc = "inspect"
  /\ task' = [task EXCEPT ![t] =
       IF Cardinality(b) > 1 THEN Raised(t)
       ELSE IF b = {} THEN [@ EXCEPT !.pc = "find"]
       ELSE [@ EXCEPT !.pc = "final", !.ch = CHOOSE c \in b : TRUE]]
  /\ UNCHANGED <<discord, rows, route, requests, left>>

Find(t) ==
  LET matches == Marked(task[t].ws) \cap cached IN
  /\ task[t].pc = "find"
  /\ task' = [task EXCEPT ![t] =
       IF Cardinality(matches) > 1 THEN Raised(t)
       ELSE IF matches = {} THEN [@ EXCEPT !.pc = "create"]
       ELSE [@ EXCEPT !.pc = "final", !.ch = CHOOSE c \in matches : TRUE]]
  /\ UNCHANGED <<discord, rows, route, requests, left>>

(* guild.create_text_channel, which puts the channel into the cache        *)
Create(t, c) ==
  /\ task[t].pc = "create" /\ c \notin OnDiscord
  /\ guild' = [guild EXCEPT ![c] = task[t].ws] /\ cached' = cached \cup {c}
  /\ task' = [task EXCEPT ![t].pc = "final", ![t].ch = c]
  /\ UNCHANGED <<rows, route, requests, lost, left>>

(* The guild has as many channels as Discord allows.                       *)
CreateRefused(t) ==
  /\ task[t].pc = "create" /\ OnDiscord = Channels
  /\ Raise(t)
  /\ UNCHANGED <<discord, rows, route, requests, left>>

(* Discord fails, or makes the channel and the answer is lost: the         *)
(* gateway tells the client of it later.                                   *)
CreateFails(t) ==
  /\ task[t].pc = "create" /\ Spend("faults")
  /\ Raise(t)
  /\ UNCHANGED <<discord, rows, route, requests>>

CreateAnswerLost(t, c) ==
  /\ task[t].pc = "create" /\ c \notin OnDiscord /\ Spend("faults")
  /\ guild' = [guild EXCEPT ![c] = task[t].ws]
  /\ lost' = [lost EXCEPT ![task[t].ws] = @ + 1]
  /\ Raise(t)
  /\ UNCHANGED <<cached, rows, route, requests>>

GatewayEvent(c) ==
  /\ c \in OnDiscord \ cached
  /\ cached' = cached \cup {c}
  /\ UNCHANGED <<guild, lost, rows, route, requests, task, left>>

-----------------------------------------------------------------------------
(* _finalize_discord_provisioning: inspect again, then bind, route and     *)
(* announce, each with a commit of its own.                                *)
Finalize(t) ==
  LET b == Bindings(task[t].ws) IN
  /\ task[t].pc = "final"
  /\ task' = [task EXCEPT ![t] =
       IF b \subseteq {task[t].ch}
       THEN [@ EXCEPT !.pc = "bindread", !.key = <<task[t].ws, task[t].ch>>]
       ELSE Raised(t)]
  /\ UNCHANGED <<discord, rows, route, requests, left>>

(* A command of an operator, with a fresh key or one that was used before. *)
OperatorStart(t, pc, w, c, k) ==
  /\ t \in Operators /\ task[t].pc = "off" /\ c \in OnDiscord
  /\ Spend("ops")
  /\ task' = [task EXCEPT ![t] =
       [Off EXCEPT !.pc = pc, !.ws = w, !.ch = c, !.key = k]]
  /\ UNCHANGED <<discord, rows, route, requests>>

Event(t, type) == [key |-> task[t].key, type |-> type, ws |-> task[t].ws,
                   ch |-> task[t].ch]

(* What follows a bind: the daemon sets the route, an operator is done.    *)
Bound(t) == IF t \in Daemon THEN [task[t] EXCEPT !.pc = "route"] ELSE Off

AlreadyBound(t) == bound[task[t].ch] = task[t].ws

(* bind_channel_workspace, before its SAVEPOINT: a key that was used is    *)
(* replayed, whatever became of the row since.                             *)
BindRead(t) ==
  /\ task[t].pc = "bindread"
  /\ task' = [task EXCEPT ![t] =
       IF KeyUsed(task[t].key)
       THEN IF Event(t, "bound") \in used THEN Bound(t) ELSE Raised(t)
       ELSE IF AlreadyBound(t) THEN Bound(t)
       ELSE IF bound[task[t].ch] # None THEN Raised(t)
       ELSE [@ EXCEPT !.pc = "bind"]]
  /\ UNCHANGED <<discord, rows, route, requests, left>>

BindFresh(t) == ~KeyUsed(task[t].key) /\ bound[task[t].ch] = None

(* The SAVEPOINT: event and row, or neither.                               *)
BindWrite(t) ==
  LET c == task[t].ch IN
  /\ task[t].pc = "bind"
  /\ IF BindFresh(t)
     THEN /\ used' = used \cup {Event(t, "bound")}
          /\ bound' = [bound EXCEPT ![c] = task[t].ws]
          /\ ledger' = [ledger EXCEPT ![c] = task[t].ws]
     ELSE UNCHANGED rows
  /\ task' = [task EXCEPT ![t] =
       IF BindFresh(t) \/ Event(t, "bound") \in used THEN Bound(t) ELSE Raised(t)]
  /\ UNCHANGED <<discord, route, requests, left>>

(* release_channel_workspace, and its compare-and-delete                   *)
ReleaseRead(t) ==
  /\ task[t].pc = "relread"
  /\ task' = [task EXCEPT ![t] =
       IF ~KeyUsed(task[t].key) /\ bound[task[t].ch] = task[t].ws
       THEN [@ EXCEPT !.pc = "rel"] ELSE Off]
  /\ UNCHANGED <<discord, rows, route, requests, left>>

(* Mutant: the number of deleted rows is not looked at. *)
ReleasableKey(t) == ~KeyUsed(task[t].key)

Releasable(t) == ~KeyUsed(task[t].key) /\ bound[task[t].ch] = task[t].ws

ReleaseWrite(t) ==
  LET c == task[t].ch IN
  /\ task[t].pc = "rel"
  /\ IF Releasable(t)
     THEN /\ used' = used \cup {Event(t, "released")}
          /\ bound' = [bound EXCEPT ![c] = IF @ = task[t].ws THEN None ELSE @]
          /\ ledger' = [ledger EXCEPT ![c] = None]
     ELSE UNCHANGED rows
  /\ task' = [task EXCEPT ![t] = Off]
  /\ UNCHANGED <<discord, route, requests, left>>

(* ensure_discord_delivery_route; the event channel.provisioned follows    *)
(* and the lock is released.                                               *)
SetRoute(t) ==
  /\ task[t].pc = "route"
  /\ route' = [route EXCEPT ![task[t].ws] = task[t].ch]
  /\ task' = [task EXCEPT ![t] =
       IF t \in Loops THEN [@ EXCEPT !.pc = "check"] ELSE Off]
  /\ UNCHANGED <<discord, rows, requests, left>>

-----------------------------------------------------------------------------
(* The loop inspects once more and finishes the request with what it finds.*)
Check(t) ==
  LET b == Bindings(task[t].ws) IN
  /\ task[t].pc = "check"
  /\ task' = [task EXCEPT ![t] =
       IF Cardinality(b) = 1
       THEN [@ EXCEPT !.pc = "finish", !.ch = CHOOSE c \in b : TRUE]
       ELSE Raised(t)]
  /\ UNCHANGED <<discord, rows, route, requests, left>>

(* finish_discord_channel_request: the first terminal event of a request   *)
(* stands, another call only reads it.                                     *)
Finish(t) ==
  /\ task[t].pc = "finish"
  /\ answer' = [answer EXCEPT ![task[t].req] = IF @ = None THEN task[t].ch ELSE @]
  /\ task' = [task EXCEPT ![t] = Back(t)]
  /\ UNCHANGED <<discord, rows, route, asked, left>>

(* The daemon is killed; the next one learns every channel of the guild.   *)
Restart ==
  /\ Spend("faults") /\ \E t \in Daemon : task[t].pc # "off"
  /\ task' = [t \in Tasks |-> IF t \in Daemon THEN Off ELSE task[t]]
  /\ cached' = OnDiscord
  /\ UNCHANGED <<guild, lost, rows, route, requests>>

Advance(t) ==
  \/ LoopList(t) \/ \E r \in Requests : LoopTakes(t, r)
  \/ Acquire(t) \/ Inspect(t) \/ Find(t)
  \/ \E c \in Channels : Create(t, c)
  \/ CreateRefused(t)
  \/ Finalize(t) \/ BindRead(t) \/ BindWrite(t) \/ SetRoute(t)
  \/ Check(t) \/ Finish(t)

Operator(t) ==
  \/ \E w \in Workspaces, c \in Channels, pc \in {"bindread", "relread"},
       k \in {<<"cli", left.ops>>} \cup {e.key : e \in used} :
       OperatorStart(t, pc, w, c, k)
  \/ BindRead(t) \/ BindWrite(t) \/ ReleaseRead(t) \/ ReleaseWrite(t)

Next ==
  \/ \E r \in Requests : RequestChannel(r)
  \/ \E t \in Loops : LoopStart(t)
  \/ \E t \in Commands, w \in Workspaces : CommandStart(t, w)
  \/ \E t \in Daemon : Advance(t) \/ CreateFails(t)
  \/ \E t \in Daemon, c \in Channels : CreateAnswerLost(t, c)
  \/ \E t \in Operators : Operator(t)
  \/ \E c \in Channels : GatewayEvent(c)
  \/ Restart

Spec == Init /\ [][Next]_vars

-----------------------------------------------------------------------------
(* The active rows are what the binding events add up to: no interleaving  *)
(* of binds and releases leaves a row without its event or an event        *)
(* without its effect (event-first and atomic).                            *)
RowsMatchEvents == bound = ledger

Released(w, c) == \E e \in used : e.type = "released" /\ e.ws = w /\ e.ch = c

(* Deliveries of a workspace go to a channel that is bound to it, unless   *)
(* an operator released that channel, whatever crashed or raced between    *)
(* the creation, the bind and the route.                                   *)
RouteIsBound ==
  \A w \in Workspaces : route[w] # None =>
    bound[route[w]] = w \/ Released(w, route[w])

(* A workspace gets one channel, through restarts, reconnects, commands    *)
(* and repeated requests; only a lost answer of Discord adds another.      *)
ChannelOnce == \A w \in Workspaces : Cardinality(Marked(w)) <= 1 + lost[w]

-----------------------------------------------------------------------------
(* on_ready starts a loop after every start of the daemon, a loop runs     *)
(* again after each pump_interval, exceptions included; asyncio runs every *)
(* task that can go on, and its locks are first come, first served.        *)
Fairness ==
  \A t \in Daemon : /\ WF_vars(Advance(t) \/ (t \in Loops /\ LoopStart(t)))
                    /\ SF_vars(Acquire(t))

LiveSpec == Spec /\ Fairness

(* Every recorded request gets its terminal event, a failure included.     *)
RequestAnswered == \A r \in Requests : r \in asked ~> answer[r] # None
=============================================================================
