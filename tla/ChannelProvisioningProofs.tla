---------------------- MODULE ChannelProvisioningProofs ----------------------
(***************************************************************************)
(* Proofs about ChannelProvisioning, for any workspaces, channels, loops,  *)
(* commands and operators: the rows are what their events say, deliveries  *)
(* go to bound channels, and a workspace gets one channel.                 *)
(***************************************************************************)
EXTENDS ChannelProvisioning, FiniteSetTheorems, TLAPS

(* What the locals of a task are at each of its steps. *)
LocalOf(t, x) ==
  /\ x.pc \notin {"off", "loop"} => x.ws \in Workspaces
  /\ x.pc \in {"final", "bindread", "bind", "relread", "rel", "route"} => x.ch \in Channels
  /\ x.pc \in {"bindread", "bind", "relread", "rel"} => x.key \in Keys
  /\ x.pc \in {"relread", "rel"} => t \in Operators
  /\ x.pc \in {"check", "finish", "loop"} => t \in Loops
  /\ x.pc = "finish" => x.ch \in Channels \cup {Failed}
  /\ t \in Loops /\ x.pc \notin {"off", "loop"} => x.req \in Requests
Local(t) == LocalOf(t, task[t])

(* A channel that was bound to a workspace still is, or was released.      *)
Valid(w, c) == bound[c] = w \/ Released(w, c)
BindingsStand ==
  /\ \A e \in used : e.type = "bound" => Valid(e.ws, e.ch)
  /\ \A t \in Daemon : task[t].pc = "route" => Valid(task[t].ws, task[t].ch)

(* One daemon task at a time is inside _provision_discord_channel for a    *)
(* workspace; a marked channel the client does not know had its answer     *)
(* lost; and a task that creates found no channel of its workspace.        *)
LockExcludes ==
  \A t, u \in Daemon :
    task[t].pc \in Held /\ task[u].pc \in Held /\ task[t].ws = task[u].ws => t = u
UnknownWereLost == \A w \in Workspaces : Cardinality(Marked(w) \ cached) <= lost[w]
CreatorFoundNone ==
  \A t \in Daemon : task[t].pc = "create" => Cardinality(Marked(task[t].ws)) <= lost[task[t].ws]

IInv ==
  /\ TypeOK /\ \A t \in Tasks : Local(t)
  /\ RowsMatchEvents /\ BindingsStand /\ RouteIsBound
  /\ LockExcludes /\ UnknownWereLost /\ CreatorFoundNone /\ ChannelOnce

------------------------------------------------------------------------------
(* Types and locals. *)

(* A task moves on, the others stay. *)
LEMMA TaskMoves ==
  ASSUME TypeOK, \A u \in Tasks : Local(u), NEW t \in Tasks, NEW x \in Task, LocalOf(t, x),
         task' = [task EXCEPT ![t] = x]
  PROVE  /\ task' \in [Tasks -> Task] /\ task'[t] = x
         /\ \A u \in Tasks \ {t} : task'[u] = task[u]
         /\ \A u \in Tasks : Local(u)'
<1>1. task' \in [Tasks -> Task] /\ task'[t] = x /\ \A u \in Tasks \ {t} : task'[u] = task[u]
  BY DEF TypeOK
<1>2. \A u \in Tasks : LocalOf(u, task'[u]) BY <1>1 DEF Local
<1>3. \A u \in Tasks : Local(u)' BY <1>2 DEF Local, LocalOf
<1> QED BY <1>1, <1>3

(* The places a task can be sent to. *)
LEMMA OffIs == Off \in Task /\ \A t : LocalOf(t, Off)
BY DEF Off, Task, Steps, LocalOf

LEMMA BackIs ==
  ASSUME TypeOK, NEW t \in Loops
  PROVE  Back(t) \in Task /\ LocalOf(t, Back(t)) /\ Back(t).pc = "loop"
<1>1. task[t] \in Task BY DEF TypeOK, Tasks, Daemon
<1> QED BY <1>1 DEF Back, Off, Task, Steps, LocalOf

LEMMA RaisedIs ==
  ASSUME TypeOK, NEW t \in Tasks, Local(t), task[t].pc \notin {"off", "loop"}
  PROVE  /\ Raised(t) \in Task /\ LocalOf(t, Raised(t)) /\ Raised(t).pc \in {"finish", "off"}
<1>1. task[t] \in Task BY DEF TypeOK
<1>2. CASE t \in Loops
  <2>1. Raised(t) = [task[t] EXCEPT !.pc = "finish", !.ch = Failed] BY <1>2 DEF Raised
  <2> QED BY <1>1, <1>2, <2>1 DEF Task, Steps, Local, LocalOf
<1>3. CASE t \notin Loops BY <1>3, OffIs DEF Raised, Off
<1> QED BY <1>2, <1>3

------------------------------------------------------------------------------
(* What a step of one task has to show. *)

(* Entering or keeping the workspace's lock. *)
Alone(t, w) == \A u \in Daemon \ {t} : task[u].pc \in Held => task[u].ws # w

(* A task moves to x; rows, route and channels stay. *)
LEMMA MoveKeeps ==
  ASSUME IInv, NEW t \in Tasks, NEW x \in Task, LocalOf(t, x),
         task' = [task EXCEPT ![t] = x], UNCHANGED <<discord, rows, route>>,
         asked' \subseteq Requests, answer' \in [Requests -> Channels \cup {None, Failed}],
         left' \in [faults : Nat, ops : Nat, commands : Nat],
         t \in Daemon /\ x.pc = "route" => Valid(x.ws, x.ch),
         t \in Daemon /\ x.pc \in Held => Alone(t, x.ws),
         t \in Daemon /\ x.pc = "create" => Cardinality(Marked(x.ws)) <= lost[x.ws]
  PROVE  IInv'
<1>1. /\ TypeOK /\ RowsMatchEvents /\ BindingsStand /\ RouteIsBound /\ LockExcludes
      /\ UnknownWereLost /\ CreatorFoundNone /\ ChannelOnce
      /\ \A u \in Tasks : Local(u)
  BY DEF IInv
<1>2. /\ task' \in [Tasks -> Task] /\ task'[t] = x
      /\ \A u \in Tasks \ {t} : task'[u] = task[u]
      /\ \A u \in Tasks : Local(u)'
  BY <1>1, TaskMoves
<1>3. UNCHANGED <<guild, cached, lost, bound, used, ledger, route>> BY DEF discord, rows
<1>4. TypeOK' BY <1>1, <1>2, <1>3 DEF TypeOK
<1>5. Daemon \subseteq Tasks BY DEF Tasks
<1>6. \A w, c : Valid(w, c)' <=> Valid(w, c) BY <1>3 DEF Valid, Released
<1>7. BindingsStand' BY <1>1, <1>2, <1>3, <1>5, <1>6 DEF BindingsStand
<1>8. LockExcludes' BY <1>1, <1>2, <1>5 DEF LockExcludes, Alone
<1>9. CreatorFoundNone'
  <2>1. \A w : Marked(w)' = Marked(w) BY <1>3 DEF Marked
  <2> QED BY <1>1, <1>2, <1>3, <1>5, <2>1 DEF CreatorFoundNone
<1>10. RowsMatchEvents' /\ RouteIsBound' /\ UnknownWereLost' /\ ChannelOnce'
  BY <1>1, <1>3 DEF RowsMatchEvents, RouteIsBound, Released, UnknownWereLost, ChannelOnce, Marked
<1> QED BY <1>2, <1>4, <1>7, <1>8, <1>9, <1>10 DEF IInv

(* A task that holds the lock is alone with its workspace. *)
LEMMA HolderAlone ==
  ASSUME IInv, NEW t \in Daemon, task[t].pc \in Held
  PROVE  Alone(t, task[t].ws)
BY DEF IInv, LockExcludes, Alone

(* What a move leaves of the budget and the requests. *)
LEMMA Bookkeeping ==
  ASSUME TypeOK
  PROVE  /\ asked \subseteq Requests /\ answer \in [Requests -> Channels \cup {None, Failed}]
         /\ left \in [faults : Nat, ops : Nat, commands : Nat]
         /\ \A kind \in {"faults", "ops", "commands"} :
              Spend(kind) => left' \in [faults : Nat, ops : Nat, commands : Nat]
         /\ Daemon \subseteq Tasks /\ Loops \subseteq Daemon /\ Commands \subseteq Daemon
         /\ Operators \subseteq Tasks /\ Daemon \cap Operators = {}
BY ChannelAssumption DEF TypeOK, Spend, Tasks, Daemon

------------------------------------------------------------------------------
(* One lemma per group of operations. *)

(* A request is recorded. *)
LEMMA RequestKeeps == ASSUME IInv, NEW r \in Requests, RequestChannel(r) PROVE IInv'
<1>1. /\ asked' \subseteq Requests
      /\ UNCHANGED <<guild, cached, lost, bound, used, ledger, route, answer, task, left>>
  BY DEF IInv, TypeOK, RequestChannel, discord, rows
<1>2. TypeOK' /\ \A u \in Tasks : Local(u)' BY <1>1 DEF IInv, TypeOK, Local, LocalOf
<1>3. BindingsStand' /\ RouteIsBound' /\ RowsMatchEvents'
  BY <1>1 DEF IInv, BindingsStand, Valid, RouteIsBound, Released, RowsMatchEvents
<1>4. LockExcludes' /\ UnknownWereLost' /\ CreatorFoundNone' /\ ChannelOnce'
  BY <1>1 DEF IInv, LockExcludes, UnknownWereLost, CreatorFoundNone, ChannelOnce, Marked
<1> QED BY <1>2, <1>3, <1>4 DEF IInv

(* Loops and commands on their way to the lock. *)
LEMMA StartKeeps ==
  ASSUME IInv, NEW t \in Daemon,
         \/ LoopStart(t) \/ LoopList(t) \/ \E r \in Requests : LoopTakes(t, r)
         \/ \E w \in Workspaces : CommandStart(t, w)
  PROVE  IInv'
<1> USE Bookkeeping
<1>1. TypeOK /\ t \in Tasks /\ task[t] \in Task /\ Local(t) BY DEF IInv, TypeOK, Tasks
<1>2. CASE LoopStart(t)
  <2> DEFINE x == [task[t] EXCEPT !.pc = "loop"]
  <2>1. task' = [task EXCEPT ![t] = x] BY <1>1, <1>2 DEF LoopStart, Goto
  <2>2. x \in Task /\ LocalOf(t, x) /\ x.pc = "loop" BY <1>1, <1>2 DEF Task, Steps, LocalOf, LoopStart
  <2> QED BY <1>1, <1>2, <2>1, <2>2, MoveKeeps DEF LoopStart, requests, Held
<1>3. CASE LoopList(t)
  <2> DEFINE x == [task[t] EXCEPT !.todo = Pending]
  <2>1. task' = [task EXCEPT ![t] = x] BY <1>1, <1>3 DEF LoopList
  <2>2. Pending \subseteq Requests BY <1>1 DEF Pending
  <2>3. x \in Task /\ LocalOf(t, x) /\ x.pc = "loop"
    BY <1>1, <1>3, <2>2 DEF Task, Steps, Local, LocalOf, LoopList
  <2> QED BY <1>1, <1>3, <2>1, <2>3, MoveKeeps DEF LoopList, requests, Held
<1>4. ASSUME NEW r \in Requests, LoopTakes(t, r) PROVE IInv'
  <2> DEFINE x == [Off EXCEPT !.pc = "lock", !.ws = RequestWs[r], !.req = r,
                              !.todo = @ \cup (task[t].todo \ {r})]
  <2>1. task' = [task EXCEPT ![t] = x] BY <1>4 DEF LoopTakes
  <2>2. RequestWs[r] \in Workspaces BY ChannelAssumption
  <2>3. x \in Task /\ LocalOf(t, x) /\ x.pc = "lock"
    BY <1>1, <2>2 DEF Task, Steps, Off, LocalOf
  <2> QED BY <1>1, <1>4, <2>1, <2>3, MoveKeeps DEF LoopTakes, requests, Held
<1>5. ASSUME NEW w \in Workspaces, CommandStart(t, w) PROVE IInv'
  <2> DEFINE x == [Off EXCEPT !.pc = "lock", !.ws = w]
  <2>1. task' = [task EXCEPT ![t] = x] /\ t \in Commands BY <1>5 DEF CommandStart
  <2>2. t \notin Loops BY <2>1, ChannelAssumption
  <2>3. x \in Task /\ LocalOf(t, x) /\ x.pc = "lock"
    BY <2>2 DEF Task, Steps, Off, LocalOf
  <2> QED BY <1>1, <1>5, <2>1, <2>3, MoveKeeps DEF CommandStart, requests, Held
<1> QED BY <1>2, <1>3, <1>4, <1>5

(* Inside the lock, up to the creation. *)
LEMMA LookKeeps ==
  ASSUME IInv, NEW t \in Daemon,
         Acquire(t) \/ Inspect(t) \/ Find(t) \/ CreateRefused(t) \/ CreateFails(t)
  PROVE  IInv'
<1> USE Bookkeeping
<1>1. TypeOK /\ t \in Tasks /\ task[t] \in Task /\ Local(t) BY DEF IInv, TypeOK, Tasks
<1>2. CASE Acquire(t)
  <2> DEFINE x == [task[t] EXCEPT !.pc = "inspect"]
  <2>1. task' = [task EXCEPT ![t] = x] BY <1>1, <1>2 DEF Acquire, Goto
  <2>2. x \in Task /\ LocalOf(t, x) /\ x.pc = "inspect" /\ x.ws = task[t].ws
    BY <1>1, <1>2 DEF Task, Steps, Local, LocalOf, Acquire
  <2>3. Alone(t, x.ws) BY <1>2, <2>2 DEF Acquire, LockFree, Alone
  <2> QED BY <1>1, <1>2, <2>1, <2>2, <2>3, MoveKeeps DEF Acquire, requests
<1>3. CASE Inspect(t)
  <2>1. task[t].pc = "inspect" /\ Alone(t, task[t].ws) BY <1>3, HolderAlone DEF Inspect, Held
  <2>2. PICK x : /\ task' = [task EXCEPT ![t] = x]
                 /\ \/ x = Raised(t)
                    \/ x = [task[t] EXCEPT !.pc = "find"]
                    \/ \E c \in Bindings(task[t].ws) :
                         x = [task[t] EXCEPT !.pc = "final", !.ch = c]
    BY <1>3 DEF Inspect
  <2>3. Raised(t) \in Task /\ LocalOf(t, Raised(t)) /\ Raised(t).pc \in {"finish", "off"}
    BY <1>1, <2>1, RaisedIs
  <2>4. /\ x \in Task /\ LocalOf(t, x) /\ x.pc \in {"finish", "off", "find", "final"}
        /\ x.pc \in Held => x.ws = task[t].ws
    <3>1. CASE x = Raised(t) BY <2>3, <3>1 DEF Held
    <3>2. CASE x = [task[t] EXCEPT !.pc = "find"]
      BY <1>1, <2>1, <3>2 DEF Task, Steps, Local, LocalOf
    <3>3. CASE \E c \in Bindings(task[t].ws) : x = [task[t] EXCEPT !.pc = "final", !.ch = c]
      <4>1. PICK c \in Channels : x = [task[t] EXCEPT !.pc = "final", !.ch = c]
        BY <3>3 DEF Bindings
      <4> QED BY <1>1, <2>1, <4>1 DEF Task, Steps, Local, LocalOf
    <3> QED BY <2>2, <3>1, <3>2, <3>3
  <2> QED BY <1>1, <1>3, <2>1, <2>2, <2>4, MoveKeeps DEF Inspect, requests
<1>4. CASE Find(t)
  <2> DEFINE w == task[t].ws
  <2>1. task[t].pc = "find" /\ Alone(t, w) BY <1>4, HolderAlone DEF Find, Held
  <2>2. PICK x : /\ task' = [task EXCEPT ![t] = x]
                 /\ \/ x = Raised(t)
                    \/ Marked(w) \cap cached = {} /\ x = [task[t] EXCEPT !.pc = "create"]
                    \/ \E c \in Marked(w) : x = [task[t] EXCEPT !.pc = "final", !.ch = c]
    BY <1>4 DEF Find
  <2>3. Raised(t) \in Task /\ LocalOf(t, Raised(t)) /\ Raised(t).pc \in {"finish", "off"}
    BY <1>1, <2>1, RaisedIs
  <2>4. /\ x \in Task /\ LocalOf(t, x) /\ x.pc \in {"finish", "off", "create", "final"}
        /\ x.pc \in Held => x.ws = w
    <3>1. CASE x = Raised(t) BY <2>3, <3>1 DEF Held
    <3>2. CASE x = [task[t] EXCEPT !.pc = "create"]
      BY <1>1, <2>1, <3>2 DEF Task, Steps, Local, LocalOf
    <3>3. CASE \E c \in Marked(w) : x = [task[t] EXCEPT !.pc = "final", !.ch = c]
      <4>1. PICK c \in Channels : x = [task[t] EXCEPT !.pc = "final", !.ch = c]
        BY <3>3 DEF Marked
      <4> QED BY <1>1, <2>1, <4>1 DEF Task, Steps, Local, LocalOf
    <3> QED BY <2>2, <3>1, <3>2, <3>3
  <2>5. ASSUME x.pc = "create" PROVE Cardinality(Marked(w)) <= lost[w]
    <3>1. Marked(w) \cap cached = {} BY <1>1, <2>2, <2>3, <2>5 DEF Task
    <3>2. Marked(w) \ cached = Marked(w) BY <3>1
    <3>3. w \in Workspaces BY <1>1, <2>1 DEF Local, LocalOf
    <3> QED BY <3>2, <3>3 DEF IInv, UnknownWereLost
  <2>6. x.pc = "create" => Cardinality(Marked(x.ws)) <= lost[x.ws]
    BY <2>4, <2>5 DEF Held
  <2> QED BY <1>1, <1>4, <2>1, <2>2, <2>4, <2>6, MoveKeeps DEF Find, requests
<1>5. CASE CreateRefused(t) \/ CreateFails(t)
  <2>1. task[t].pc = "create" /\ task' = [task EXCEPT ![t] = Raised(t)]
    BY <1>5 DEF CreateRefused, CreateFails, Raise
  <2>2. Raised(t) \in Task /\ LocalOf(t, Raised(t)) /\ Raised(t).pc \in {"finish", "off"}
    BY <1>1, <2>1, RaisedIs
  <2>3. /\ UNCHANGED <<discord, rows, route, requests>>
        /\ left' \in [faults : Nat, ops : Nat, commands : Nat]
    BY <1>1, <1>5 DEF CreateRefused, CreateFails
  <2> QED BY <1>1, <2>1, <2>2, <2>3, MoveKeeps DEF requests, Held
<1> QED BY <1>2, <1>3, <1>4, <1>5

(* What follows a bind: the route of a binding that stands. *)
LEMMA BoundIs ==
  ASSUME IInv, NEW t \in Tasks, task[t].pc \in {"bindread", "bind"}
  PROVE  /\ Bound(t) \in Task /\ LocalOf(t, Bound(t))
         /\ t \in Daemon => Bound(t) = [task[t] EXCEPT !.pc = "route"]
         /\ t \notin Daemon => Bound(t) = Off
         /\ t \in Daemon => Bound(t).pc = "route" /\ Bound(t).ws = task[t].ws /\ Bound(t).ch = task[t].ch
<1>1. task[t] \in Task /\ LocalOf(t, task[t]) BY DEF IInv, TypeOK, Local
<1>2. CASE t \in Daemon
  <2>1. Bound(t) = [task[t] EXCEPT !.pc = "route"] BY <1>2 DEF Bound
  <2> QED BY <1>1, <1>2, <2>1 DEF Task, Steps, LocalOf
<1>3. CASE t \notin Daemon BY <1>3, OffIs DEF Bound
<1> QED BY <1>2, <1>3

(* The reads around a bind and a release, and the answer of a request. *)
LEMMA ReadsKeep ==
  ASSUME IInv, NEW t \in Tasks,
         \/ t \in Daemon /\ (Finalize(t) \/ Check(t) \/ Finish(t))
         \/ BindRead(t)
         \/ t \in Operators /\ ReleaseRead(t)
  PROVE  IInv'
<1> USE Bookkeeping
<1>1. TypeOK /\ task[t] \in Task /\ Local(t) BY DEF IInv, TypeOK
<1> DEFINE R == Raised(t)
<1>2. task[t].pc \notin {"off", "loop"} =>
        R \in Task /\ LocalOf(t, R) /\ R.pc \in {"finish", "off"}
  BY <1>1, RaisedIs
<1> HIDE DEF R
<1>3. CASE t \in Daemon /\ Finalize(t)
  <2> DEFINE x == [task[t] EXCEPT !.pc = "bindread", !.key = <<task[t].ws, task[t].ch>>]
  <2>1. /\ task[t].pc = "final" /\ Alone(t, task[t].ws)
        /\ task' = [task EXCEPT ![t] = x] \/ task' = [task EXCEPT ![t] = R]
    BY <1>3, HolderAlone DEF Finalize, Held, R
  <2>2. /\ x \in Task /\ LocalOf(t, x) /\ x.pc = "bindread" /\ x.ws = task[t].ws
    BY <1>1, <1>3, <2>1 DEF Task, Steps, Local, LocalOf, Keys
  <2>3. CASE task' = [task EXCEPT ![t] = x]
    BY <1>1, <1>3, <2>1, <2>2, <2>3, MoveKeeps DEF Finalize, requests
  <2>4. CASE task' = [task EXCEPT ![t] = R]
    BY <1>1, <1>2, <1>3, <2>1, <2>4, MoveKeeps DEF Finalize, requests, Held
  <2> QED BY <2>1, <2>3, <2>4
<1>4. CASE t \in Daemon /\ Check(t)
  <2>1. task[t].pc = "check" BY <1>4 DEF Check
  <2>2. PICK x : /\ task' = [task EXCEPT ![t] = x]
                 /\ \/ x = R
                    \/ \E c \in Bindings(task[t].ws) : x = [task[t] EXCEPT !.pc = "finish", !.ch = c]
    <3>1. \A S : IsFiniteSet(S) /\ Cardinality(S) = 1 => S # {} BY FS_EmptySet
    <3>2. IsFiniteSet(Bindings(task[t].ws)) BY ChannelAssumption, FS_Subset DEF Bindings
    <3> QED BY <1>4, <3>1, <3>2 DEF Check, R
  <2>3. x \in Task /\ LocalOf(t, x) /\ x.pc \in {"finish", "off"}
    BY <1>1, <1>2, <2>1, <2>2 DEF Task, Steps, Local, LocalOf, Bindings
  <2> QED BY <1>1, <1>4, <2>2, <2>3, MoveKeeps DEF Check, requests, Held
<1>5. CASE t \in Daemon /\ Finish(t)
  <2>1. task[t].pc = "finish" /\ t \in Loops BY <1>1, <1>5 DEF Finish, Local, LocalOf
  <2>2. task' = [task EXCEPT ![t] = Back(t)] BY <1>5 DEF Finish
  <2>3. Back(t) \in Task /\ LocalOf(t, Back(t)) /\ Back(t).pc = "loop" BY <1>1, <2>1, BackIs
  <2>4. answer' \in [Requests -> Channels \cup {None, Failed}]
    BY <1>1, <1>5, <2>1 DEF Finish, Local, LocalOf
  <2> QED BY <1>1, <1>5, <2>2, <2>3, <2>4, MoveKeeps DEF Finish, Held
<1>6. CASE BindRead(t)
  <2>1. task[t].pc = "bindread" /\ (t \in Daemon => Alone(t, task[t].ws))
    BY <1>6, HolderAlone DEF BindRead, Held
  <2> DEFINE x == [task[t] EXCEPT !.pc = "bind"]
             Stands == Event(t, "bound") \in used \/ AlreadyBound(t)
  <2>2. \/ task' = [task EXCEPT ![t] = R] \/ task' = [task EXCEPT ![t] = x]
        \/ Stands /\ task' = [task EXCEPT ![t] = Bound(t)]
    BY <1>6 DEF BindRead, R
  <2>3. x \in Task /\ LocalOf(t, x) /\ x.pc = "bind" /\ x.ws = task[t].ws
    BY <1>1, <2>1 DEF Task, Steps, Local, LocalOf
  <2>4. CASE task' = [task EXCEPT ![t] = x]
    BY <1>1, <1>6, <2>1, <2>3, <2>4, MoveKeeps DEF BindRead, requests
  <2>5. CASE task' = [task EXCEPT ![t] = R]
    BY <1>1, <1>2, <1>6, <2>1, <2>5, MoveKeeps DEF BindRead, requests, Held
  <2>6. CASE Stands /\ task' = [task EXCEPT ![t] = Bound(t)]
    <3>1. Stands => Valid(task[t].ws, task[t].ch)
      BY DEF IInv, BindingsStand, Valid, AlreadyBound, Event
    <3>2. t \notin Daemon => Bound(t) = Off BY <2>1, BoundIs
    <3>3. /\ Bound(t) \in Task /\ LocalOf(t, Bound(t))
          /\ t \in Daemon => Bound(t).pc = "route" /\ Bound(t).ws = task[t].ws /\ Bound(t).ch = task[t].ch
      BY <2>1, BoundIs
    <3> QED BY <1>1, <1>6, <2>1, <2>6, <3>1, <3>3, MoveKeeps DEF BindRead, requests
  <2> QED BY <2>2, <2>4, <2>5, <2>6
<1>7. CASE t \in Operators /\ ReleaseRead(t)
  <2> DEFINE x == [task[t] EXCEPT !.pc = "rel"]
  <2>1. /\ task[t].pc = "relread"
        /\ task' = [task EXCEPT ![t] = x] \/ task' = [task EXCEPT ![t] = Off]
    BY <1>7 DEF ReleaseRead
  <2>2. x \in Task /\ LocalOf(t, x) BY <1>1, <1>7, <2>1 DEF Task, Steps, Local, LocalOf
  <2>3. CASE task' = [task EXCEPT ![t] = x]
    BY <1>1, <1>7, <2>2, <2>3, MoveKeeps DEF ReleaseRead, requests
  <2>4. CASE task' = [task EXCEPT ![t] = Off]
    BY <1>1, <1>7, <2>4, OffIs, MoveKeeps DEF ReleaseRead, requests
  <2> QED BY <2>1, <2>3, <2>4
<1> QED BY <1>3, <1>4, <1>5, <1>6, <1>7

(* A command of an operator, under a key of its own or a used one. *)
LEMMA OperatorKeeps ==
  ASSUME IInv, NEW t \in Operators, NEW w \in Workspaces, NEW c \in Channels,
         NEW pc \in {"bindread", "relread"}, NEW k \in {<<"cli", left.ops>>} \cup {e.key : e \in used},
         OperatorStart(t, pc, w, c, k)
  PROVE  IInv'
<1> USE Bookkeeping
<1>1. TypeOK BY DEF IInv
<1>2. left.ops \in Nat BY <1>1
<1>3. k \in Keys
  <2>1. \A e \in used : e.key \in Keys BY <1>1 DEF TypeOK, BindingEvent
  <2> QED BY <1>2, <2>1 DEF Keys
<1> DEFINE x == [Off EXCEPT !.pc = pc, !.ws = w, !.ch = c, !.key = k]
<1>4. task' = [task EXCEPT ![t] = x] BY DEF OperatorStart
<1>5. x \in Task /\ LocalOf(t, x) BY <1>3, ChannelAssumption DEF Off, Task, Steps, LocalOf, Daemon
<1> QED BY <1>1, <1>4, <1>5, MoveKeeps DEF OperatorStart, requests

(* A step of one task that changes the rows or the route, and nothing on   *)
(* Discord: what such a step has to show.                                  *)
ValidIn(rs, es, w, c) ==
  rs[c] = w \/ \E e \in es : e.type = "released" /\ e.ws = w /\ e.ch = c

LEMMA RowsKeep ==
  ASSUME IInv, NEW t \in Tasks, NEW x \in Task, LocalOf(t, x),
         task' = [task EXCEPT ![t] = x], UNCHANGED <<discord, requests, left>>,
         bound' \in [Channels -> Workspaces \cup {None}], ledger' = bound',
         used' \subseteq BindingEvent,
         route' \in [Workspaces -> Channels \cup {None}],
         \A w \in Workspaces, c \in Channels : Valid(w, c) => ValidIn(bound', used', w, c),
         \A e \in used' \ used : e.type = "bound" => ValidIn(bound', used', e.ws, e.ch),
         \A w \in Workspaces :
           route'[w] = route[w] \/ ValidIn(bound', used', w, route'[w]),
         t \in Daemon /\ x.pc = "route" => ValidIn(bound', used', x.ws, x.ch),
         t \in Daemon /\ x.pc \in Held => Alone(t, x.ws), x.pc # "create"
  PROVE  IInv'
<1>1. /\ TypeOK /\ BindingsStand /\ RouteIsBound /\ LockExcludes
      /\ UnknownWereLost /\ CreatorFoundNone /\ ChannelOnce
      /\ \A u \in Tasks : Local(u)
  BY DEF IInv
<1>2. /\ task' \in [Tasks -> Task] /\ task'[t] = x
      /\ \A u \in Tasks \ {t} : task'[u] = task[u]
      /\ \A u \in Tasks : Local(u)'
  BY <1>1, TaskMoves
<1>3. UNCHANGED <<guild, cached, lost, asked, answer, left>> BY DEF discord, requests
<1>4. TypeOK' BY <1>1, <1>2, <1>3 DEF TypeOK
<1>5. Daemon \subseteq Tasks BY DEF Tasks
<1>6. BindingsStand'
  <2>1. \A e \in used : e.ws \in Workspaces /\ e.ch \in Channels
    BY <1>1 DEF TypeOK, BindingEvent
  <2>2. \A e \in used' : e.type = "bound" => ValidIn(bound', used', e.ws, e.ch)
    BY <1>1, <2>1 DEF BindingsStand
  <2>3. ASSUME NEW u \in Daemon, u # t, task[u].pc = "route"
        PROVE  ValidIn(bound', used', task[u].ws, task[u].ch)
    <3>1. /\ task[u].ws \in Workspaces /\ task[u].ch \in Channels
          /\ Valid(task[u].ws, task[u].ch)
      BY <1>1, <1>5, <2>3 DEF Local, LocalOf, BindingsStand
    <3> QED BY <3>1
  <2>4. ASSUME NEW u \in Daemon, task'[u].pc = "route"
        PROVE  ValidIn(bound', used', task'[u].ws, task'[u].ch)
    <3>1. CASE u = t BY <1>2, <2>4, <3>1
    <3>2. CASE u # t
      <4>1. task'[u] = task[u] BY <1>2, <1>5, <3>2
      <4> QED BY <2>3, <2>4, <3>2, <4>1
    <3> QED BY <3>1, <3>2
  <2> QED BY <2>2, <2>4 DEF BindingsStand, Valid, Released, ValidIn
<1>7. RouteIsBound'
  <2>1. ASSUME NEW w \in Workspaces, route'[w] # None
        PROVE  ValidIn(bound', used', w, route'[w])
    <3>1. CASE route'[w] = route[w]
      <4>1. route[w] \in Channels /\ Valid(w, route[w])
        BY <1>1, <2>1, <3>1 DEF TypeOK, RouteIsBound, Valid
      <4> QED BY <3>1, <4>1
    <3> QED BY <3>1
  <2> QED BY <2>1 DEF RouteIsBound, Released, ValidIn
<1>8. LockExcludes' BY <1>1, <1>2, <1>5 DEF LockExcludes, Alone
<1>9. CreatorFoundNone' /\ UnknownWereLost' /\ ChannelOnce'
  <2>1. \A w : Marked(w)' = Marked(w) BY <1>3 DEF Marked
  <2> QED BY <1>1, <1>2, <1>3, <1>5, <2>1 DEF CreatorFoundNone, UnknownWereLost, ChannelOnce
<1> QED BY <1>2, <1>4, <1>6, <1>7, <1>8, <1>9 DEF IInv, RowsMatchEvents

(* The rows of a bind and of a release, and the route. *)
LEMMA WritesKeep ==
  ASSUME IInv, NEW t \in Tasks,
         \/ BindWrite(t)
         \/ t \in Operators /\ ReleaseWrite(t)
         \/ t \in Daemon /\ SetRoute(t)
  PROVE  IInv'
<1> USE Bookkeeping
<1>1. /\ TypeOK /\ task[t] \in Task /\ Local(t) /\ ledger = bound
      /\ \A w \in Workspaces, c \in Channels : Valid(w, c) <=> ValidIn(bound, used, w, c)
  BY DEF IInv, TypeOK, RowsMatchEvents, Valid, ValidIn, Released
<1>2. /\ bound \in [Channels -> Workspaces \cup {None}] /\ used \subseteq BindingEvent
      /\ route \in [Workspaces -> Channels \cup {None}] /\ None \notin Workspaces
      /\ \A e \in used : e.type = "bound" => e.ws \in Workspaces /\ e.ch \in Channels
                                           /\ ValidIn(bound, used, e.ws, e.ch)
  BY <1>1, ChannelAssumption DEF TypeOK, BindingEvent, IInv, BindingsStand
<1> DEFINE w == task[t].ws
           c == task[t].ch
<1>3. CASE BindWrite(t)
  <2>1. /\ task[t].pc = "bind" /\ w \in Workspaces /\ c \in Channels
        /\ task[t].key \in Keys /\ (t \in Daemon => Alone(t, w))
    BY <1>1, <1>3, HolderAlone DEF BindWrite, Local, LocalOf, Held
  <2>2. /\ Bound(t) \in Task /\ LocalOf(t, Bound(t)) /\ Bound(t).pc # "create"
        /\ t \in Daemon => Bound(t).ws = w /\ Bound(t).ch = c
        /\ t \notin Daemon => Bound(t) = Off
    BY <2>1, BoundIs DEF Off
  <2>3. Raised(t) \in Task /\ LocalOf(t, Raised(t)) /\ Raised(t).pc \in {"finish", "off"}
    BY <1>1, <2>1, RaisedIs
  <2>4. CASE BindFresh(t)
    <3> DEFINE e == Event(t, "bound")
    <3>1. /\ used' = used \cup {e} /\ bound' = [bound EXCEPT ![c] = w] /\ ledger' = bound'
          /\ task' = [task EXCEPT ![t] = Bound(t)] /\ bound[c] = None
      BY <1>1, <1>3, <2>4 DEF BindWrite, BindFresh
    <3>2. e \in BindingEvent /\ e.ws = w /\ e.ch = c BY <2>1 DEF Event, BindingEvent
    <3>3. used' \subseteq BindingEvent /\ bound' \in [Channels -> Workspaces \cup {None}]
      BY <1>2, <2>1, <3>1, <3>2
    <3>4. ValidIn(bound', used', w, c) BY <1>2, <2>1, <3>1 DEF ValidIn
    <3>5. \A v \in Workspaces, d \in Channels : Valid(v, d) => ValidIn(bound', used', v, d)
      BY <1>1, <1>2, <2>1, <3>1 DEF ValidIn
    <3>6. \A f \in used' \ used : f.type = "bound" => ValidIn(bound', used', f.ws, f.ch)
      BY <3>1, <3>2, <3>4
    <3> HIDE DEF e
    <3>7. UNCHANGED <<discord, requests, left, route>> BY <1>3 DEF BindWrite
    <3> QED BY <1>2, <2>1, <2>2, <3>1, <3>3, <3>4, <3>5, <3>6, <3>7, RowsKeep
  <2>5. CASE ~BindFresh(t)
    <3>1. /\ UNCHANGED rows
          /\ \/ task' = [task EXCEPT ![t] = Raised(t)]
             \/ Event(t, "bound") \in used /\ task' = [task EXCEPT ![t] = Bound(t)]
      BY <1>3, <2>5 DEF BindWrite
    <3>2. Event(t, "bound") \in used => Valid(w, c)
      BY DEF IInv, BindingsStand, Event
    <3>3. UNCHANGED <<discord, requests, left, route>> BY <1>3 DEF BindWrite
    <3>4. CASE task' = [task EXCEPT ![t] = Raised(t)]
      BY <1>1, <2>3, <3>1, <3>3, <3>4, MoveKeeps DEF requests, Held
    <3>5. CASE Event(t, "bound") \in used /\ task' = [task EXCEPT ![t] = Bound(t)]
      BY <1>1, <2>1, <2>2, <3>1, <3>2, <3>3, <3>5, MoveKeeps DEF requests
    <3> QED BY <3>1, <3>4, <3>5
  <2> QED BY <2>4, <2>5
<1>4. CASE t \in Operators /\ ReleaseWrite(t)
  <2>1. /\ task[t].pc = "rel" /\ w \in Workspaces /\ c \in Channels
        /\ task[t].key \in Keys /\ t \notin Daemon
        /\ task' = [task EXCEPT ![t] = Off]
    BY <1>1, <1>4 DEF ReleaseWrite, Local, LocalOf
  <2>2. UNCHANGED <<discord, requests, left, route>> BY <1>4 DEF ReleaseWrite
  <2>3. CASE Releasable(t)
    <3> DEFINE e == Event(t, "released")
    <3>1. /\ used' = used \cup {e} /\ bound' = [bound EXCEPT ![c] = None]
          /\ ledger' = bound' /\ bound[c] = w
      BY <1>1, <1>4, <2>3 DEF ReleaseWrite, Releasable
    <3>2. e \in BindingEvent /\ e.ws = w /\ e.ch = c /\ e.type = "released"
      BY <2>1 DEF Event, BindingEvent
    <3>3. used' \subseteq BindingEvent /\ bound' \in [Channels -> Workspaces \cup {None}]
      BY <1>2, <2>1, <3>1, <3>2
    <3>4. \A v \in Workspaces, d \in Channels : Valid(v, d) => ValidIn(bound', used', v, d)
      BY <1>1, <1>2, <2>1, <3>1, <3>2 DEF ValidIn
    <3>5. \A f \in used' \ used : f.type # "bound" BY <3>1, <3>2
    <3> HIDE DEF e
    <3> QED BY <1>2, <2>1, <2>2, <3>1, <3>3, <3>4, <3>5, OffIs, RowsKeep DEF Off
  <2>4. CASE ~Releasable(t)
    <3>1. UNCHANGED rows BY <1>4, <2>4 DEF ReleaseWrite
    <3> QED BY <1>1, <2>1, <2>2, <3>1, OffIs, MoveKeeps DEF requests, Off
  <2> QED BY <2>3, <2>4
<1>5. CASE t \in Daemon /\ SetRoute(t)
  <2>1. /\ task[t].pc = "route" /\ w \in Workspaces /\ c \in Channels /\ Valid(w, c)
        /\ route' = [route EXCEPT ![w] = c]
        /\ UNCHANGED <<discord, rows, requests, left>>
    BY <1>1, <1>5 DEF SetRoute, Local, LocalOf, IInv, BindingsStand
  <2> DEFINE x == [task[t] EXCEPT !.pc = "check"]
  <2>2. x \in Task /\ (t \in Loops => LocalOf(t, x)) /\ x.pc = "check"
    BY <1>1, <2>1 DEF Task, Steps, Local, LocalOf
  <2>3. PICK y \in Task : /\ task' = [task EXCEPT ![t] = y] /\ LocalOf(t, y)
                          /\ y.pc \in {"check", "off"}
    BY <1>5, <2>2, OffIs DEF SetRoute, Off
  <2>4. UNCHANGED <<bound, used, ledger>> BY <2>1 DEF rows
  <2>5. \A v \in Workspaces : route'[v] = route[v] \/ ValidIn(bound', used', v, route'[v])
    BY <1>1, <1>2, <2>1, <2>4
  <2>6. route' \in [Workspaces -> Channels \cup {None}] BY <1>2, <2>1
  <2>7. \A v \in Workspaces, d \in Channels : Valid(v, d) => ValidIn(bound', used', v, d)
    BY <1>1, <2>4
  <2> QED BY <1>1, <1>2, <2>1, <2>3, <2>4, <2>5, <2>6, <2>7, RowsKeep DEF Held
<1> QED BY <1>3, <1>4, <1>5

(* What stays when neither a row, an event nor the route changes. *)
LEMMA RowsStay ==
  ASSUME IInv, UNCHANGED <<rows, route>>,
         \A u \in Daemon : task'[u].pc = "route" => task'[u] = task[u]
  PROVE  RowsMatchEvents' /\ BindingsStand' /\ RouteIsBound'
<1>1. UNCHANGED <<bound, used, ledger, route>> BY DEF rows
<1>2. \A w, c : Valid(w, c)' <=> Valid(w, c) BY <1>1 DEF Valid, Released
<1> QED BY <1>1, <1>2 DEF IInv, RowsMatchEvents, BindingsStand, RouteIsBound, Released

(* Sets of channels are finite, and one more channel is one more.          *)
LEMMA MarkedCounts ==
  /\ \A S \in SUBSET Channels : IsFiniteSet(S) /\ Cardinality(S) \in Nat
  /\ \A S \in SUBSET Channels, c \in Channels :
       c \notin S => Cardinality(S \cup {c}) = Cardinality(S) + 1
  /\ \A S, T \in SUBSET Channels : S \subseteq T => Cardinality(S) <= Cardinality(T)
<1>1. \A S \in SUBSET Channels : IsFiniteSet(S)
  BY ChannelAssumption, FS_Subset
<1> QED BY <1>1, FS_CardinalityType, FS_AddElement, FS_Subset

(* A channel is made, with or without the answer that it is. *)
LEMMA CreateKeeps ==
  ASSUME IInv, NEW t \in Daemon, NEW c \in Channels, Create(t, c) \/ CreateAnswerLost(t, c)
  PROVE  IInv'
<1> USE Bookkeeping
<1>1. /\ TypeOK /\ t \in Tasks /\ task[t] \in Task /\ Local(t) /\ LockExcludes
      /\ UnknownWereLost /\ CreatorFoundNone /\ ChannelOnce
      /\ \A u \in Tasks : Local(u)
  BY DEF IInv, TypeOK, Tasks
<1>a. PICK w : w = task[t].ws OBVIOUS
<1>2. /\ task[t].pc = "create" /\ task[t].ws = w /\ w \in Workspaces /\ w # None
      /\ guild' = [guild EXCEPT ![c] = w] /\ guild[c] = None /\ c \notin Manual
      /\ guild \in [Channels -> Workspaces \cup {None}] /\ lost \in [Workspaces -> Nat]
      /\ cached \subseteq Channels /\ None \notin Workspaces
      /\ UNCHANGED <<rows, route, requests>>
  BY <1>1, <1>a, ChannelAssumption DEF Create, CreateAnswerLost, OnDiscord, Local, LocalOf, TypeOK
<1>3. PICK x \in Task : /\ task' = [task EXCEPT ![t] = x] /\ LocalOf(t, x)
                        /\ x.pc \in {"final", "finish", "off"}
                        /\ x.pc \in Held => x.ws = w
  <2>1. CASE Create(t, c)
    <3> DEFINE y == [task[t] EXCEPT !.pc = "final", !.ch = c]
    <3>1. task' = [task EXCEPT ![t] = y] BY <1>1, <2>1 DEF Create
    <3>2. y \in Task /\ LocalOf(t, y) /\ y.pc = "final" /\ y.ws = w
      BY <1>1, <1>2 DEF Task, Steps, Local, LocalOf
    <3> QED BY <3>1, <3>2
  <2>2. CASE CreateAnswerLost(t, c)
    <3>1. Raised(t) \in Task /\ LocalOf(t, Raised(t)) /\ Raised(t).pc \in {"finish", "off"}
      BY <1>1, <1>2, RaisedIs
    <3> QED BY <2>2, <3>1 DEF CreateAnswerLost, Raise, Held
  <2> QED BY <2>1, <2>2
<1>4. /\ task' \in [Tasks -> Task] /\ task'[t] = x
      /\ \A u \in Tasks \ {t} : task'[u] = task[u]
      /\ \A u \in Tasks : Local(u)'
  BY <1>1, <1>3, TaskMoves
<1>5. /\ cached \subseteq cached' /\ cached' \subseteq cached \cup {c}
      /\ lost' \in [Workspaces -> Nat] /\ \A v \in Workspaces : v # w => lost'[v] = lost[v]
      /\ \/ c \in cached' /\ lost'[w] = lost[w]
         \/ lost'[w] = lost[w] + 1
      /\ left' \in [faults : Nat, ops : Nat, commands : Nat]
  <2>1. CASE Create(t, c) BY <1>1, <1>2, <2>1 DEF Create
  <2>2. CASE CreateAnswerLost(t, c) BY <1>1, <1>2, <2>2 DEF CreateAnswerLost
  <2> QED BY <2>1, <2>2
<1>6. /\ Marked(w)' = Marked(w) \cup {c} /\ c \notin Marked(w) /\ Marked(w) \subseteq Channels
      /\ \A v \in Workspaces : v # w => Marked(v)' = Marked(v) /\ c \notin Marked(v)
                                     /\ Marked(v) \subseteq Channels
  <2>1. \A v \in Workspaces : {d \in Channels : guild'[d] = v}
                            = {d \in Channels : guild[d] = v} \cup {d \in {c} : v = w}
    BY <1>2
  <2>2. w \in Workspaces /\ \A v \in Workspaces : c \notin Marked(v) BY <1>2 DEF Marked
  <2> DEFINE G(v) == {d \in Channels : guild'[d] = v}
  <2>3. G(w) = Marked(w) \cup {c} BY <1>2, <2>1 DEF Marked
  <2>4. \A v \in Workspaces : v # w => G(v) = Marked(v) BY <1>2, <2>1 DEF Marked
  <2> QED BY <2>2, <2>3, <2>4 DEF Marked
<1>7. UnknownWereLost' /\ ChannelOnce'
  <2>1. \A v \in Workspaces : /\ Cardinality(Marked(v) \ cached) <= lost[v]
                             /\ Cardinality(Marked(v)) <= 1 + lost[v]
    BY <1>1 DEF UnknownWereLost, ChannelOnce
  <2>2. Cardinality(Marked(w)) <= lost[w] BY <1>1, <1>2 DEF CreatorFoundNone
  <2>3. Cardinality(Marked(w)') <= 1 + lost'[w]
    BY <1>2, <1>5, <1>6, <2>2, MarkedCounts
  <2>4. Cardinality(Marked(w)' \ cached') <= lost'[w]
    <3> DEFINE S == Marked(w) \ cached
    <3>1. S \in SUBSET Channels /\ c \notin S /\ Cardinality(S) <= lost[w] BY <1>6, <2>1, <1>2
    <3>2. CASE c \in cached' /\ lost'[w] = lost[w]
      <4>1. Marked(w)' \ cached' \subseteq S BY <1>5, <1>6, <3>2
      <4>2. Marked(w)' \ cached' \in SUBSET Channels BY <3>1, <4>1
      <4> QED BY <1>2, <3>1, <3>2, <4>1, <4>2, MarkedCounts
    <3>3. CASE lost'[w] = lost[w] + 1
      <4>1. Marked(w)' \ cached' \subseteq S \cup {c} BY <1>5, <1>6
      <4>2. S \cup {c} \in SUBSET Channels /\ Marked(w)' \ cached' \in SUBSET Channels
        BY <3>1, <4>1
      <4>3. Cardinality(S \cup {c}) = Cardinality(S) + 1 BY <3>1, MarkedCounts
      <4> HIDE DEF S
      <4>4. Cardinality(S) \in Nat /\ Cardinality(Marked(w)' \ cached') \in Nat
        BY <3>1, <4>2, MarkedCounts
      <4>5. Cardinality(Marked(w)' \ cached') <= Cardinality(S \cup {c})
        BY <4>1, <4>2, MarkedCounts
      <4> QED BY <1>2, <3>1, <3>3, <4>3, <4>4, <4>5
    <3> QED BY <1>5, <3>2, <3>3
  <2>5. ASSUME NEW v \in Workspaces, v # w
        PROVE  /\ Cardinality(Marked(v)' \ cached') <= lost'[v]
               /\ Cardinality(Marked(v)') <= 1 + lost'[v]
    <3>1. Marked(v)' = Marked(v) /\ Marked(v)' \ cached' = Marked(v) \ cached /\ lost'[v] = lost[v]
      BY <1>5, <1>6, <2>5
    <3> QED BY <2>1, <3>1
  <2> QED BY <2>3, <2>4, <2>5 DEF UnknownWereLost, ChannelOnce
<1>8. CreatorFoundNone' /\ LockExcludes'
  <2>1. \A u \in Daemon \ {t} : task[u].pc \in Held => task[u].ws # w
    BY <1>1, <1>2 DEF LockExcludes, Held
  <2>2. LockExcludes' BY <1>1, <1>3, <1>4, <2>1 DEF LockExcludes
  <2>3. ASSUME NEW u \in Daemon, task'[u].pc = "create"
        PROVE  Cardinality({d \in Channels : guild'[d] = task'[u].ws}) <= lost'[task'[u].ws]
    <3>1. u # t /\ task'[u] = task[u] BY <1>3, <1>4, <2>3
    <3>2. PICK v : v = task[u].ws OBVIOUS
    <3>3. v \in Workspaces /\ v # w
      BY <1>1, <2>1, <2>3, <3>1, <3>2 DEF Held, Local, LocalOf
    <3>4. Cardinality(Marked(v)) <= lost[v] BY <1>1, <2>3, <3>1, <3>2 DEF CreatorFoundNone
    <3>5. Marked(v)' = Marked(v) /\ lost'[v] = lost[v] BY <1>5, <1>6, <3>3
    <3>6. task'[u].ws = v BY <3>1, <3>2
    <3>7. {d \in Channels : guild'[d] = v} = Marked(v) BY <3>5 DEF Marked
    <3> QED BY <3>4, <3>5, <3>6, <3>7
  <2> QED BY <2>2, <2>3 DEF CreatorFoundNone, Marked
<1>9. TypeOK'
  <2>1. guild' \in [Channels -> Workspaces \cup {None}] BY <1>2
  <2> QED BY <1>1, <1>2, <1>4, <1>5, <2>1 DEF TypeOK, rows, requests
<1>10. RowsMatchEvents' /\ BindingsStand' /\ RouteIsBound'
  <2>1. \A u \in Daemon : task'[u].pc = "route" => task'[u] = task[u] BY <1>3, <1>4
  <2> QED BY <1>2, <2>1, RowsStay
<1> QED BY <1>4, <1>7, <1>8, <1>9, <1>10 DEF IInv

(* The client hears of a channel; the daemon is killed and comes back. *)
LEMMA GatewayKeeps == ASSUME IInv, NEW c \in Channels, GatewayEvent(c) PROVE IInv'
<1>1. /\ cached' = cached \cup {c}
      /\ UNCHANGED <<guild, lost, rows, route, requests, task, left>>
  BY DEF GatewayEvent
<1>2. TypeOK' /\ \A u \in Tasks : Local(u)'
  BY <1>1 DEF IInv, TypeOK, Local, LocalOf, rows, requests
<1>3. RowsMatchEvents' /\ BindingsStand' /\ RouteIsBound' BY <1>1, RowsStay
<1>4. LockExcludes' /\ CreatorFoundNone' /\ ChannelOnce'
  BY <1>1 DEF IInv, LockExcludes, CreatorFoundNone, ChannelOnce, Marked
<1>5. UnknownWereLost'
  <2> SUFFICES ASSUME NEW w \in Workspaces PROVE Cardinality(Marked(w) \ cached') <= lost[w]
    BY <1>1 DEF UnknownWereLost, Marked
  <2> DEFINE S == Marked(w) \ cached
             T == Marked(w) \ cached'
  <2>1. S \in SUBSET Channels /\ T \in SUBSET Channels /\ T \subseteq S BY <1>1 DEF Marked
  <2>2. Cardinality(S) <= lost[w] /\ lost[w] \in Nat BY DEF IInv, UnknownWereLost, TypeOK
  <2> HIDE DEF S, T
  <2>3. Cardinality(T) <= Cardinality(S) /\ Cardinality(S) \in Nat /\ Cardinality(T) \in Nat
    BY <2>1, MarkedCounts
  <2>4. Cardinality(T) <= lost[w] BY <2>2, <2>3
  <2> QED BY <2>4 DEF T
<1> QED BY <1>2, <1>3, <1>4, <1>5 DEF IInv

LEMMA RestartKeeps == ASSUME IInv, Restart PROVE IInv'
<1> USE Bookkeeping
<1>0. TypeOK BY DEF IInv
<1>1. /\ TypeOK /\ cached' = OnDiscord /\ OnDiscord \subseteq Channels
      /\ left' \in [faults : Nat, ops : Nat, commands : Nat]
      /\ UNCHANGED <<guild, lost, rows, route, requests>>
  BY <1>0, ChannelAssumption DEF Restart, OnDiscord
<1>2. /\ task' \in [Tasks -> Task]
      /\ \A u \in Tasks : task'[u] = IF u \in Daemon THEN Off ELSE task[u]
  BY <1>1, OffIs DEF Restart, TypeOK
<1>3. \A u \in Daemon : task'[u].pc = "off" BY <1>1, <1>2 DEF Off
<1>4. \A u \in Tasks : LocalOf(u, task'[u]) BY <1>2, OffIs DEF IInv, Local
<1>5. \A u \in Tasks : Local(u)' BY <1>4 DEF Local, LocalOf
<1>6. TypeOK' BY <1>1, <1>2 DEF TypeOK, rows, requests
<1>7. RowsMatchEvents' /\ BindingsStand' /\ RouteIsBound' BY <1>1, <1>3, RowsStay
<1>8. LockExcludes' /\ CreatorFoundNone' /\ ChannelOnce'
  BY <1>1, <1>3 DEF IInv, LockExcludes, CreatorFoundNone, ChannelOnce, Marked, Held
<1>9. UnknownWereLost'
  <2> SUFFICES ASSUME NEW w \in Workspaces PROVE Cardinality(Marked(w) \ cached') <= lost[w]
    BY <1>1 DEF UnknownWereLost, Marked
  <2>1. Marked(w) \ cached' = {} BY <1>1, ChannelAssumption DEF Marked, OnDiscord
  <2>2. lost[w] \in Nat BY <1>1 DEF TypeOK
  <2>3. Cardinality(Marked(w) \ cached') = 0 BY <2>1, FS_EmptySet
  <2> QED BY <2>2, <2>3
<1> QED BY <1>5, <1>6, <1>7, <1>8, <1>9 DEF IInv

------------------------------------------------------------------------------
(* The invariant. *)

LEMMA InitHolds == Init => IInv
<1> SUFFICES ASSUME Init PROVE IInv OBVIOUS
<1>1. /\ guild = [c \in Channels |-> None] /\ used = {} /\ ledger = bound
      /\ \A t \in Tasks : task[t] = Off
      /\ task = [t \in Tasks |-> Off] /\ lost = [w \in Workspaces |-> 0]
      /\ \A w \in Workspaces : route[w] = None
  BY DEF Init
<1>2. TypeOK BY ChannelAssumption, OffIs DEF Init, TypeOK
<1>3. \A t \in Tasks : Local(t) /\ task[t].pc = "off" BY <1>1, OffIs DEF Local, Off
<1>4. \A w \in Workspaces : Marked(w) = {} /\ Marked(w) \ cached = {}
  BY <1>1, ChannelAssumption DEF Marked
<1>5. \A w \in Workspaces : lost[w] = 0 BY <1>1
<1>6. UnknownWereLost /\ ChannelOnce
  BY <1>4, <1>5, FS_EmptySet DEF UnknownWereLost, ChannelOnce
<1>7. BindingsStand /\ LockExcludes /\ CreatorFoundNone
  BY <1>1, <1>3 DEF BindingsStand, LockExcludes, CreatorFoundNone, Tasks, Held
<1> QED BY <1>1, <1>2, <1>3, <1>6, <1>7 DEF IInv, RowsMatchEvents, RouteIsBound

LEMMA Inductive == IInv /\ [Next]_vars => IInv'
<1> SUFFICES ASSUME IInv, [Next]_vars PROVE IInv' OBVIOUS
<1> USE Bookkeeping
<1>0. TypeOK BY DEF IInv
<1>1. CASE UNCHANGED vars
  <2>1. TypeOK' /\ \A t \in Tasks : Local(t)' BY <1>1 DEF vars, IInv, TypeOK, Local, LocalOf
  <2>2. RowsMatchEvents' /\ BindingsStand' /\ RouteIsBound'
    BY <1>1, RowsStay DEF vars, rows
  <2>3. LockExcludes' /\ UnknownWereLost' /\ CreatorFoundNone' /\ ChannelOnce'
    BY <1>1 DEF vars, IInv, LockExcludes, UnknownWereLost, CreatorFoundNone, ChannelOnce, Marked
  <2> QED BY <2>1, <2>2, <2>3 DEF IInv
<1>2. CASE \E r \in Requests : RequestChannel(r) BY <1>2, RequestKeeps
<1>3. CASE \E t \in Loops : LoopStart(t) BY <1>0, <1>3, StartKeeps
<1>4. CASE \E t \in Commands, w \in Workspaces : CommandStart(t, w) BY <1>0, <1>4, StartKeeps
<1>5. CASE \E t \in Daemon : Advance(t) \/ CreateFails(t)
  <2>1. PICK t \in Daemon : Advance(t) \/ CreateFails(t) BY <1>5
  <2>2. t \in Tasks BY <1>0
  <2>3. CASE LoopList(t) \/ \E r \in Requests : LoopTakes(t, r) BY <2>3, StartKeeps
  <2>4. CASE Acquire(t) \/ Inspect(t) \/ Find(t) \/ CreateRefused(t) \/ CreateFails(t)
    BY <2>4, LookKeeps
  <2>5. CASE \E c \in Channels : Create(t, c) BY <2>5, CreateKeeps
  <2>6. CASE Finalize(t) \/ BindRead(t) \/ Check(t) \/ Finish(t) BY <2>2, <2>6, ReadsKeep
  <2>7. CASE BindWrite(t) \/ SetRoute(t) BY <2>2, <2>7, WritesKeep
  <2> QED BY <2>1, <2>3, <2>4, <2>5, <2>6, <2>7 DEF Advance
<1>6. CASE \E t \in Daemon, c \in Channels : CreateAnswerLost(t, c) BY <1>6, CreateKeeps
<1>7. CASE \E t \in Operators : Operator(t)
  <2>1. PICK t \in Operators : Operator(t) BY <1>7
  <2>2. t \in Tasks BY <1>0
  <2>3. CASE BindRead(t) \/ ReleaseRead(t) BY <2>2, <2>3, ReadsKeep
  <2>4. CASE BindWrite(t) \/ ReleaseWrite(t) BY <2>2, <2>4, WritesKeep
  <2>5. CASE \E w \in Workspaces, c \in Channels, pc \in {"bindread", "relread"},
                k \in {<<"cli", left.ops>>} \cup {e.key : e \in used} :
                OperatorStart(t, pc, w, c, k)
    BY <2>5, OperatorKeeps
  <2> QED BY <2>1, <2>3, <2>4, <2>5 DEF Operator
<1>8. CASE \E c \in Channels : GatewayEvent(c) BY <1>8, GatewayKeeps
<1>9. CASE Restart BY <1>9, RestartKeeps
<1> QED BY <1>1, <1>2, <1>3, <1>4, <1>5, <1>6, <1>7, <1>8, <1>9 DEF Next

LEMMA InvariantHolds == Spec => []IInv
BY InitHolds, Inductive, PTL DEF Spec

------------------------------------------------------------------------------
(* Every variable keeps its type, whatever is bound, created or restarted. *)
THEOREM ChannelTyped == Spec => []TypeOK
<1>1. IInv => TypeOK BY DEF IInv
<1> QED BY <1>1, InvariantHolds, PTL

(* channel_bindings is what the bound and released events add up to, for   *)
(* any number of daemons' tasks and operators binding and releasing, with  *)
(* fresh keys and with used ones.                                          *)
THEOREM RowsFollowEvents == Spec => []RowsMatchEvents
<1>1. IInv => RowsMatchEvents BY DEF IInv
<1> QED BY <1>1, InvariantHolds, PTL

(* A delivery route leads to a channel that is bound to the workspace or   *)
(* that an operator released from it.                                      *)
THEOREM RoutesAreBound == Spec => []RouteIsBound
<1>1. IInv => RouteIsBound BY DEF IInv
<1> QED BY <1>1, InvariantHolds, PTL

(* A workspace has no more channels with its marker than one, and one for  *)
(* each creation whose answer was lost: through any number of loops,       *)
(* commands, repeated requests and restarts.                               *)
THEOREM OneChannelEach == Spec => []ChannelOnce
<1>1. IInv => ChannelOnce BY DEF IInv
<1> QED BY <1>1, InvariantHolds, PTL
=============================================================================
