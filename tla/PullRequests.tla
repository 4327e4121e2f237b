---------------------------- MODULE PullRequests ----------------------------
(***************************************************************************)
(* Pull requests of tasks: a coding host publishes a branch with gh and    *)
(* records the result in its own database and, through the record-only     *)
(* sink, in the control plane's; pr link, branch allocate, the plan gate    *)
(* and reconcile write the same task mirrors there; pr review and ci check *)
(* write the events from which the merge gate gives its verdict.           *)
(***************************************************************************)
EXTENDS Naturals, FiniteSets

CONSTANTS
  Tasks, Branches, Commits, Prs,
  BranchOf,     \* the branch that branch allocate gives to a task
  CodingHosts,  \* coding hosts, each with a publish command
  DbOf,         \* the database a host's coordinator opens
  Server,       \* the control plane's database
  Writers,      \* pr link, branch allocate, plan gate and reconcile commands there
  Checkers,     \* pr review, ci check and merge gate commands
  Unset,
  Budgets       \* bounds: commands of each kind and changes on GitHub

Dbs == {DbOf[h] : h \in CodingHosts} \cup {Server}
Budget == [publish : Nat, write : Nat, check : Nat, github : Nat, fault : Nat]

VARIABLES
  ref,        \* heads of the branches on GitHub
  prs,        \* pull requests on GitHub
  pushed,     \* history: commits that were the head of a branch
  mirrors,    \* the tasks table of every database
  recorded,   \* pr.created and pr.linked events of the sink
  review, ci, \* the latest pr_review.* and ci.* event of a task
  pub,        \* local variables of a host's publish command
  wr,         \* of a writer
  chk,        \* and of a checker
  clobbered,  \* history: tasks written from a row read before another write
  rebound,    \* history: PR bindings that were changed, and how
  seen,       \* history: what was true of a head on GitHub
  raced,      \* history: heads that came between the two reads of a check
  ready,      \* history: heads the merge gate called ready
  left

github == <<ref, prs, pushed, seen>>
history == <<clobbered, rebound>>
prVars == <<github, mirrors, recorded, review, ci, pub, wr, chk, history, raced,
            ready, left>>

(* ver stands for the row's content: it tells a stale reader from a fresh. *)
TaskRow == [pr : Prs \cup {Unset}, branch : Branches \cup {Unset},
            commit : Commits \cup {Unset}, closed : BOOLEAN, ver : Nat]
NoRow == [pr |-> Unset, branch |-> Unset, commit |-> Unset, closed |-> FALSE, ver |-> 0]

Pr == [branch : Branches, head : Commits, open : BOOLEAN,
       review : {"approved", "required"}, checks : {"passed", "pending"}]
Verdict == [ok : BOOLEAN, pr : Prs \cup {Unset}, head : Commits \cup {Unset}]

(* The local variables of a publish command, a writer and a checker.       *)
Publication ==
  [pc : {"preflight", "validate", "ref", "discover", "create", "check", "write",
         "record"},
   task : Tasks, branch : Branches, commit : Commits,
   expected : Prs \cup {Unset}, pr : Prs \cup {Unset}, ver : Nat, closed : BOOLEAN,
   action : {"none", "linked", "created"}]
Rewrite == [task : Tasks, kind : {"link", "branch", "plan", "reconcile"}, row : TaskRow]
Checking == [pc : {"status", "head", "write"}, task : Tasks,
             kind : {"review", "ci", "gate"}, pr : Prs, ok : BOOLEAN,
             head : Commits \cup {Unset}]

ASSUME PullRequestsAssumption ==
  /\ BranchOf \in [Tasks -> Branches] /\ Budgets \subseteq Budget
  /\ Unset \notin Branches \cup Commits \cup Prs \cup Tasks
  /\ Unset \notin Pr \cup Verdict \cup Publication \cup Rewrite \cup Checking

PrInit ==
  /\ ref = [b \in Branches |-> Unset] /\ prs = [p \in Prs |-> Unset]
  /\ pushed = {} /\ seen = {}
  /\ mirrors = [d \in Dbs |-> [t \in Tasks |-> NoRow]]
  /\ recorded = {}
  /\ review = [t \in Tasks |-> Unset] /\ ci = [t \in Tasks |-> Unset]
  /\ pub = [h \in CodingHosts |-> Unset] /\ wr = [w \in Writers |-> Unset]
  /\ chk = [c \in Checkers |-> Unset]
  /\ clobbered = {} /\ rebound = {} /\ raced = {} /\ ready = {}
  /\ left \in Budgets

PrTypeOK ==
  /\ ref \in [Branches -> Commits \cup {Unset}]
  /\ prs \in [Prs -> Pr \cup {Unset}]
  /\ pushed \subseteq Branches \X Commits
  /\ mirrors \in [Dbs -> [Tasks -> TaskRow]]
  /\ recorded \subseteq [task : Tasks, pr : Prs, branch : Branches, commit : Commits]
  /\ review \in [Tasks -> Verdict \cup {Unset}]
  /\ ci \in [Tasks -> Verdict \cup {Unset}]
  /\ pub \in [CodingHosts -> Publication \cup {Unset}]
  /\ wr \in [Writers -> Rewrite \cup {Unset}]
  /\ chk \in [Checkers -> Checking \cup {Unset}]
  /\ clobbered \subseteq Dbs \X Tasks /\ left \in Budget

Consume(kind) == left[kind] > 0 /\ left' = [left EXCEPT ![kind] = @ - 1]
OpenPrs(b) == {p \in Prs : prs[p] # Unset /\ prs[p].open /\ prs[p].branch = b}

-----------------------------------------------------------------------------
(* GitHub, outside the program: pushes, reviews, CI runs and closed PRs.   *)
Now == {<<"approved", p, prs'[p].head>> :
          p \in {q \in Prs : prs'[q] # Unset /\ prs'[q].review = "approved"}}
       \cup {<<"passed", p, prs'[p].head>> :
          p \in {q \in Prs : prs'[q] # Unset /\ prs'[q].checks = "passed"}}

(* A push moves the open PR's head, starts its checks and may dismiss the  *)
(* approval.  A check between its two reads has seen the older head.       *)
Push(b, c) ==
  /\ Consume("github") /\ ref[b] # c
  /\ ref' = [ref EXCEPT ![b] = c] /\ pushed' = pushed \cup {<<b, c>>}
  /\ \E keeps \in BOOLEAN :
       prs' = [p \in Prs |-> IF p \in OpenPrs(b)
         THEN [prs[p] EXCEPT !.head = c, !.checks = "pending",
                             !.review = IF keeps THEN @ ELSE "required"]
         ELSE prs[p]]
  /\ seen' = seen \cup Now
  /\ raced' = raced \cup {<<p, c>> : p \in {q \in OpenPrs(b) :
       \E k \in Checkers : chk[k] # Unset /\ chk[k].pc = "head" /\ chk[k].pr = q}}
  /\ UNCHANGED <<mirrors, recorded, review, ci, pub, wr, chk, history, ready>>

Judge(p) ==
  /\ Consume("github") /\ prs[p] # Unset
  /\ \E r \in {"approved", "required"}, s \in {"passed", "pending"} :
       prs' = [prs EXCEPT ![p].review = r, ![p].checks = s]
  /\ prs' # prs
  /\ seen' = seen \cup Now
  /\ UNCHANGED <<ref, pushed, mirrors, recorded, review, ci, pub, wr, chk,
                 history, raced, ready>>

ClosePr(p) ==
  /\ Consume("github") /\ prs[p] # Unset /\ prs[p].open
  /\ prs' = [prs EXCEPT ![p].open = FALSE]
  /\ UNCHANGED <<ref, pushed, seen, mirrors, recorded, review, ci, pub, wr, chk,
                 history, raced, ready>>

-----------------------------------------------------------------------------
(* The contracts of pr_contracts.py                                        *)
BoundElsewhere(row, p) == row.pr # Unset /\ row.pr # p

MirrorConflict(row, b, c, changeAllowed) ==
  \/ row.branch # Unset /\ row.branch # b
  \/ row.commit # Unset /\ row.commit # c /\ ~changeAllowed

(* Mutant: a PR is bound over another one. *)
RebindNever(row, p) == FALSE

Rebind(row, p) == BoundElsewhere(row, p)

(* A closed task keeps its PR, but its branch may be used again.           *)
CrossTask(d, t, b, p) ==
  \E u \in Tasks \ {t} : \/ mirrors[d][u].branch = b /\ ~mirrors[d][u].closed
                         \/ p # Unset /\ mirrors[d][u].pr = p

(* The unique indexes of the tasks table; that of branches is partial.     *)
Unique(d, t, row) ==
  \A u \in Tasks \ {t} :
    /\ row.branch # Unset /\ ~row.closed /\ ~mirrors[d][u].closed =>
          mirrors[d][u].branch # row.branch
    /\ row.pr # Unset => mirrors[d][u].pr # row.pr

(* upsert_task_mirror by a command that writes the phase back as it read   *)
(* it, at the version that it read.                                        *)
Upsert(d, t, read, pr, branch, commit) ==
  LET old == mirrors[d][t]
      new == [pr |-> pr, branch |-> branch, commit |-> commit,
              closed |-> read.closed, ver |-> old.ver + 1]
      same == [new EXCEPT !.ver = old.ver] = old
  IN IF ~Unique(d, t, new) \/ same
     THEN UNCHANGED <<mirrors, history>>
     ELSE /\ mirrors' = [mirrors EXCEPT ![d][t] = new]
          /\ clobbered' = IF old.ver # read.ver THEN clobbered \cup {<<d, t>>}
                                           ELSE clobbered
          /\ rebound' = IF BoundElsewhere(old, pr)
               THEN rebound \cup {[db |-> d, task |-> t, fresh |-> old.ver = read.ver]}
               ELSE rebound

-----------------------------------------------------------------------------
(* pr publish on a host.  It reports a branch and a commit of a task.      *)
Advance(h, pc) == pub' = [pub EXCEPT ![h].pc = pc]
End(h) == pub' = [pub EXCEPT ![h] = Unset]

(* A publish.blocked or push.required event, and no change to the mirror.  *)
Blocked(h) == End(h)
quiet == <<github, review, ci, wr, chk, raced, ready>>

Publish(h, t, b, c) ==
  /\ pub[h] = Unset /\ Consume("publish")
  /\ pub' = [pub EXCEPT ![h] =
       [pc |-> IF DbOf[h] = Server THEN "validate" ELSE "preflight",
        task |-> t, branch |-> b, commit |-> c, expected |-> Unset,
        pr |-> Unset, ver |-> 0, closed |-> FALSE, action |-> "none"]]
  /\ UNCHANGED <<quiet, mirrors, recorded, history>>

(* record_publish_preflight, on the server: a task that has a PR is linked *)
(* to it, never given another.                                             *)
Preflight(h) ==
  LET p == pub[h]  row == mirrors[Server][p.task] IN
  /\ p # Unset /\ p.pc = "preflight"
  /\ IF MirrorConflict(row, p.branch, p.commit, row.pr # Unset) THEN End(h)
     ELSE IF row.pr # Unset
     THEN pub' = [pub EXCEPT ![h].pc = "validate", ![h].expected = row.pr]
     ELSE IF CrossTask(Server, p.task, p.branch, Unset) THEN End(h)
     ELSE Advance(h, "validate")
  /\ UNCHANGED <<quiet, mirrors, recorded, history, left>>

(* On the host's own mirror: a worker that has not pushed is told to.      *)
ValidateCreate(h, isPushed) ==
  LET p == pub[h] IN
  /\ p # Unset /\ p.pc = "validate" /\ p.expected = Unset
  /\ IF ~isPushed \/ MirrorConflict(mirrors[DbOf[h]][p.task], p.branch, p.commit, FALSE)
     THEN Blocked(h) ELSE Advance(h, "ref")
  /\ UNCHANGED <<quiet, mirrors, recorded, history, left>>

(* A PR that is known may get a new commit.                                *)
ValidateLink(h) ==
  LET p == pub[h]  row == mirrors[DbOf[h]][p.task] IN
  /\ p # Unset /\ p.pc = "validate" /\ p.expected # Unset
  /\ IF \/ MirrorConflict(row, p.branch, p.commit, row.pr = p.expected)
        \/ Rebind(row, p.expected)
     THEN Blocked(h) ELSE Advance(h, "discover")
  /\ UNCHANGED <<quiet, mirrors, recorded, history, left>>

(* Mutant: any head of the branch will do. *)
HeadAny(h) == ref[pub[h].branch] # Unset

HeadIsReported(h) == ref[pub[h].branch] = pub[h].commit

FetchRef(h) ==
  /\ pub[h] # Unset /\ pub[h].pc = "ref"
  /\ IF HeadIsReported(h) THEN Advance(h, "discover") ELSE Blocked(h)
  /\ UNCHANGED <<quiet, mirrors, recorded, history, left>>

(* discover_open_pr_for_head: an open PR of another head is a mismatch.    *)
OfHead(p) == {q \in OpenPrs(p.branch) : prs[q].head = p.commit}

Found(h, q) ==
  pub' = [pub EXCEPT ![h].pc = "check", ![h].pr = q, ![h].action = "linked"]

Discover(h) ==
  LET p == pub[h] IN
  /\ p # Unset /\ p.pc = "discover" /\ p.expected = Unset
  /\ IF OpenPrs(p.branch) = {} THEN Advance(h, "create")
     ELSE IF OfHead(p) = {} THEN Blocked(h)
     ELSE \E q \in OfHead(p) : Found(h, q)
  /\ UNCHANGED <<quiet, mirrors, recorded, history, left>>

(* discover_existing_target: nothing is created when the PR is not found.  *)
DiscoverExisting(h) ==
  LET p == pub[h] IN
  /\ p # Unset /\ p.pc = "discover" /\ p.expected # Unset
  /\ IF p.expected \in OfHead(p) THEN Found(h, p.expected) ELSE Blocked(h)
  /\ UNCHANGED <<quiet, mirrors, recorded, history, left>>

Opened(q, b) == [prs EXCEPT ![q] =
  [branch |-> b, head |-> ref[b], open |-> TRUE, review |-> "required",
   checks |-> "pending"]]

(* gh pr create: GitHub takes the branch as it is now, and refuses a       *)
(* second open PR of it.  The answer may be lost.                          *)
CreatePr(h, q) ==
  LET b == pub[h].branch IN
  /\ pub[h] # Unset /\ pub[h].pc = "create"
  /\ OpenPrs(b) = {} /\ prs[q] = Unset
  /\ prs' = Opened(q, b)
  /\ \/ /\ pub' = [pub EXCEPT ![h].pc = "check", ![h].pr = q, ![h].action = "created"]
        /\ UNCHANGED left
     \/ End(h) /\ Consume("fault")
  /\ UNCHANGED <<ref, pushed, seen, review, ci, wr, chk, raced, ready, mirrors,
                 recorded, history>>

CreateRefused(h) ==
  /\ pub[h] # Unset /\ pub[h].pc = "create"
  /\ OpenPrs(pub[h].branch) = {} => \A q \in Prs : prs[q] # Unset
  /\ Blocked(h)
  /\ UNCHANGED <<quiet, mirrors, recorded, history, left>>

(* _finalize_link and _finalize_created: the test, and then the event and  *)
(* the mirror in commits of their own.                                     *)
FinalizeCheck(h) ==
  LET row == mirrors[DbOf[h]][pub[h].task] IN
  /\ pub[h] # Unset /\ pub[h].pc = "check"
  /\ IF Rebind(row, pub[h].pr) THEN Blocked(h)
     ELSE pub' = [pub EXCEPT ![h].pc = "write", ![h].ver = row.ver,
                             ![h].closed = row.closed]
  /\ UNCHANGED <<quiet, mirrors, recorded, history, left>>

FinalizeWrite(h) ==
  LET p == pub[h] IN
  /\ p # Unset /\ p.pc = "write"
  /\ Upsert(DbOf[h], p.task, p, p.pr, p.branch, p.commit)
  /\ IF DbOf[h] = Server \/ (mirrors' = mirrors /\ mirrors[DbOf[h]][p.task].pr # p.pr)
     THEN End(h) ELSE Advance(h, "record")
  /\ UNCHANGED <<quiet, recorded, left>>

(* record_publish_result: every test again, the event and the mirror in    *)
(* one SAVEPOINT.  A repeated record only repairs the mirror.              *)
Record(h) ==
  LET p == pub[h]
      row == mirrors[Server][p.task]
      branch == IF row.branch = Unset THEN p.branch ELSE row.branch
  IN
  /\ p # Unset /\ p.pc = "record"
  /\ IF \/ MirrorConflict(row, p.branch, p.commit,
                          p.action = "linked" /\ row.pr = p.pr)
        \/ CrossTask(Server, p.task, p.branch, p.pr)
        \/ Rebind(row, p.pr)
     THEN UNCHANGED <<mirrors, recorded, history>>
     ELSE /\ recorded' = recorded \cup
               {[task |-> p.task, pr |-> p.pr, branch |-> p.branch,
                 commit |-> p.commit]}
          /\ Upsert(Server, p.task, row, p.pr, branch, p.commit)
  /\ End(h)
  /\ UNCHANGED <<quiet, left>>

(* The host dies at any point of the command.                              *)
HostCrash(h) ==
  /\ pub[h] # Unset /\ Consume("fault")
  /\ End(h)
  /\ UNCHANGED <<quiet, mirrors, recorded, history>>

-----------------------------------------------------------------------------
(* Commands on the server that read the row, do something else and write   *)
(* it back.                                                                *)
WriterRead(w, t, kind) ==
  /\ wr[w] = Unset /\ Consume("write")
  /\ wr' = [wr EXCEPT ![w] = [task |-> t, kind |-> kind, row |-> mirrors[Server][t]]]
  /\ UNCHANGED <<github, review, ci, pub, chk, raced, ready, mirrors, recorded, history>>

WriterEnds(w) ==
  /\ wr' = [wr EXCEPT ![w] = Unset]
  /\ UNCHANGED <<github, review, ci, pub, chk, raced, ready, recorded, left>>

(* link_pr: a given PR, or the one that gh finds for the branch.  A branch *)
(* may be given when the task has none.                                    *)
LinkTask(w, q, b) ==
  LET t == wr[w].task  row == wr[w].row
      branch == IF b = Unset THEN row.branch ELSE b
  IN
  /\ wr[w] # Unset /\ wr[w].kind = "link" /\ prs[q] # Unset
  /\ IF \/ row.branch \notin {Unset, branch} \/ Rebind(row, q)
        \/ \E u \in Tasks \ {t} : mirrors[Server][u].pr = q
     THEN UNCHANGED <<mirrors, history>>
     ELSE Upsert(Server, t, row, q, branch, row.commit)
  /\ WriterEnds(w)

AllocateBranch(w) ==
  LET t == wr[w].task  row == wr[w].row  b == BranchOf[t] IN
  /\ wr[w] # Unset /\ wr[w].kind = "branch"
  /\ IF \/ row.branch \notin {Unset, b}
        \/ row.branch = Unset /\ CrossTask(Server, t, b, Unset)
     THEN UNCHANGED <<mirrors, history>>
     ELSE Upsert(Server, t, row, row.pr, b, row.commit)
  /\ WriterEnds(w)

(* approve_plan and reject_plan write the row back as they read it, with   *)
(* the event's id.                                                         *)
PlanDecision(w) ==
  LET row == wr[w].row IN
  /\ wr[w] # Unset /\ wr[w].kind = "plan"
  /\ Upsert(Server, wr[w].task, row, row.pr, row.branch, row.commit)
  /\ WriterEnds(w)

(* reconcile_task: the phase is the item's; a branch or a PR that the item *)
(* names is taken when the row has none, and must be the row's otherwise.  *)
ReconcileTask(w, q, b, c) ==
  LET t == wr[w].task  row == wr[w].row
      pr == IF q = Unset THEN row.pr ELSE q
      branch == IF b = Unset THEN row.branch ELSE b
  IN
  /\ wr[w] # Unset /\ wr[w].kind = "reconcile" /\ (q # Unset => prs[q] # Unset)
  /\ IF row.branch \notin {Unset, branch} \/ Rebind(row, pr)
     THEN UNCHANGED <<mirrors, history>>
     ELSE Upsert(Server, t, [row EXCEPT !.closed = c], pr, branch, row.commit)
  /\ WriterEnds(w)

-----------------------------------------------------------------------------
(* check_pr_review, check_ci and check_merge_gate                          *)
checks == <<github, mirrors, recorded, pub, wr, history, raced>>

(* A review or CI check of a task without a PR may be given one.           *)
CheckBegin(k, t, kind, p) ==
  /\ chk[k] = Unset /\ Consume("check") /\ prs[p] # Unset
  /\ mirrors[Server][t].pr \in IF kind = "gate" THEN {p} ELSE {p, Unset}
  /\ chk' = [chk EXCEPT ![k] =
       [pc |-> IF kind = "gate" THEN "head" ELSE "status", task |-> t,
        kind |-> kind, pr |-> p, ok |-> FALSE, head |-> Unset]]
  /\ UNCHANGED <<checks, review, ci, ready>>

Queried(k, ok) == chk' = [chk EXCEPT ![k].pc = "head", ![k].ok = ok]

(* gh pr view, or gh pr checks, and then the head in a second call         *)
QueryReview(k) ==
  /\ chk[k] # Unset /\ chk[k].pc = "status" /\ chk[k].kind = "review"
  /\ Queried(k, prs[chk[k].pr].review = "approved")
  /\ UNCHANGED <<checks, review, ci, ready, left>>

QueryChecks(k) ==
  /\ chk[k] # Unset /\ chk[k].pc = "status" /\ chk[k].kind = "ci"
  /\ Queried(k, prs[chk[k].pr].checks = "passed")
  /\ UNCHANGED <<checks, review, ci, ready, left>>

QueryHead(k) ==
  /\ chk[k] # Unset /\ chk[k].pc = "head"
  /\ chk' = [chk EXCEPT ![k].pc = "write", ![k].head = prs[chk[k].pr].head]
  /\ UNCHANGED <<checks, review, ci, ready, left>>

(* The event replaces the latest one; an equal one is not repeated.        *)
Result(c) == [ok |-> c.ok, pr |-> c.pr, head |-> c.head]

WriteReview(k) ==
  /\ chk[k] # Unset /\ chk[k].pc = "write" /\ chk[k].kind = "review"
  /\ review' = [review EXCEPT ![chk[k].task] = Result(chk[k])]
  /\ chk' = [chk EXCEPT ![k] = Unset]
  /\ UNCHANGED <<checks, ci, ready, left>>

WriteCi(k) ==
  /\ chk[k] # Unset /\ chk[k].pc = "write" /\ chk[k].kind = "ci"
  /\ ci' = [ci EXCEPT ![chk[k].task] = Result(chk[k])]
  /\ chk' = [chk EXCEPT ![k] = Unset]
  /\ UNCHANGED <<checks, review, ready, left>>

(* Mutant: the event's head is not compared with the PR's. *)
CountsForAnyHead(e, p, head) == IF e = Unset THEN FALSE ELSE e.ok /\ e.pr = p

CountsFor(e, p, head) ==
  IF e = Unset THEN FALSE ELSE e.ok /\ e.pr = p /\ e.head = head

Gate(k) ==
  LET c == chk[k]
      passes == /\ CountsFor(review[c.task], c.pr, c.head)
                /\ CountsFor(ci[c.task], c.pr, c.head)
  IN
  /\ c # Unset /\ c.pc = "write" /\ c.kind = "gate"
  /\ ready' = IF passes THEN ready \cup {<<c.pr, c.head>>} ELSE ready
  /\ chk' = [chk EXCEPT ![k] = Unset]
  /\ UNCHANGED <<checks, review, ci, left>>

-----------------------------------------------------------------------------
PrNext ==
  \/ \E b \in Branches, c \in Commits : Push(b, c)
  \/ \E p \in Prs : Judge(p) \/ ClosePr(p)
  \/ \E h \in CodingHosts, t \in Tasks, b \in Branches, c \in Commits : Publish(h, t, b, c)
  \/ \E h \in CodingHosts, isPushed \in BOOLEAN : ValidateCreate(h, isPushed)
  \/ \E h \in CodingHosts, q \in Prs : CreatePr(h, q)
  \/ \E h \in CodingHosts :
       \/ Preflight(h) \/ ValidateLink(h) \/ FetchRef(h) \/ Discover(h)
       \/ DiscoverExisting(h) \/ CreateRefused(h)
       \/ FinalizeCheck(h) \/ FinalizeWrite(h) \/ Record(h) \/ HostCrash(h)
  \/ \E w \in Writers, t \in Tasks, kind \in {"link", "branch", "plan", "reconcile"} :
       WriterRead(w, t, kind)
  \/ \E w \in Writers, q \in Prs, b \in Branches \cup {Unset} : LinkTask(w, q, b)
  \/ \E w \in Writers : AllocateBranch(w) \/ PlanDecision(w)
  \/ \E w \in Writers, q \in Prs \cup {Unset}, b \in Branches \cup {Unset},
        c \in BOOLEAN : ReconcileTask(w, q, b, c)
  \/ \E k \in Checkers, t \in Tasks, kind \in {"review", "ci", "gate"}, p \in Prs :
       CheckBegin(k, t, kind, p)
  \/ \E k \in Checkers :
       \/ QueryReview(k) \/ QueryChecks(k) \/ QueryHead(k)
       \/ WriteReview(k) \/ WriteCi(k) \/ Gate(k)

PrSpec == PrInit /\ [][PrNext]_prVars

-----------------------------------------------------------------------------
(* A task's PR is replaced by another only when the writer's row was stale *)
(* by the time it wrote: every path that may bind a PR tests the binding.  *)
FreshWriteKeepsPr == \A e \in rebound : ~e.fresh

(* What the sink recorded is what the control plane's mirror says: the PR  *)
(* and the branch it was published from, unless a command wrote the row    *)
(* back from a stale copy.                                                 *)
RecordedIsMirrored ==
  \A r \in recorded :
    LET row == mirrors[Server][r.task] IN
    \/ row.pr = r.pr /\ row.branch = r.branch
    \/ <<Server, r.task>> \in clobbered

(* A commit is recorded for a PR only if it was the head of the branch on  *)
(* GitHub, whatever was pushed while the host was publishing.              *)
RecordedWasPushed == \A r \in recorded : <<r.branch, r.commit>> \in pushed

(* The merge gate calls a head ready only if that head was approved and    *)
(* passed its checks on GitHub, unless it was pushed between the two reads *)
(* of a review or CI check.                                                *)
ReadyWasVerified ==
  \A g \in ready :
    \/ {<<"approved", g[1], g[2]>>, <<"passed", g[1], g[2]>>} \subseteq seen
    \/ g \in raced
=============================================================================
