----------------------------- MODULE Completion -----------------------------
(***************************************************************************)
(* Receipt-backed completion of one task (completion.py, the file half of  *)
(* transitions.py and the orchestration of completion_cli.py).             *)
(*                                                                         *)
(* The control plane's ledger and the coding host's checklist share no     *)
(* transaction.  A receipt goes authorized -> claimed -> applied ->        *)
(* consumed in the ledger; between claimed and applied the host writes the *)
(* item done; it reaches the control plane's copy by a deployment.  Every  *)
(* ledger operation reads the event chain without a transaction and then   *)
(* inserts under a unique key, so the reads and the insert are two steps.  *)
(* The file half runs under the checklist lock; the harnessctl scripts do  *)
(* not take it.  Beside the receipts stand the repair of a lost record and *)
(* mark_done_task of transitions.py, which runs the script of the control  *)
(* plane's own copy and records task.done in one command.                  *)
(***************************************************************************)
EXTENDS TaskItem, Naturals, FiniteSets

CONSTANTS
    Hosts,        \* mark-done-files commands that may run at the same time
    Recorders,    \* control-plane commands (prepare, record) that may run at the same time
    Markers,      \* idempotency keys of mark_done_task, one per actor
    InitialItem,  \* the item when the model starts
    MaxScripts,   \* bound: harnessctl commands
    MaxDeploys,   \* bound: deployments
    MaxCrashes,   \* bound: files commands killed, or left without an answer
    Repair,       \* stands in a files command for --repair-reason, which has no receipt
    None          \* an event that is not in the ledger

Span == [before : Fingerprints, after : Fingerprints]

ASSUME CompletionAssumption ==
    /\ InitialItem \in Items
    /\ InitialItem.receipt = NoReceipt
    /\ MaxScripts \in Nat
    /\ MaxDeploys \in Nat
    /\ MaxCrashes \in Nat
    /\ None \notin Fingerprints \cup Items \cup Span \cup Receipts \cup Hosts
    /\ Receipts \subseteq Nat
    /\ Receipts \cap (Recorders \cup Markers) = {}
    /\ Repair \notin Receipts

VARIABLES
    host,       \* the item in the coding host's checklist
    deployed,   \* the item in the control plane's copy
    script,     \* the item a harnessctl command is about to write, or None
    scripts,    \* harnessctl commands started
    deploys,    \* deployments made
    lock,       \* the mark-done-files command that holds the checklist lock, or None
    authorized, \* completion.authorized: the harness_fingerprint the receipt binds
    expired,    \* receipts whose expires_at has passed
    claimed,    \* completion.claimed: before and expected-after fingerprints
    applied,    \* completion.applied: before and after fingerprints
    consumed,   \* completion.consumed
    terminals,  \* task.done events: the receipt, the recorder of a repair, or the
                \* key of a mark_done_task
    files,      \* per host command: program counter, receipt, what it remembers
    crashes,    \* files commands killed
    record,     \* per recorder: program counter, receipt, what it remembers
    marker,     \* per key of mark_done_task: program counter, what the script read
    wrote,      \* history: the fingerprint a receipt's file write replaced
    overrun,    \* history: receipts whose write replaced that of a script unseen
    shipped     \* history: the items the control plane's copy has held

ledger == <<authorized, expired, claimed, applied, consumed, terminals>>
tree   == <<host, deployed, script, scripts, deploys, lock, wrote, overrun, shipped>>
vars   == <<ledger, tree, files, crashes, record, marker>>

(* What a running command remembers between two steps.                     *)
FilesCommand == [pc : {"idle", "preflighted", "read", "claiming", "claimed", "writing",
                       "written", "applying"},
                 receipt : Receipts \cup {Repair, None},
                 span : Span \cup {None},
                 item : Items \cup {None}]

RecordCommand == [pc : {"idle", "gated", "checked", "verified", "repairing"},
                  receipt : Receipts \cup {None},
                  found : Fingerprints \cup {None}]

(* "ok" and "failed" have the script's result; the failure is recorded as  *)
(* an event under the key, so that the command is not tried again.         *)
MarkCommand == [pc : {"idle", "gated", "script", "ok", "failed"},
                item : Items \cup {None}]

MarkIdle   == [pc |-> "idle", item |-> None]
FilesIdle  == [pc |-> "idle", receipt |-> None, span |-> None, item |-> None]
RecordIdle == [pc |-> "idle", receipt |-> None, found |-> None]

TypeOK ==
    /\ host \in Items /\ deployed \in Items
    /\ script \in Items \cup {None}
    /\ scripts \in 0..MaxScripts /\ deploys \in 0..MaxDeploys /\ crashes \in 0..MaxCrashes
    /\ lock \in Hosts \cup {None}
    /\ authorized \in [Receipts -> Fingerprints \cup {None}]
    /\ expired \subseteq Receipts
    /\ claimed \in [Receipts -> Span \cup {None}]
    /\ applied \in [Receipts -> Span \cup {None}]
    /\ consumed \subseteq Receipts
    /\ terminals \subseteq Receipts \cup Recorders \cup Markers
    /\ files \in [Hosts -> FilesCommand]
    /\ record \in [Recorders -> RecordCommand]
    /\ marker \in [Markers -> MarkCommand]
    /\ wrote \in [Receipts -> Fingerprints \cup {None}] /\ overrun \subseteq Receipts
    /\ shipped \subseteq Items

Init ==
    /\ host = InitialItem /\ deployed = InitialItem
    /\ shipped = {InitialItem}
    /\ script = None /\ scripts = 0 /\ deploys = 0 /\ lock = None
    /\ authorized = [r \in Receipts |-> None]
    /\ claimed = [r \in Receipts |-> None]
    /\ applied = [r \in Receipts |-> None]
    /\ wrote = [r \in Receipts |-> None]
    /\ overrun = {} /\ marker = [m \in Markers |-> MarkIdle]
    /\ expired = {} /\ consumed = {} /\ terminals = {}
    /\ files = [h \in Hosts |-> FilesIdle] /\ crashes = 0
    /\ record = [w \in Recorders |-> RecordIdle]

-----------------------------------------------------------------------------
(* The checklist's other writers, and time.                                *)

(* harness_common.mutate_checklist: read, let the callback change a copy.  *)
ScriptRead ==
    /\ script = None
    /\ scripts < MaxScripts
    /\ \E i \in ScriptResults(host) : script' = i
    /\ scripts' = scripts + 1
    /\ UNCHANGED <<ledger, host, deployed, deploys, lock, wrote, overrun, shipped,
                   files, crashes, record, marker>>

(* ... and replace the file, whatever it has become since.                 *)
ScriptWrite ==
    /\ script # None
    /\ host' = script
    /\ script' = None
    /\ overrun' = IF lock = None THEN overrun
                  ELSE overrun \cup ({files[lock].receipt} \cap Receipts)
    /\ UNCHANGED <<ledger, deployed, scripts, deploys, lock, wrote, shipped, files, crashes,
                   record, marker>>

(* The coding host's commit reaches the control plane's checkout.          *)
Deploy ==
    /\ deployed # host
    /\ deploys < MaxDeploys
    /\ deployed' = host
    /\ shipped' = shipped \cup {host}
    /\ deploys' = deploys + 1
    /\ UNCHANGED <<ledger, host, script, scripts, lock, wrote, overrun, files,
                   crashes, record, marker>>

Expire(r) ==
    /\ authorized[r] # None
    /\ r \notin expired
    /\ expired' = expired \cup {r}
    /\ UNCHANGED <<authorized, claimed, applied, consumed, terminals, tree, files,
                   crashes, record, marker>>

-----------------------------------------------------------------------------
(* prepare_completion_receipt.                                             *)

(* check_mark_done_gate refreshes the state and looks at the item (receipt *)
(* ids are fresh, so they may as well be issued in order) ...              *)
PrepareGate(w, r) ==
    /\ record[w] = RecordIdle
    /\ authorized[r] = None
    /\ \A v \in Recorders : record[v].receipt # r
    /\ \A q \in Receipts : q < r => authorized[q] # None
    /\ GatePasses(deployed)
    /\ record' = [record EXCEPT ![w].pc = "gated", ![w].receipt = r]
    /\ UNCHANGED <<ledger, tree, files, crashes, marker>>

(* ... and the checklist is read again for the fingerprint the receipt is  *)
(* issued for; its id is new, so the insert cannot be told from the read.  *)
PrepareIssue(w) ==
    /\ record[w].pc = "gated"
    /\ authorized' = [authorized EXCEPT ![record[w].receipt] = Fingerprint(deployed)]
    /\ record' = [record EXCEPT ![w] = RecordIdle]
    /\ UNCHANGED <<expired, claimed, applied, consumed, terminals, tree, files,
                   crashes, marker>>

-----------------------------------------------------------------------------
(* _run_mark_done_files_receipt, on the coding host.                       *)

(* lookup_receipt_for_preflight: a chain that lacks a predecessor or whose *)
(* fingerprints disagree is broken.                                        *)
ChainBroken(r) ==
    \/ claimed[r] # None /\ claimed[r].before # authorized[r]
    \/ /\ applied[r] # None
       /\ \/ claimed[r] = None
          \/ applied[r].before # authorized[r]
          \/ applied[r].after # claimed[r].after
    \/ r \in consumed /\ (applied[r] = None \/ r \notin terminals)

(* preflight_expired: only an unused receipt is invalidated.               *)
PreflightExpired(r) == r \in expired /\ claimed[r] = None

FilesPreflight(h, r) ==
    /\ files[h] = FilesIdle
    /\ authorized[r] # None
    /\ ~ChainBroken(r)
    /\ ~PreflightExpired(r)
    /\ files' = [files EXCEPT ![h].pc = "preflighted", ![h].receipt = r]
    /\ UNCHANGED <<ledger, tree, crashes, record, marker>>

(* compute_mark_done_fingerprints, from an unlocked read.                  *)
FilesFingerprint(h) ==
    /\ files[h].pc = "preflighted"
    /\ LET f == Fingerprint(host)
       IN  files' = [files EXCEPT ![h].pc = "read",
                                  ![h].span = [before |-> f, after |-> DoneFingerprint(f)]]
    /\ UNCHANGED <<ledger, tree, crashes, record, marker>>

(* The prior event a retried claim is answered from: applied, else claimed.*)
PriorSpan(r) == IF applied[r] # None THEN applied[r] ELSE claimed[r]

(* _validate_idempotent_before: a retry may report the state before the    *)
(* write or the state after it.                                            *)
RetryAllowedMut(before, prior) == before = prior.before
RetryAllowed(before, prior) == before \in {prior.before, prior.after}

(* A fresh claim must report the state the receipt was issued for.         *)
FreshAllowedMut(r, before) == TRUE
FreshAllowed(r, before) == before = authorized[r]

(* The reads of claim_completion_receipt.  A retry is answered with the    *)
(* recorded fingerprints; a fresh claim goes on to its insert.  A refusal  *)
(* ends the command.                                                       *)
ClaimRead(h) ==
    LET r == files[h].receipt
        s == files[h].span
        prior == PriorSpan(r)
    IN  /\ files[h].pc = "read"
        /\ files' = [files EXCEPT ![h] =
              CASE r \in expired \/ r \in consumed -> FilesIdle
                [] prior # None ->
                     IF prior.after = s.after /\ RetryAllowed(s.before, prior)
                     THEN [@ EXCEPT !.pc = "claimed", !.span = prior]
                     ELSE FilesIdle
                [] OTHER ->
                     IF FreshAllowed(r, s.before) THEN [@ EXCEPT !.pc = "claiming"]
                     ELSE FilesIdle]
        /\ UNCHANGED <<ledger, tree, crashes, record, marker>>

(* The insert; a claimed event that is there already is left as it is, and *)
(* the caller still gets its own fingerprints back.                        *)
ClaimInsert(h) ==
    LET r == files[h].receipt
    IN  /\ files[h].pc = "claiming"
        /\ claimed' = [claimed EXCEPT ![r] = IF @ = None THEN files[h].span ELSE @]
        /\ files' = [files EXCEPT ![h].pc = "claimed"]
        /\ UNCHANGED <<authorized, expired, applied, consumed, terminals, tree,
                       crashes, record, marker>>

(* A done item is this receipt's work only if its fingerprint and its      *)
(* metadata say so.                                                        *)
DoneUnder(i, r, s) == Fingerprint(i) = s.after /\ i.receipt = r

(* A fresh write needs the very state that was reserved.                   *)
StillReservedMut(i, s) == TRUE
StillReserved(i, s) == Fingerprint(i) = s.before

(* mark_done_files takes the lock, reads the item and decides under it.    *)
FilesLocked(h) ==
    LET r == files[h].receipt
        s == files[h].span
    IN  /\ files[h].pc = "claimed"
        /\ lock = None
        /\ IF IsDone(host)
           THEN /\ files' = [files EXCEPT ![h] =
                     IF DoneUnder(host, r, s) THEN [@ EXCEPT !.pc = "written"] ELSE FilesIdle]
                /\ UNCHANGED lock
           ELSE IF StillReserved(host, s)
           THEN /\ files' = [files EXCEPT ![h].pc = "writing",
                                         ![h].item = host]
                /\ lock' = h
           ELSE /\ files' = [files EXCEPT ![h] = FilesIdle]
                /\ UNCHANGED lock
        /\ UNCHANGED <<ledger, host, deployed, script, scripts, deploys, wrote,
                       overrun, shipped, crashes, record, marker>>

(* The candidate replaces the file, whatever it has become since, and the  *)
(* lock is released.                                                       *)
FilesReplace(h) ==
    LET r == files[h].receipt
    IN  /\ files[h].pc = "writing"
        /\ r # Repair
        /\ host' = [Close(files[h].item) EXCEPT !.receipt = r]
        /\ wrote' = [wrote EXCEPT ![r] = Fingerprint(host)]
        /\ files' = [files EXCEPT ![h].pc = "written", ![h].item = None]
        /\ lock' = None
        /\ UNCHANGED <<ledger, deployed, script, scripts, deploys, overrun, shipped,
                       crashes, record, marker>>

(* The reads of apply_completion_receipt ...                               *)
ApplyRead(h) ==
    LET r == files[h].receipt
        after == files[h].span.after
    IN  /\ files[h].pc = "written"
        /\ files' = [files EXCEPT ![h] =
              IF /\ r \notin expired
                 /\ r \notin consumed
                 /\ applied[r] = None
                 /\ claimed[r] # None
                 /\ claimed[r].after = after
              THEN [@ EXCEPT !.pc = "applying"] ELSE FilesIdle]
        /\ UNCHANGED <<ledger, tree, crashes, record, marker>>

(* ... and its insert.                                                     *)
ApplyInsert(h) ==
    LET r == files[h].receipt
    IN  /\ files[h].pc = "applying"
        /\ applied' = [applied EXCEPT ![r] =
              IF @ = None THEN [before |-> claimed[r].before, after |-> files[h].span.after]
              ELSE @]
        /\ files' = [files EXCEPT ![h] = FilesIdle]
        /\ UNCHANGED <<authorized, expired, claimed, consumed, terminals, tree,
                       crashes, record, marker>>

(* The repair path of mark_done_files: no receipt, no gate, no metadata.   *)
FilesRepair(h) ==
    /\ files[h] = FilesIdle
    /\ lock = None
    /\ IF IsDone(host) THEN host.owned ELSE TRUE
    /\ files' = [files EXCEPT ![h] = [FilesIdle EXCEPT !.pc = "writing", !.receipt = Repair,
                                                       !.item = host]]
    /\ lock' = h
    /\ UNCHANGED <<ledger, host, deployed, script, scripts, deploys, wrote, overrun,
                   shipped, crashes, record, marker>>

FilesRepairReplace(h) ==
    /\ files[h].pc = "writing"
    /\ files[h].receipt = Repair
    /\ host' = Close(files[h].item)
    /\ files' = [files EXCEPT ![h] = FilesIdle]
    /\ lock' = None
    /\ UNCHANGED <<ledger, deployed, script, scripts, deploys, wrote, overrun,
                   shipped, crashes, record, marker>>

(* The command is killed, or the answer of a remote call is lost and it    *)
(* gives up.  A dead owner's lock is removed by the next to want it.       *)
FilesCrash(h) ==
    /\ files[h] # FilesIdle
    /\ files' = [files EXCEPT ![h] = FilesIdle]
    /\ crashes < MaxCrashes
    /\ crashes' = crashes + 1
    /\ lock' = IF lock = h THEN None ELSE lock
    /\ UNCHANGED <<ledger, host, deployed, script, scripts, deploys, wrote, overrun,
                   shipped, record, marker>>

-----------------------------------------------------------------------------
(* mark-done-record, on the control plane.                                 *)

(* No second terminal under a different authority.                         *)
NoOtherTerminal(r) == terminals \subseteq {r}

(* The ledger reads of consume_completion_receipt.                         *)
ConsumeRead(w, r) ==
    /\ record[w] = RecordIdle
    /\ authorized[r] # None
    /\ r \notin expired
    /\ r \notin consumed
    /\ applied[r] # None
    /\ NoOtherTerminal(r)
    /\ record' = [record EXCEPT ![w] = [pc |-> "checked", receipt |-> r,
                                        found |-> applied[r].after]]
    /\ UNCHANGED <<ledger, tree, files, crashes, marker>>

(* Mutant: an owner or a session may be left on the item. *)
DeployedAsOwned(found) == IsDone(deployed) /\ Fingerprint(deployed) = found

(* The deployed item must be the one the receipt applied, and unowned.     *)
DeployedAs(found) ==
    IsDone(deployed) /\ Released(deployed) /\ Fingerprint(deployed) = found

ConsumeVerify(w) ==
    /\ record[w].pc = "checked"
    /\ record' = [record EXCEPT ![w] =
          IF DeployedAs(@.found) THEN [@ EXCEPT !.pc = "verified"] ELSE RecordIdle]
    /\ UNCHANGED <<ledger, tree, files, crashes, marker>>

(* task.done and consumed, in one savepoint.                               *)
ConsumeInsert(w) ==
    /\ record[w].pc = "verified"
    /\ terminals' = terminals \cup {record[w].receipt}
    /\ consumed' = consumed \cup {record[w].receipt}
    /\ record' = [record EXCEPT ![w] = RecordIdle]
    /\ UNCHANGED <<authorized, expired, claimed, applied, tree, files, crashes, marker>>

(* mark_done_record (repair only): any earlier task.done makes it a no-op. *)
RepairRead(w) ==
    /\ record[w] = RecordIdle
    /\ terminals = {}
    /\ record' = [record EXCEPT ![w].pc = "repairing"]
    /\ UNCHANGED <<ledger, tree, files, crashes, marker>>

RepairInsert(w) ==
    /\ record[w].pc = "repairing"
    /\ terminals' = terminals \cup {w}
    /\ record' = [record EXCEPT ![w] = RecordIdle]
    /\ UNCHANGED <<authorized, expired, claimed, applied, consumed, tree, files,
                   crashes, marker>>

-----------------------------------------------------------------------------
(* mark_done_task, on the control plane.                                   *)

MarkAt(m, pc, i) == marker' = [marker EXCEPT ![m] = [pc |-> pc, item |-> i]]

(* Nothing is recorded under the key yet, and the gate passes.  Other      *)
(* terminals are not looked at.                                            *)
MarkBegin(m) ==
    /\ marker[m].pc = "idle" /\ m \notin terminals
    /\ GatePasses(deployed)
    /\ MarkAt(m, "gated", None)
    /\ UNCHANGED <<ledger, tree, files, crashes, record>>

(* do_mark_done: an item that is done already is a success.                *)
MarkScriptRead(m) ==
    /\ marker[m].pc = "gated"
    /\ IF deployed.status = "done" THEN MarkAt(m, "ok", None)
                                   ELSE MarkAt(m, "script", Close(deployed))
    /\ UNCHANGED <<ledger, tree, files, crashes, record>>

MarkScriptWrite(m) ==
    /\ marker[m].pc = "script"
    /\ deployed' = marker[m].item
    /\ shipped' = shipped \cup {marker[m].item}
    /\ MarkAt(m, "ok", None)
    /\ UNCHANGED <<ledger, host, script, scripts, deploys, lock, wrote, overrun, files, crashes,
                   record>>

(* The script refuses the item, or cannot be run.                          *)
MarkScriptFails(m) ==
    /\ marker[m].pc = "gated"
    /\ MarkAt(m, "failed", None)
    /\ UNCHANGED <<ledger, tree, files, crashes, record>>

(* _handle_mark_done_success                                               *)
MarkRecord(m) ==
    /\ marker[m].pc = "ok"
    /\ terminals' = terminals \cup {m}
    /\ MarkAt(m, "idle", None)
    /\ UNCHANGED <<authorized, expired, claimed, applied, consumed, tree, files,
                   crashes, record>>

MarkCrash(m) ==
    /\ marker[m].pc \in {"gated", "script", "ok"} /\ crashes < MaxCrashes
    /\ crashes' = crashes + 1
    /\ MarkAt(m, "idle", None)
    /\ UNCHANGED <<ledger, tree, files, record>>

-----------------------------------------------------------------------------
Files(h) ==
    \/ \E r \in Receipts : FilesPreflight(h, r)
    \/ FilesFingerprint(h)
    \/ ClaimRead(h)
    \/ ClaimInsert(h)
    \/ FilesLocked(h)
    \/ FilesReplace(h)
    \/ ApplyRead(h)
    \/ ApplyInsert(h)
    \/ FilesRepair(h)
    \/ FilesRepairReplace(h)
    \/ FilesCrash(h)

Record(w) ==
    \/ \E r \in Receipts : PrepareGate(w, r)
    \/ PrepareIssue(w)
    \/ \E r \in Receipts : ConsumeRead(w, r)
    \/ ConsumeVerify(w)
    \/ ConsumeInsert(w)
    \/ RepairRead(w)
    \/ RepairInsert(w)

Mark(m) ==
    \/ MarkBegin(m) \/ MarkScriptRead(m) \/ MarkScriptWrite(m) \/ MarkScriptFails(m)
    \/ MarkRecord(m) \/ MarkCrash(m)

Next ==
    \/ ScriptRead
    \/ ScriptWrite
    \/ Deploy
    \/ \E r \in Receipts : Expire(r)
    \/ \E h \in Hosts : Files(h)
    \/ \E w \in Recorders : Record(w)
    \/ \E m \in Markers : Mark(m)

Spec == Init /\ [][Next]_vars

(* A files command that is not killed runs to its end, and the operator    *)
(* repeats it for every receipt it may still be repeated for.              *)
FilesStep(h) ==
    \/ FilesFingerprint(h) \/ ClaimRead(h) \/ ClaimInsert(h) \/ FilesLocked(h)
    \/ FilesReplace(h) \/ FilesRepairReplace(h) \/ ApplyRead(h) \/ ApplyInsert(h)

LiveSpec ==
    /\ Spec
    /\ \A h \in Hosts : WF_vars(FilesStep(h))
    /\ \A h \in Hosts, r \in Receipts : SF_vars(FilesPreflight(h, r))

-----------------------------------------------------------------------------
(* The ledger never holds a chain that lookup_receipt_for_preflight would  *)
(* call incomplete or conflicting (completion.py, 1123-1397), whatever     *)
(* commands overlap, are killed or repeated.                               *)
ChainNeverBroken == \A r \in Receipts : ~ChainBroken(r)

(* The checklist is written done under a receipt only after the ledger     *)
(* holds its claim, and what the write replaces is in the state that the   *)
(* receipt binds: of all the file's writers, other files commands and      *)
(* repairs included, only a harness script, which takes no lock, can slip  *)
(* in between the locked read and the replacement (transitions.py,         *)
(* 1312-1322).                                                             *)
WriteIsAuthorized ==
    \A r \in Receipts : wrote[r] # None =>
        /\ claimed[r] # None
        /\ claimed[r].before = authorized[r]
        /\ wrote[r] = authorized[r] \/ r \in overrun

(* An applied receipt is an acknowledged write of the file under that very *)
(* receipt: a done item somebody else left is never acknowledged.          *)
AppliedIsWritten == \A r \in Receipts : applied[r] # None => wrote[r] # None

(* A consumed receipt's item reached the control plane done, closed,       *)
(* unowned and on the branch the receipt applied.                          *)
ConsumedIsShipped ==
    \A r \in consumed : \E i \in shipped :
        IsDone(i) /\ ~i.owned /\ Fingerprint(i) = applied[r].after

(* "no second terminal under a different authority" (completion.py, 975).  *)
(* The code looks first and inserts later, so a repair or a mark_done_task *)
(* may come in between.                                                    *)
NoSecondTerminal == [][\A r \in consumed' \ consumed : terminals \subseteq {r}]_vars

(* A consumed receipt binds an item that passes the completion gate, as    *)
(* prepare_completion_receipt promises (completion.py, 503).  The code     *)
(* does not have this guarantee: the file is read again, after the gate,   *)
(* for the fingerprint (README, known divergences).                        *)
ConsumedWasReviewed == \A r \in consumed : GatePasses(authorized[r])

(* Once the file is written under a receipt, repeating the files command   *)
(* gets it applied, unless the receipt expires or the item is changed      *)
(* again first (completion_cli.py, 262-268).                               *)
Drifted(r) == host.receipt # r \/ Fingerprint(host) # DoneFingerprint(authorized[r])

WrittenIsApplied ==
    \A r \in Receipts :
        wrote[r] # None ~> (applied[r] # None \/ r \in expired \/ Drifted(r))
=============================================================================
