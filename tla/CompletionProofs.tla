-------------------------- MODULE CompletionProofs --------------------------
(***************************************************************************)
(* Proofs about Completion: the event chain of a receipt and the two files *)
(* it speaks of never disagree, whatever commands overlap, are killed or   *)
(* are repeated, and however many hosts, recorders, receipts and scripts   *)
(* there are.                                                              *)
(*                                                                         *)
(* The chain is kept because each of its four events pins the same pair of *)
(* fingerprints: the one the receipt was issued for and the one mark-done  *)
(* makes of it.  A files command therefore carries nothing of its own from *)
(* one step to the next (FilesInv).  That a write happened at all is       *)
(* learned from the item, whose completion_receipt metadata only a write   *)
(* under that receipt sets, although scripts copy it (ProvenanceInv).      *)
(* What a write replaces is what its command read, because the lock keeps  *)
(* every writer but the scripts away in between (LockInv, BoundInv).       *)
(***************************************************************************)
EXTENDS Completion, TLAPS

(* What a receipt issued for fingerprint f claims and applies.             *)
DoneSpan(f) == [before |-> f, after |-> DoneFingerprint(f)]

(* The chain of one receipt.                                               *)
ChainInv(r) ==
    /\ claimed[r] # None =>
          /\ authorized[r] # None
          /\ claimed[r] = DoneSpan(authorized[r])
    /\ applied[r] # None =>
          /\ applied[r] = claimed[r]
          /\ wrote[r] # None
    /\ wrote[r] # None =>
          /\ claimed[r] # None
          /\ wrote[r] = authorized[r] \/ r \in overrun
    /\ r \in consumed =>
          /\ applied[r] # None
          /\ r \in terminals
          /\ \E i \in shipped : IsDone(i) /\ ~i.owned /\ Fingerprint(i) = applied[r].after

(* What a files command remembers, at each of its steps.                   *)
UnderReceipt(h) ==
    /\ files[h].receipt \in Receipts
    /\ authorized[files[h].receipt] # None

Reserved(h) ==
    /\ UnderReceipt(h)
    /\ files[h].span = DoneSpan(authorized[files[h].receipt])

FilesInv(h) ==
    /\ files[h].pc = "preflighted" => UnderReceipt(h)
    /\ files[h].pc = "read" =>
          /\ UnderReceipt(h)
          /\ files[h].span \in Span
          /\ files[h].span = DoneSpan(files[h].span.before)
    /\ files[h].pc = "claiming" => Reserved(h)
    /\ files[h].pc = "claimed" => Reserved(h) /\ claimed[files[h].receipt] # None
    /\ files[h].pc = "writing" =>
          /\ files[h].item \in Items
          /\ files[h].receipt # Repair =>
                Reserved(h) /\ claimed[files[h].receipt] # None
    /\ files[h].pc \in {"written", "applying"} =>
          Reserved(h) /\ wrote[files[h].receipt] # None

(* The checklist lock is held from the read to the replacement.            *)
LockInv == \A h \in Hosts : files[h].pc = "writing" <=> lock = h

(* While it is held, only a script changes the item.                       *)
BoundInv(h) ==
    files[h].pc = "writing" /\ files[h].receipt # Repair =>
        \/ Fingerprint(host) = authorized[files[h].receipt]
        \/ files[h].receipt \in overrun

(* What a mark_done_task is about to write.                                *)
MarkInv(m) == marker[m].pc = "script" => marker[m].item \in Items

(* An item that names a receipt descends from a write under it.            *)
Descends(i) == i.receipt \in Receipts => wrote[i.receipt] # None

ProvenanceInv ==
    /\ Descends(host)
    /\ script # None => Descends(script)
    /\ \A h \in Hosts : files[h].item # None => Descends(files[h].item)

(* What a recorder remembers.                                              *)
RecordInv(w) ==
    /\ record[w].pc = "gated" =>
          /\ record[w].receipt \in Receipts
          /\ authorized[record[w].receipt] = None
    /\ record[w].pc \in {"checked", "verified"} =>
          /\ record[w].receipt \in Receipts
          /\ applied[record[w].receipt] # None
          /\ record[w].found = applied[record[w].receipt].after
    /\ record[w].pc = "verified" =>
          \E i \in shipped : IsDone(i) /\ ~i.owned /\ Fingerprint(i) = record[w].found

(* A receipt id is drawn by one prepare command.                           *)
GatedInv ==
    \A v, w \in Recorders :
        /\ record[v].pc = "gated" /\ record[w].pc = "gated"
        /\ record[v].receipt = record[w].receipt
        => v = w

IInv ==
    /\ TypeOK
    /\ deployed \in shipped
    /\ \A r \in Receipts : ChainInv(r)
    /\ \A h \in Hosts : FilesInv(h)
    /\ ProvenanceInv
    /\ \A w \in Recorders : RecordInv(w)
    /\ GatedInv
    /\ LockInv
    /\ \A h \in Hosts : BoundInv(h)
    /\ \A m \in Markers : MarkInv(m)

-----------------------------------------------------------------------------
(* The items and fingerprints the actions build.                           *)

LEMMA FingerprintTyped == \A i \in Items : Fingerprint(i) \in Fingerprints
  BY DEF Items, Fingerprints, Fingerprint

LEMMA DoneFingerprintTyped == \A f \in Fingerprints :
        /\ DoneFingerprint(f) \in Fingerprints
        /\ DoneSpan(f) \in Span
  BY DEF Fingerprints, DoneFingerprint, DoneSpan, Span, Statuses, Workflows

(* Writing an item done keeps its receipt, or sets it.                     *)
LEMMA CloseTyped ==
    \A i \in Items, r \in Receipts :
        /\ Close(i) \in Items
        /\ Close(i).receipt = i.receipt
        /\ [Close(i) EXCEPT !.receipt = r] \in Items
        /\ [Close(i) EXCEPT !.receipt = r].receipt = r
<1> SUFFICES ASSUME NEW i \in Items, NEW r \in Receipts
             PROVE  /\ Close(i) \in Items
                    /\ Close(i).receipt = i.receipt
                    /\ [Close(i) EXCEPT !.receipt = r] \in Items
                    /\ [Close(i) EXCEPT !.receipt = r].receipt = r
  OBVIOUS
<1> DEFINE c == Close(i)
<1>1. c \in Items /\ c.receipt = i.receipt
  BY DEF Close, Items, Statuses, Workflows
<1> HIDE DEF c
<1>2. [c EXCEPT !.receipt = r] \in Items /\ [c EXCEPT !.receipt = r].receipt = r
  BY <1>1 DEF Items
<1> QED
  BY <1>1, <1>2 DEF c

(* No harnessctl command touches the receipt metadata.                     *)
LEMMA ScriptsKeepReceipt ==
    \A i \in Items : \A j \in ScriptResults(i) : j \in Items /\ j.receipt = i.receipt
<1> SUFFICES ASSUME NEW i \in Items, NEW j \in ScriptResults(i)
             PROVE  j \in Items /\ j.receipt = i.receipt
  OBVIOUS
<1> USE DEF Items, Statuses, Workflows
<1>1. CASE j \in Assign(i)
  <2>1. PICK b \in Branches :
            j = [i EXCEPT !.wf = "assigned", !.branch = b, !.owned = TRUE]
    BY <1>1, Zenon DEF Assign
  <2> QED
    BY <2>1
<1>2. CASE j \in Accept(i)
  <2>1. PICK b \in Branches :
            j = [i EXCEPT !.status = "doing", !.wf = "running", !.branch = b,
                          !.owned = TRUE]
    BY <1>2, Zenon DEF Accept
  <2> QED
    BY <2>1
<1>3. CASE j \in Decline(i)
  BY <1>3 DEF Decline
<1>4. CASE j \in RenewLease(i)
  BY <1>4 DEF RenewLease
<1>5. CASE j \in Release(i)
  BY <1>5 DEF Release
<1>6. CASE j \in Handoff(i)
  BY <1>6 DEF Handoff
<1>7. CASE j \in Blocker(i)
  BY <1>7 DEF Blocker
<1>8. CASE j \in Unblock(i)
  BY <1>8 DEF Unblock
<1>9. CASE j \in Closeout(i)
  BY <1>9 DEF Closeout
<1>10. CASE j \in ReviewResult(i)
  BY <1>10 DEF ReviewResult
<1>11. CASE j \in MarkDone(i)
  <2>1. j = Close(i)
    BY <1>11 DEF MarkDone
  <2> QED
    BY <2>1 DEF Close
<1> QED
  BY <1>1, <1>2, <1>3, <1>4, <1>5, <1>6, <1>7, <1>8, <1>9, <1>10, <1>11 DEF ScriptResults

(* The names a prover needs of the constants.                              *)
LEMMA NoneIsNothing ==
    /\ None \notin Fingerprints /\ None \notin Items
    /\ None \notin Span /\ None \notin Receipts
    /\ Repair \notin Receipts /\ None \notin Hosts
    /\ InitialItem \in Items /\ InitialItem.receipt \notin Receipts
  BY CompletionAssumption, TaskItemAssumption

-----------------------------------------------------------------------------
(* The invariant holds at the start.                                       *)

LEMMA InitTyped == Init => TypeOK
<1> SUFFICES ASSUME Init PROVE TypeOK
  OBVIOUS
<1>1. FilesIdle \in FilesCommand /\ RecordIdle \in RecordCommand /\ MarkIdle \in MarkCommand
  BY DEF FilesIdle, FilesCommand, RecordIdle, RecordCommand, MarkIdle, MarkCommand
<1> QED
  BY <1>1, CompletionAssumption, NoneIsNothing DEF Init, TypeOK

LEMMA InitInv == Init => IInv
<1> SUFFICES ASSUME Init PROVE IInv
  OBVIOUS
<1>1. \A r \in Receipts : ChainInv(r)
  BY DEF Init, ChainInv
<1>2. \A h \in Hosts : FilesInv(h)
  BY DEF Init, FilesInv, FilesIdle
<1>3. ProvenanceInv
  BY NoneIsNothing DEF Init, ProvenanceInv, Descends, FilesIdle
<1>4. (\A w \in Recorders : RecordInv(w)) /\ GatedInv
  BY DEF Init, RecordInv, GatedInv, RecordIdle
<1>5. LockInv /\ (\A h \in Hosts : BoundInv(h)) /\ (\A m \in Markers : MarkInv(m))
  BY NoneIsNothing DEF Init, LockInv, BoundInv, MarkInv, FilesIdle, MarkIdle
<1> QED
  BY <1>1, <1>2, <1>3, <1>4, <1>5, InitTyped DEF Init, IInv

-----------------------------------------------------------------------------
(* Every step keeps the types.                                             *)

(* A files command's record changes to something of the same kind.         *)
LEMMA FilesChange ==
    ASSUME NEW h \in Hosts, NEW c \in FilesCommand, TypeOK, files' = [files EXCEPT ![h] = c]
    PROVE  files' \in [Hosts -> FilesCommand]
  BY DEF TypeOK

LEMMA RecordChange ==
    ASSUME NEW w \in Recorders, NEW c \in RecordCommand, TypeOK,
           record' = [record EXCEPT ![w] = c]
    PROVE  record' \in [Recorders -> RecordCommand]
  BY DEF TypeOK

LEMMA IdleTyped == FilesIdle \in FilesCommand /\ RecordIdle \in RecordCommand
  BY DEF FilesIdle, FilesCommand, RecordIdle, RecordCommand

LEMMA FilesTyped ==
    ASSUME IInv, NEW h \in Hosts, Files(h)
    PROVE  files' \in [Hosts -> FilesCommand]
<1> USE DEF IInv
<1>0. TypeOK /\ files[h] \in FilesCommand /\ FilesInv(h) /\ host \in Items
  BY DEF TypeOK
<1> USE IdleTyped
<1>1. CASE \E r \in Receipts : FilesPreflight(h, r)
  <2>1. PICK r \in Receipts : FilesPreflight(h, r)
    BY <1>1
  <2>2. [files[h] EXCEPT !.pc = "preflighted", !.receipt = r] \in FilesCommand
    BY <1>0 DEF FilesCommand
  <2> QED
    BY <2>1, <2>2, <1>0, FilesChange DEF FilesPreflight
<1>2. CASE FilesFingerprint(h)
  <2> DEFINE f == Fingerprint(host)
             s == [before |-> f, after |-> DoneFingerprint(f)]
  <2>1. s \in Span
    BY <1>0, FingerprintTyped, DoneFingerprintTyped DEF DoneSpan
  <2> HIDE DEF f
  <2>2. [files[h] EXCEPT !.pc = "read", !.span = s] \in FilesCommand
    BY <1>0, <2>1 DEF FilesCommand
  <2> QED
    BY <1>2, <2>2, <1>0, FilesChange DEF FilesFingerprint, f
<1>3. CASE ClaimRead(h)
  <2> DEFINE p == PriorSpan(files[h].receipt)
  <2>1. /\ [files[h] EXCEPT !.pc = "claiming"] \in FilesCommand
        /\ p # None => [files[h] EXCEPT !.pc = "claimed", !.span = p] \in FilesCommand
    <3>1. files[h].receipt \in Receipts
      BY <1>0, <1>3 DEF FilesInv, UnderReceipt, ClaimRead
    <3>2. p \in Span \cup {None}
      BY <3>1, <1>0 DEF PriorSpan, TypeOK
    <3> QED
      BY <3>2, <1>0 DEF FilesCommand
  <2> HIDE DEF p
  <2>2. PICK c \in FilesCommand : files' = [files EXCEPT ![h] = c]
    BY <2>1, <1>0, <1>3 DEF ClaimRead, p
  <2> QED
    BY <2>2, <1>0, FilesChange
<1>4. CASE ClaimInsert(h)
  <2>1. [files[h] EXCEPT !.pc = "claimed"] \in FilesCommand
    BY <1>0 DEF FilesCommand
  <2> QED
    BY <1>4, <2>1, <1>0, FilesChange DEF ClaimInsert
<1>5. CASE FilesLocked(h)
  <2>1. /\ [files[h] EXCEPT !.pc = "written"] \in FilesCommand
        /\ [files[h] EXCEPT !.pc = "writing", !.item = host] \in FilesCommand
    BY <1>0 DEF FilesCommand
  <2>2. \/ files' = [files EXCEPT ![h] = [files[h] EXCEPT !.pc = "written"]]
        \/ files' = [files EXCEPT ![h] = [files[h] EXCEPT !.pc = "writing", !.item = host]]
        \/ files' = [files EXCEPT ![h] = FilesIdle]
    <3> HIDE DEF IInv
    <3> QED BY <1>5 DEF FilesLocked
  <2> QED
    BY <2>1, <2>2, <1>0, FilesChange
<1>6. CASE FilesReplace(h)
  <2>1. [files[h] EXCEPT !.pc = "written", !.item = None] \in FilesCommand
    BY <1>0 DEF FilesCommand
  <2>2. files' = [files EXCEPT ![h] = [files[h] EXCEPT !.pc = "written", !.item = None]]
    BY <1>6 DEF FilesReplace
  <2> QED
    BY <2>1, <2>2, <1>0, FilesChange
<1>7. CASE ApplyRead(h)
  <2>1. [files[h] EXCEPT !.pc = "applying"] \in FilesCommand
    BY <1>0 DEF FilesCommand
  <2>2. PICK c \in FilesCommand : files' = [files EXCEPT ![h] = c]
    BY <2>1, <1>0, <1>7 DEF ApplyRead
  <2> QED
    BY <2>2, <1>0, FilesChange
<1>8. CASE ApplyInsert(h)
  BY <1>8, <1>0, FilesChange DEF ApplyInsert
<1>9. CASE FilesRepair(h)
  <2>1. [FilesIdle EXCEPT !.pc = "writing", !.receipt = Repair, !.item = host]
          \in FilesCommand
    BY <1>0 DEF FilesCommand
  <2> QED
    BY <1>9, <2>1, <1>0, FilesChange DEF FilesRepair
<1>10. CASE FilesRepairReplace(h)
  BY <1>10, <1>0, FilesChange DEF FilesRepairReplace
<1>11. CASE FilesCrash(h)
  BY <1>11, <1>0, FilesChange DEF FilesCrash
<1> QED
  BY <1>1, <1>2, <1>3, <1>4, <1>5, <1>6, <1>7, <1>8, <1>9, <1>10, <1>11 DEF Files

LEMMA RecordTyped ==
    ASSUME IInv, NEW w \in Recorders, Record(w)
    PROVE  record' \in [Recorders -> RecordCommand]
<1>0. TypeOK /\ record[w] \in RecordCommand
  BY DEF IInv, TypeOK
<1> USE IdleTyped
<1>1. CASE \E r \in Receipts : PrepareGate(w, r)
  <2>1. PICK r \in Receipts : PrepareGate(w, r)
    BY <1>1
  <2>2. [record[w] EXCEPT !.pc = "gated", !.receipt = r] \in RecordCommand
    BY <1>0 DEF RecordCommand
  <2> QED
    BY <2>1, <2>2, <1>0, RecordChange DEF PrepareGate
<1>2. CASE PrepareIssue(w)
  BY <1>2, <1>0, RecordChange DEF PrepareIssue
<1>3. CASE \E r \in Receipts : ConsumeRead(w, r)
  <2>1. PICK r \in Receipts : ConsumeRead(w, r)
    BY <1>3
  <2>2. applied[r].after \in Fingerprints
    BY <2>1, <1>0 DEF ConsumeRead, TypeOK, Span
  <2>3. [pc |-> "checked", receipt |-> r, found |-> applied[r].after] \in RecordCommand
    BY <2>2 DEF RecordCommand
  <2> QED
    BY <2>1, <2>3, <1>0, RecordChange DEF ConsumeRead
<1>4. CASE ConsumeVerify(w)
  <2>1. [record[w] EXCEPT !.pc = "verified"] \in RecordCommand
    BY <1>0 DEF RecordCommand
  <2>2. PICK c \in RecordCommand : record' = [record EXCEPT ![w] = c]
    BY <2>1, <1>0, <1>4 DEF ConsumeVerify
  <2> QED
    BY <2>2, <1>0, RecordChange
<1>5. CASE ConsumeInsert(w)
  BY <1>5, <1>0, RecordChange DEF ConsumeInsert
<1>6. CASE RepairRead(w)
  <2>1. [record[w] EXCEPT !.pc = "repairing"] \in RecordCommand
    BY <1>0 DEF RecordCommand
  <2> QED
    BY <1>6, <2>1, <1>0, RecordChange DEF RepairRead
<1>7. CASE RepairInsert(w)
  BY <1>7, <1>0, RecordChange DEF RepairInsert
<1> QED
  BY <1>1, <1>2, <1>3, <1>4, <1>5, <1>6, <1>7 DEF Record

(* mark_done_task touches no receipt, and neither the coding host's file   *)
(* nor another command.                                                    *)
LEMMA MarkFrame ==
    ASSUME NEW m \in Markers, Mark(m)
    PROVE  /\ UNCHANGED <<authorized, expired, claimed, applied, consumed, host, script,
                          scripts, deploys, lock, wrote, overrun, files, record>>
           /\ terminals \subseteq terminals' /\ shipped \subseteq shipped'
<1> USE DEF ledger, tree
<1>1. CASE MarkBegin(m)
  BY <1>1 DEF MarkBegin
<1>2. CASE MarkScriptRead(m)
  BY <1>2 DEF MarkScriptRead
<1>3. CASE MarkScriptWrite(m)
  BY <1>3 DEF MarkScriptWrite
<1>4. CASE MarkScriptFails(m)
  BY <1>4 DEF MarkScriptFails
<1>5. CASE MarkRecord(m)
  BY <1>5 DEF MarkRecord
<1>6. CASE MarkCrash(m)
  BY <1>6 DEF MarkCrash
<1> QED
  BY <1>1, <1>2, <1>3, <1>4, <1>5, <1>6 DEF Mark

(* Its own steps keep the types, and it writes an item it has read.        *)
LEMMA MarkTyped ==
    ASSUME IInv, NEW m \in Markers, Mark(m)
    PROVE  /\ marker' \in [Markers -> MarkCommand]
           /\ \A n \in Markers : MarkInv(n)'
           /\ deployed' \in Items /\ deployed' \in shipped' /\ shipped' \subseteq Items
           /\ terminals' \subseteq Receipts \cup Recorders \cup Markers
           /\ crashes' \in 0..MaxCrashes
<1>0. /\ TypeOK /\ deployed \in shipped /\ MarkInv(m)
      /\ \A n \in Markers : MarkInv(n)
  BY DEF IInv
<1> DEFINE Kept == /\ deployed' \in Items /\ deployed' \in shipped' /\ shipped' \subseteq Items
                   /\ terminals' \subseteq Receipts \cup Recorders \cup Markers
                   /\ crashes' \in 0..MaxCrashes
<1>1. ASSUME NEW pc \in {"idle", "gated", "script", "ok", "failed"},
             NEW i \in Items \cup {None}, pc = "script" => i \in Items,
             MarkAt(m, pc, i)
      PROVE  /\ marker' \in [Markers -> MarkCommand]
             /\ \A n \in Markers : MarkInv(n)'
  <2>1. [pc |-> pc, item |-> i] \in MarkCommand
    BY DEF MarkCommand
  <2>2. marker' = [marker EXCEPT ![m] = [pc |-> pc, item |-> i]]
    BY <1>1 DEF MarkAt
  <2> QED
    BY <1>0, <1>1, <2>1, <2>2 DEF TypeOK, MarkInv
<1>2. UNCHANGED <<deployed, shipped, terminals, crashes>> => Kept
  BY <1>0 DEF TypeOK
<1> USE DEF ledger, tree
<1>3. CASE MarkBegin(m)
  BY <1>1, <1>2, <1>3 DEF MarkBegin
<1>4. CASE MarkScriptRead(m)
  <2>1. Close(deployed) \in Items
    BY <1>0 DEF TypeOK, Close, Items, Statuses, Workflows
  <2> QED
    BY <1>1, <1>2, <1>4, <2>1 DEF MarkScriptRead
<1>5. CASE MarkScriptWrite(m)
  <2>1. marker[m].item \in Items
    BY <1>0, <1>5 DEF MarkScriptWrite, MarkInv
  <2> QED
    BY <1>0, <1>1, <1>5, <2>1 DEF MarkScriptWrite, TypeOK
<1>6. CASE MarkScriptFails(m)
  BY <1>1, <1>2, <1>6 DEF MarkScriptFails
<1>7. CASE MarkRecord(m)
  BY <1>0, <1>1, <1>7 DEF MarkRecord, TypeOK
<1>8. CASE MarkCrash(m)
  <2>1. crashes' \in 0..MaxCrashes
    BY <1>0, <1>8, CompletionAssumption DEF MarkCrash, TypeOK
  <2> QED
    BY <1>0, <1>1, <1>8, <2>1 DEF MarkCrash, TypeOK
<1> QED
  BY <1>3, <1>4, <1>5, <1>6, <1>7, <1>8 DEF Mark

LEMMA Typed == ASSUME IInv, Next PROVE TypeOK'
<1>0. TypeOK
  BY DEF IInv
<1> USE DEF TypeOK, ledger, tree
<1>1. CASE ScriptRead
  <2>1. script' \in Items \cup {None}
    BY <1>0, <1>1, ScriptsKeepReceipt DEF ScriptRead
  <2>2. scripts' \in 0..MaxScripts
    BY <1>0, <1>1, CompletionAssumption DEF ScriptRead
  <2> QED
    BY <1>0, <1>1, <2>1, <2>2 DEF ScriptRead
<1>2. CASE ScriptWrite
  BY <1>0, <1>2 DEF ScriptWrite
<1>3. CASE Deploy
  <2>1. deploys' \in 0..MaxDeploys
    BY <1>0, <1>3, CompletionAssumption DEF Deploy
  <2> QED
    BY <1>0, <1>3, <2>1 DEF Deploy
<1>4. CASE \E r \in Receipts : Expire(r)
  BY <1>0, <1>4 DEF Expire
<1>5. ASSUME NEW h \in Hosts, Files(h) PROVE TypeOK'
  <2>0. files' \in [Hosts -> FilesCommand] /\ files[h] \in FilesCommand /\ FilesInv(h)
    BY <1>5, <1>0, FilesTyped DEF IInv
  <2>1. CASE \E r \in Receipts : FilesPreflight(h, r)
    BY <1>0, <2>0, <2>1 DEF FilesPreflight
  <2>2. CASE FilesFingerprint(h)
    BY <1>0, <2>0, <2>2 DEF FilesFingerprint
  <2>3. CASE ClaimRead(h)
    BY <1>0, <2>0, <2>3 DEF ClaimRead
  <2>4. CASE ClaimInsert(h)
    <3>1. files[h].span \in Span \cup {None}
      BY <2>0 DEF FilesCommand
    <3>2. claimed' \in [Receipts -> Span \cup {None}]
      BY <1>0, <2>4, <3>1 DEF ClaimInsert
    <3> QED
      BY <1>0, <2>0, <2>4, <3>2 DEF ClaimInsert
  <2>5. CASE FilesLocked(h)
    <3>1. lock' \in Hosts \cup {None}
      BY <1>0, <2>5 DEF FilesLocked
    <3> QED
      BY <1>0, <2>0, <2>5, <3>1 DEF FilesLocked
  <2>6. CASE FilesReplace(h)
    <3>1. files[h].receipt \in Receipts /\ files[h].item \in Items
      BY <2>0, <2>6 DEF FilesInv, FilesReplace, Reserved, UnderReceipt
    <3>2. host' \in Items /\ Fingerprint(host) \in Fingerprints
      BY <1>0, <2>6, <3>1, CloseTyped, FingerprintTyped DEF FilesReplace
    <3>3. wrote' \in [Receipts -> Fingerprints \cup {None}]
      BY <1>0, <2>6, <3>2 DEF FilesReplace
    <3> QED
      BY <1>0, <2>0, <2>6, <3>2, <3>3 DEF FilesReplace
  <2>7. CASE ApplyRead(h)
    BY <1>0, <2>0, <2>7 DEF ApplyRead
  <2>8. CASE ApplyInsert(h)
    <3>1. /\ files[h].receipt \in Receipts
          /\ files[h].span = DoneSpan(authorized[files[h].receipt])
          /\ authorized[files[h].receipt] \in Fingerprints
          /\ claimed[files[h].receipt] \in Span
      BY <1>0, <2>0, <2>8 DEF FilesInv, ApplyInsert, Reserved, UnderReceipt, IInv, ChainInv
    <3>2. /\ files[h].span.after \in Fingerprints
          /\ claimed[files[h].receipt].before \in Fingerprints
      BY <3>1, DoneFingerprintTyped DEF Span
    <3>3. [before |-> claimed[files[h].receipt].before, after |-> files[h].span.after] \in Span
      BY <3>2 DEF Span
    <3>4. applied' \in [Receipts -> Span \cup {None}]
      BY <1>0, <2>8, <3>1, <3>3 DEF ApplyInsert
    <3> QED
      BY <1>0, <2>0, <2>8, <3>4 DEF ApplyInsert
  <2>9. CASE FilesRepair(h)
    BY <1>0, <2>0, <2>9 DEF FilesRepair
  <2>10. CASE FilesRepairReplace(h)
    <3>1. files[h].item \in Items
      BY <2>0, <2>10 DEF FilesInv, FilesRepairReplace
    <3>2. host' \in Items
      BY <2>10, <3>1 DEF FilesRepairReplace, Close, Items, Statuses, Workflows
    <3> QED
      BY <1>0, <2>0, <2>10, <3>2 DEF FilesRepairReplace
  <2>11. CASE FilesCrash(h)
    <3>1. crashes' \in 0..MaxCrashes /\ lock' \in Hosts \cup {None}
      BY <1>0, <2>11, CompletionAssumption DEF FilesCrash
    <3> QED
      BY <1>0, <2>0, <2>11, <3>1 DEF FilesCrash
  <2> QED
    BY <1>5, <2>1, <2>2, <2>3, <2>4, <2>5, <2>6, <2>7, <2>8, <2>9, <2>10, <2>11 DEF Files
<1>6. ASSUME NEW w \in Recorders, Record(w) PROVE TypeOK'
  <2>0. record' \in [Recorders -> RecordCommand] /\ record[w] \in RecordCommand
    BY <1>6, <1>0, RecordTyped
  <2>1. CASE \E r \in Receipts : PrepareGate(w, r)
    BY <1>0, <2>0, <2>1 DEF PrepareGate
  <2>2. CASE PrepareIssue(w)
    BY <1>0, <2>0, <2>2, FingerprintTyped DEF PrepareIssue
  <2>3. CASE \E r \in Receipts : ConsumeRead(w, r)
    BY <1>0, <2>0, <2>3 DEF ConsumeRead
  <2>4. CASE ConsumeVerify(w)
    BY <1>0, <2>0, <2>4 DEF ConsumeVerify
  <2>5. CASE ConsumeInsert(w)
    <3>1. record[w].receipt \in Receipts
      BY <2>5 DEF IInv, RecordInv, ConsumeInsert
    <3> QED
      BY <1>0, <2>0, <2>5, <3>1 DEF ConsumeInsert
  <2>6. CASE RepairRead(w)
    BY <1>0, <2>0, <2>6 DEF RepairRead
  <2>7. CASE RepairInsert(w)
    BY <1>0, <2>0, <2>7 DEF RepairInsert
  <2> QED
    BY <1>6, <2>1, <2>2, <2>3, <2>4, <2>5, <2>6, <2>7 DEF Record
<1>7. ASSUME NEW m \in Markers, Mark(m) PROVE TypeOK'
  BY <1>0, <1>7, MarkFrame, MarkTyped
<1> QED
  BY <1>1, <1>2, <1>3, <1>4, <1>5, <1>6, <1>7 DEF Next

-----------------------------------------------------------------------------
(* No event of the ledger is rewritten, and no history undone.             *)

Grows ==
    /\ \A r \in Receipts :
          /\ authorized[r] # None => authorized'[r] = authorized[r]
          /\ claimed[r] # None => claimed'[r] = claimed[r]
          /\ applied[r] # None => applied'[r] = applied[r]
          /\ wrote[r] # None => wrote'[r] # None
    /\ consumed \subseteq consumed'
    /\ terminals \subseteq terminals'
    /\ shipped \subseteq shipped'
    /\ overrun \subseteq overrun'

LEMMA Growing == ASSUME IInv, Next PROVE Grows
<1>0. TypeOK
  BY DEF IInv
<1> USE DEF Grows, ledger, tree
<1>1. CASE ScriptRead
  BY <1>1 DEF ScriptRead
<1>2. CASE ScriptWrite
  BY <1>2 DEF ScriptWrite
<1>3. CASE Deploy
  BY <1>3 DEF Deploy
<1>4. CASE \E r \in Receipts : Expire(r)
  BY <1>4 DEF Expire
<1>5. ASSUME NEW h \in Hosts, Files(h) PROVE Grows
  <2>0. FilesInv(h)
    BY DEF IInv
  <2>1. CASE \E r \in Receipts : FilesPreflight(h, r)
    BY <2>1 DEF FilesPreflight
  <2>2. CASE FilesFingerprint(h)
    BY <2>2 DEF FilesFingerprint
  <2>3. CASE ClaimRead(h)
    BY <2>3 DEF ClaimRead
  <2>4. CASE ClaimInsert(h)
    BY <1>0, <2>4 DEF ClaimInsert, TypeOK
  <2>5. CASE FilesLocked(h)
    BY <2>5 DEF FilesLocked
  <2>6. CASE FilesReplace(h)
    <3>1. Fingerprint(host) # None
      BY <1>0, FingerprintTyped, NoneIsNothing DEF TypeOK
    <3> QED
      BY <1>0, <2>6, <3>1 DEF FilesReplace, TypeOK
  <2>7. CASE ApplyRead(h)
    BY <2>7 DEF ApplyRead
  <2>8. CASE ApplyInsert(h)
    BY <1>0, <2>8 DEF ApplyInsert, TypeOK
  <2>9. CASE FilesRepair(h)
    BY <2>9 DEF FilesRepair
  <2>10. CASE FilesRepairReplace(h)
    BY <2>10 DEF FilesRepairReplace
  <2>11. CASE FilesCrash(h)
    BY <2>11 DEF FilesCrash
  <2> QED
    BY <1>5, <2>1, <2>2, <2>3, <2>4, <2>5, <2>6, <2>7, <2>8, <2>9, <2>10, <2>11 DEF Files
<1>6. ASSUME NEW w \in Recorders, Record(w) PROVE Grows
  <2>1. CASE \E r \in Receipts : PrepareGate(w, r)
    BY <2>1 DEF PrepareGate
  <2>2. CASE PrepareIssue(w)
    <3>1. record[w].receipt \in Receipts /\ authorized[record[w].receipt] = None
      BY <2>2 DEF IInv, RecordInv, PrepareIssue
    <3> QED
      BY <1>0, <2>2, <3>1 DEF PrepareIssue, TypeOK
  <2>3. CASE \E r \in Receipts : ConsumeRead(w, r)
    BY <2>3 DEF ConsumeRead
  <2>4. CASE ConsumeVerify(w)
    BY <2>4 DEF ConsumeVerify
  <2>5. CASE ConsumeInsert(w)
    BY <2>5 DEF ConsumeInsert
  <2>6. CASE RepairRead(w)
    BY <2>6 DEF RepairRead
  <2>7. CASE RepairInsert(w)
    BY <2>7 DEF RepairInsert
  <2> QED
    BY <1>6, <2>1, <2>2, <2>3, <2>4, <2>5, <2>6, <2>7 DEF Record
<1>7. ASSUME NEW m \in Markers, Mark(m) PROVE Grows
  BY <1>7, MarkFrame
<1> QED
  BY <1>1, <1>2, <1>3, <1>4, <1>5, <1>6, <1>7 DEF Next

-----------------------------------------------------------------------------
(* The chain of every receipt.                                             *)

LEMMA ChainFrame ==
    ASSUME NEW r \in Receipts, ChainInv(r), Grows,
           claimed'[r] = claimed[r], applied'[r] = applied[r], wrote'[r] = wrote[r],
           r \in consumed' => r \in consumed
    PROVE  ChainInv(r)'
  BY DEF ChainInv, Grows

(* The commands that touch the chain are the four that write one of its    *)
(* events; the others leave it as it is.                                   *)
LEMMA ChainStep == ASSUME IInv, Next, NEW r \in Receipts PROVE ChainInv(r)'
<1>0. TypeOK /\ ChainInv(r) /\ Grows
  BY Growing DEF IInv
<1>1. CASE UNCHANGED <<claimed, applied, wrote, consumed>>
  BY <1>0, <1>1, ChainFrame
<1>2. ASSUME NEW h \in Hosts, ClaimInsert(h) PROVE ChainInv(r)'
  <2>1. /\ Reserved(h)
        /\ UNCHANGED <<authorized, applied, consumed, terminals, wrote, shipped, overrun>>
    BY <1>2 DEF IInv, FilesInv, ClaimInsert, tree
  <2>2. CASE r = files[h].receipt /\ claimed[r] = None
    <3>1. claimed'[r] = DoneSpan(authorized[r]) /\ authorized[r] # None
      BY <1>0, <1>2, <2>1, <2>2 DEF ClaimInsert, Reserved, UnderReceipt, TypeOK
    <3>2. claimed'[r] # None
      BY <1>0, <3>1, DoneFingerprintTyped, NoneIsNothing DEF TypeOK
    <3> QED
      BY <1>0, <2>1, <2>2, <3>1, <3>2 DEF ChainInv
  <2>3. CASE ~(r = files[h].receipt /\ claimed[r] = None)
    <3>1. claimed'[r] = claimed[r]
      BY <1>0, <1>2, <2>3 DEF ClaimInsert, TypeOK
    <3> QED
      BY <1>0, <2>1, <3>1, ChainFrame
  <2> QED
    BY <2>2, <2>3
<1>3. ASSUME NEW h \in Hosts, FilesReplace(h) PROVE ChainInv(r)'
  <2>1. /\ Reserved(h) /\ claimed[files[h].receipt] # None
        /\ \/ Fingerprint(host) = authorized[files[h].receipt]
           \/ files[h].receipt \in overrun
    BY <1>3 DEF IInv, FilesInv, BoundInv, FilesReplace
  <2> UNCHANGED <<authorized, claimed, applied, consumed, terminals, shipped, overrun>>
    BY <1>3 DEF FilesReplace, ledger
  <2>2. CASE r = files[h].receipt
    <3>1. wrote'[r] = Fingerprint(host) /\ Fingerprint(host) # None /\ authorized[r] # None
      BY FingerprintTyped, NoneIsNothing, <1>0, <1>3, <2>1, <2>2 DEF FilesReplace, TypeOK, Reserved, UnderReceipt
    <3> QED
      BY <1>0, <2>1, <2>2, <3>1 DEF ChainInv
  <2>3. CASE r # files[h].receipt
    <3>1. wrote'[r] = wrote[r]
      BY <1>0, <1>3, <2>3 DEF FilesReplace, TypeOK
    <3> QED
      BY <1>0, <2>1, <3>1, ChainFrame
  <2> QED
    BY <2>2, <2>3
<1>4. ASSUME NEW h \in Hosts, ApplyInsert(h) PROVE ChainInv(r)'
  <2>1. /\ Reserved(h) /\ wrote[files[h].receipt] # None
        /\ UNCHANGED <<authorized, claimed, consumed, terminals, wrote, shipped, overrun>>
    BY <1>4 DEF IInv, FilesInv, ApplyInsert, tree
  <2>2. CASE r = files[h].receipt /\ applied[r] = None
    <3>1. claimed[r] # None /\ claimed[r] = DoneSpan(authorized[r])
      BY <1>0, <2>1, <2>2 DEF ChainInv
    <3>2. applied'[r] = [before |-> claimed[r].before, after |-> files[h].span.after]
      BY <1>0, <1>4, <2>2 DEF ApplyInsert, TypeOK
    <3>3. applied'[r] = claimed[r]
      BY <2>1, <2>2, <3>1, <3>2 DEF Reserved, DoneSpan
    <3> QED
      BY <1>0, <2>1, <2>2, <3>1, <3>3 DEF ChainInv
  <2>3. CASE ~(r = files[h].receipt /\ applied[r] = None)
    <3>1. applied'[r] = applied[r]
      BY <1>0, <1>4, <2>3 DEF ApplyInsert, TypeOK
    <3> QED
      BY <1>0, <2>1, <3>1, ChainFrame
  <2> QED
    BY <2>2, <2>3
<1>5. ASSUME NEW w \in Recorders, ConsumeInsert(w) PROVE ChainInv(r)'
  <2>1. UNCHANGED <<authorized, claimed, applied, wrote, shipped, overrun>>
    BY <1>5 DEF ConsumeInsert, tree
  <2>2. CASE r = record[w].receipt
    <3>1. /\ applied[r] # None
          /\ \E i \in shipped : IsDone(i) /\ ~i.owned /\ Fingerprint(i) = applied[r].after
      BY <1>5, <2>2 DEF IInv, RecordInv, ConsumeInsert
    <3>2. r \in terminals'
      BY <1>5, <2>2 DEF ConsumeInsert
    <3> QED
      BY <1>0, <2>1, <3>1, <3>2 DEF ChainInv
  <2>3. CASE r # record[w].receipt
    <3>1. r \in consumed' => r \in consumed
      BY <1>5, <2>3 DEF ConsumeInsert
    <3> QED
      BY <1>0, <2>1, <3>1, ChainFrame
  <2> QED
    BY <2>2, <2>3
<1>6. CASE ScriptRead \/ ScriptWrite \/ Deploy \/ \E q \in Receipts : Expire(q)
  BY <1>1, <1>6 DEF ScriptRead, ScriptWrite, Deploy, Expire, ledger, tree
<1>7. ASSUME NEW h \in Hosts, Files(h) PROVE ChainInv(r)'
  <2>1. CASE \E q \in Receipts : FilesPreflight(h, q)
    BY <1>1, <2>1 DEF FilesPreflight, ledger, tree
  <2>2. CASE FilesFingerprint(h) \/ ClaimRead(h)
    BY <1>1, <2>2 DEF FilesFingerprint, ClaimRead, ledger, tree
  <2>3. CASE FilesLocked(h) \/ ApplyRead(h)
    BY <1>1, <2>3 DEF FilesLocked, ApplyRead, ledger, tree
  <2>4. CASE FilesRepair(h) \/ FilesRepairReplace(h) \/ FilesCrash(h)
    BY <1>1, <2>4 DEF FilesRepair, FilesRepairReplace, FilesCrash, ledger
  <2> QED
    BY <1>2, <1>3, <1>4, <1>7, <2>1, <2>2, <2>3, <2>4 DEF Files
<1>8. ASSUME NEW w \in Recorders, Record(w) PROVE ChainInv(r)'
  <2>1. CASE \E q \in Receipts : PrepareGate(w, q) \/ ConsumeRead(w, q)
    BY <1>1, <2>1 DEF PrepareGate, ConsumeRead, ledger, tree
  <2>2. CASE PrepareIssue(w) \/ ConsumeVerify(w)
    BY <1>1, <2>2 DEF PrepareIssue, ConsumeVerify, ledger, tree
  <2>3. CASE RepairRead(w) \/ RepairInsert(w)
    BY <1>1, <2>3 DEF RepairRead, RepairInsert, ledger, tree
  <2> QED
    BY <1>5, <1>8, <2>1, <2>2, <2>3 DEF Record
<1>9. ASSUME NEW m \in Markers, Mark(m) PROVE ChainInv(r)'
  BY <1>1, <1>9, MarkFrame
<1> QED
  BY <1>6, <1>7, <1>8, <1>9 DEF Next

-----------------------------------------------------------------------------
(* What the files commands remember.                                       *)

LEMMA FilesFrame ==
    ASSUME NEW h \in Hosts, FilesInv(h), Grows, files'[h] = files[h]
    PROVE  FilesInv(h)'
  BY DEF FilesInv, Reserved, UnderReceipt, Grows

LEMMA IdleFiles ==
    ASSUME NEW h \in Hosts, files'[h] = FilesIdle
    PROVE  FilesInv(h)'
  BY DEF FilesInv, FilesIdle

(* A command's own step.                                                   *)
LEMMA FilesOwnStep == ASSUME IInv, Next, NEW h \in Hosts, Files(h) PROVE FilesInv(h)'
<1>0. /\ TypeOK /\ FilesInv(h) /\ Grows
      /\ files[h] \in FilesCommand /\ host \in Items
      /\ \A r \in Receipts : ChainInv(r)
  BY Growing DEF IInv, TypeOK
<1>1. CASE \E r \in Receipts : FilesPreflight(h, r)
  <2>1. PICK r \in Receipts : FilesPreflight(h, r)
    BY <1>1
  <2>2. /\ files'[h].pc = "preflighted" /\ files'[h].receipt = r
        /\ authorized'[r] # None
    BY <2>1, <1>0 DEF FilesPreflight, TypeOK, FilesCommand, ledger
  <2> QED
    BY <2>2 DEF FilesInv, UnderReceipt
<1>2. CASE FilesFingerprint(h)
  <2> DEFINE f == Fingerprint(host)
  <2>1. /\ f \in Fingerprints /\ DoneSpan(f) \in Span
        /\ DoneSpan(f).before = f
    BY <1>0, FingerprintTyped, DoneFingerprintTyped DEF DoneSpan
  <2>2. /\ files'[h].pc = "read" /\ files'[h].receipt = files[h].receipt
        /\ files'[h].span = DoneSpan(f)
    BY <1>2, <1>0 DEF FilesFingerprint, TypeOK, FilesCommand, DoneSpan
  <2>3. /\ files[h].receipt \in Receipts /\ authorized'[files[h].receipt] # None
    BY <1>2, <1>0 DEF FilesFingerprint, FilesInv, UnderReceipt, Grows
  <2> HIDE DEF f
  <2> QED
    BY <2>1, <2>2, <2>3 DEF FilesInv, UnderReceipt
<1>3. CASE ClaimRead(h)
  <2> DEFINE r == files[h].receipt
             p == PriorSpan(r)
  <2>0. /\ files[h].pc = "read" /\ r \in Receipts /\ authorized[r] # None
        /\ authorized' = authorized /\ claimed' = claimed
        /\ files[h].span = DoneSpan(files[h].span.before)
    BY <1>3, <1>0 DEF ClaimRead, FilesInv, UnderReceipt, ledger
  <2>1. p # None => p = DoneSpan(authorized[r]) /\ claimed[r] # None
    BY <2>0, <1>0 DEF PriorSpan, ChainInv
  <2>2. \/ files'[h] = FilesIdle
        \/ /\ files'[h] = [files[h] EXCEPT !.pc = "claimed", !.span = p]
           /\ p # None
        \/ /\ files'[h] = [files[h] EXCEPT !.pc = "claiming"]
           /\ files[h].span.before = authorized[r]
    BY <1>3, <1>0 DEF ClaimRead, TypeOK, FreshAllowed
  <2> HIDE DEF p
  <2>3. CASE files'[h] = [files[h] EXCEPT !.pc = "claimed", !.span = p] /\ p # None
    <3>1. /\ files'[h].pc = "claimed" /\ files'[h].receipt = r /\ files'[h].span = p
      BY <2>3, <1>0 DEF FilesCommand
    <3> QED
      BY <2>0, <2>1, <2>3, <3>1 DEF FilesInv, Reserved, UnderReceipt
  <2>4. CASE /\ files'[h] = [files[h] EXCEPT !.pc = "claiming"]
             /\ files[h].span.before = authorized[r]
    <3>1. /\ files'[h].pc = "claiming" /\ files'[h].receipt = r
          /\ files'[h].span = files[h].span
      BY <2>4, <1>0 DEF FilesCommand
    <3> QED
      BY <2>0, <2>4, <3>1 DEF FilesInv, Reserved, UnderReceipt
  <2> QED
    BY <2>2, <2>3, <2>4, IdleFiles
<1>4. CASE ClaimInsert(h)
  <2> DEFINE r == files[h].receipt
  <2>1. /\ Reserved(h) /\ authorized' = authorized
    BY <1>4, <1>0 DEF ClaimInsert, FilesInv
  <2>2. /\ files'[h].pc = "claimed" /\ files'[h].receipt = r
        /\ files'[h].span = files[h].span
    BY <1>4, <1>0 DEF ClaimInsert, TypeOK, FilesCommand
  <2>3. files[h].span # None
    BY <2>1, <1>0, DoneFingerprintTyped, NoneIsNothing DEF Reserved, UnderReceipt, TypeOK
  <2>4. claimed'[r] # None
    BY <2>1, <2>3, <1>4, <1>0 DEF ClaimInsert, TypeOK, Reserved, UnderReceipt
  <2> QED
    BY <2>1, <2>2, <2>4 DEF FilesInv, Reserved, UnderReceipt
<1>5. CASE FilesLocked(h)
  <2> DEFINE r == files[h].receipt
  <2>1. Reserved(h) /\ claimed[r] # None
    BY <1>5, <1>0 DEF FilesLocked, FilesInv
  <2> UNCHANGED <<authorized, claimed, wrote>>
    BY <1>5 DEF FilesLocked, ledger
  <2>2. \/ files'[h] = FilesIdle
        \/ /\ files'[h] = [files[h] EXCEPT !.pc = "written"]
           /\ host.receipt = r
        \/ files'[h] = [files[h] EXCEPT !.pc = "writing", !.item = host]
    BY <1>5, <1>0 DEF FilesLocked, TypeOK, DoneUnder
  <2>3. CASE files'[h] = [files[h] EXCEPT !.pc = "written"] /\ host.receipt = r
    <3>1. /\ files'[h].pc = "written" /\ files'[h].receipt = r
          /\ files'[h].span = files[h].span
      BY <2>3, <1>0 DEF FilesCommand
    <3>2. wrote[r] # None
      BY <2>1, <2>3 DEF IInv, ProvenanceInv, Descends, Reserved, UnderReceipt
    <3> QED
      BY <2>1, <3>1, <3>2 DEF FilesInv, Reserved, UnderReceipt
  <2>4. CASE files'[h] = [files[h] EXCEPT !.pc = "writing", !.item = host]
    <3>1. /\ files'[h].pc = "writing" /\ files'[h].receipt = r
          /\ files'[h].span = files[h].span /\ files'[h].item = host
      BY <2>4, <1>0 DEF FilesCommand
    <3> QED
      BY <1>0, <2>1, <2>4, <3>1 DEF FilesInv, Reserved, UnderReceipt
  <2> QED
    BY <2>2, <2>3, <2>4, IdleFiles
<1>6. CASE FilesReplace(h)
  <2> DEFINE r == files[h].receipt
  <2>1. Reserved(h) /\ Fingerprint(host) \in Fingerprints
    BY <1>6, <1>0, FingerprintTyped DEF FilesReplace, FilesInv
  <2>2. files' = [files EXCEPT ![h] = [files[h] EXCEPT !.pc = "written", !.item = None]]
    BY <1>6 DEF FilesReplace
  <2>3. /\ files'[h].pc = "written" /\ files'[h].receipt = r
        /\ files'[h].span = files[h].span
    BY <2>2, <1>0 DEF TypeOK, FilesCommand
  <2>4. wrote'[r] # None /\ authorized' = authorized
    BY <2>1, <1>6, <1>0, NoneIsNothing
       DEF FilesReplace, TypeOK, Reserved, UnderReceipt, ledger
  <2> QED
    BY <2>1, <2>3, <2>4 DEF FilesInv, Reserved, UnderReceipt
<1>7. CASE ApplyRead(h)
  <2>1. /\ Reserved(h) /\ wrote[files[h].receipt] # None
        /\ authorized' = authorized /\ wrote' = wrote
    BY <1>7, <1>0 DEF ApplyRead, FilesInv, ledger, tree
  <2>2. \/ files'[h] = FilesIdle
        \/ files'[h] = [files[h] EXCEPT !.pc = "applying"]
    BY <1>7, <1>0 DEF ApplyRead, TypeOK
  <2>3. CASE files'[h] = [files[h] EXCEPT !.pc = "applying"]
    <3>1. /\ files'[h].pc = "applying" /\ files'[h].receipt = files[h].receipt
          /\ files'[h].span = files[h].span
      BY <2>3, <1>0 DEF FilesCommand
    <3> QED
      BY <2>1, <3>1 DEF FilesInv, Reserved, UnderReceipt
  <2> QED
    BY <2>2, <2>3, IdleFiles
<1>8. CASE ApplyInsert(h) \/ FilesRepairReplace(h) \/ FilesCrash(h)
  <2>1. files'[h] = FilesIdle
    BY <1>8, <1>0 DEF ApplyInsert, FilesRepairReplace, FilesCrash, TypeOK
  <2> QED
    BY <2>1, IdleFiles
<1>9. CASE FilesRepair(h)
  <2>1. /\ files'[h].pc = "writing" /\ files'[h].receipt = Repair
        /\ files'[h].item = host
    BY <1>9, <1>0 DEF FilesRepair, TypeOK, FilesIdle
  <2> QED
    BY <1>0, <2>1 DEF FilesInv
<1> QED
  BY <1>1, <1>2, <1>3, <1>4, <1>5, <1>6, <1>7, <1>8, <1>9 DEF Files

(* Only its own steps change what a files command remembers.               *)
LEMMA OthersFiles ==
    ASSUME IInv, Next, NEW h \in Hosts, ~Files(h)
    PROVE  files'[h] = files[h]
<1>0. TypeOK
  BY DEF IInv
<1> USE DEF tree
<1>1. CASE ScriptRead \/ ScriptWrite \/ Deploy \/ \E r \in Receipts : Expire(r)
  BY <1>1 DEF ScriptRead, ScriptWrite, Deploy, Expire
<1>2. ASSUME NEW g \in Hosts, Files(g) PROVE files'[h] = files[h]
  <2>0. g # h
    BY <1>2
  <2>1. PICK c \in FilesCommand : files' = [files EXCEPT ![g] = c]
    <3>1. files' \in [Hosts -> FilesCommand]
      BY <1>2, FilesTyped
    <3>2. \E c : files' = [files EXCEPT ![g] = c]
      BY <1>2, Zenon DEF Files, FilesPreflight, FilesFingerprint, ClaimRead, ClaimInsert,
            FilesLocked, FilesReplace, ApplyRead, ApplyInsert, FilesRepair,
            FilesRepairReplace, FilesCrash
    <3> QED
      BY <3>1, <3>2, <1>0 DEF TypeOK
  <2> QED
    BY <1>0, <2>0, <2>1 DEF TypeOK
<1>3. ASSUME NEW w \in Recorders, Record(w) PROVE files'[h] = files[h]
  BY <1>3 DEF Record, PrepareGate, PrepareIssue, ConsumeRead, ConsumeVerify,
              ConsumeInsert, RepairRead, RepairInsert
<1>4. ASSUME NEW m \in Markers, Mark(m) PROVE files'[h] = files[h]
  BY <1>4, MarkFrame
<1> QED
  BY <1>1, <1>2, <1>3, <1>4 DEF Next

LEMMA FilesStepInv == ASSUME IInv, Next, NEW h \in Hosts PROVE FilesInv(h)'
<1>1. CASE Files(h)
  BY <1>1, FilesOwnStep
<1>2. CASE ~Files(h)
  BY <1>2, OthersFiles, Growing, FilesFrame DEF IInv
<1> QED
  BY <1>1, <1>2

-----------------------------------------------------------------------------
(* The coding host's item: who writes it, and who can while the lock is    *)
(* held.                                                                   *)

LEMMA HostWriters ==
    ASSUME IInv, Next
    PROVE  host' = host \/ ScriptWrite
             \/ \E h \in Hosts : FilesReplace(h) \/ FilesRepairReplace(h)
<1> USE DEF tree
<1>1. CASE ScriptRead \/ ScriptWrite \/ Deploy \/ \E r \in Receipts : Expire(r)
  BY <1>1 DEF ScriptRead, Deploy, Expire
<1>2. ASSUME NEW h \in Hosts, Files(h)
      PROVE  host' = host \/ FilesReplace(h) \/ FilesRepairReplace(h)
  BY <1>2 DEF Files, FilesPreflight, FilesFingerprint, ClaimRead, ClaimInsert,
              FilesLocked, ApplyRead, ApplyInsert, FilesRepair, FilesCrash
<1>3. ASSUME NEW w \in Recorders, Record(w) PROVE host' = host
  BY <1>3 DEF Record, PrepareGate, PrepareIssue, ConsumeRead, ConsumeVerify,
              ConsumeInsert, RepairRead, RepairInsert
<1>4. ASSUME NEW m \in Markers, Mark(m) PROVE host' = host
  BY <1>4, MarkFrame
<1> QED
  BY <1>1, <1>2, <1>3, <1>4 DEF Next

LEMMA LockStep == ASSUME IInv, Next PROVE LockInv'
<1>0. /\ TypeOK /\ LockInv /\ None \notin Hosts
      /\ files \in [Hosts -> FilesCommand]
      /\ \A h \in Hosts : files[h] \in FilesCommand
  BY NoneIsNothing DEF IInv, TypeOK
<1> USE DEF tree
<1>1. CASE UNCHANGED <<lock, files>>
  BY <1>0, <1>1 DEF LockInv
<1>2. CASE ScriptRead \/ ScriptWrite \/ Deploy \/ \E r \in Receipts : Expire(r)
  BY <1>1, <1>2 DEF ScriptRead, ScriptWrite, Deploy, Expire
<1>3. ASSUME NEW w \in Recorders, Record(w) PROVE UNCHANGED <<lock, files>>
  BY <1>3 DEF Record, PrepareGate, PrepareIssue, ConsumeRead, ConsumeVerify,
              ConsumeInsert, RepairRead, RepairInsert
<1>4. ASSUME NEW m \in Markers, Mark(m) PROVE UNCHANGED <<lock, files>>
  BY <1>4, MarkFrame
<1>5. ASSUME NEW g \in Hosts, Files(g) PROVE LockInv'
  <2> DEFINE Out == /\ lock' = lock /\ files[g].pc # "writing" /\ files'[g].pc # "writing"
             In == lock = None /\ lock' = g /\ files'[g].pc = "writing"
             Free == lock' = (IF lock = g THEN None ELSE lock) /\ files'[g].pc # "writing"
  <2>0. \A h \in Hosts \ {g} : files'[h] = files[h]
    <3>1. \E c : files' = [files EXCEPT ![g] = c]
      BY <1>5, Zenon DEF Files, FilesPreflight, FilesFingerprint, ClaimRead, ClaimInsert,
            FilesLocked, FilesReplace, ApplyRead, ApplyInsert, FilesRepair,
            FilesRepairReplace, FilesCrash
    <3> QED
      BY <3>1, <1>0
  <2>1. CASE \E r \in Receipts : FilesPreflight(g, r)
    <3>1. Out
      BY <1>0, <2>1 DEF FilesPreflight, FilesIdle, FilesCommand
    <3> QED
      BY <1>0, <2>0, <3>1 DEF LockInv
  <2>2. CASE FilesFingerprint(g) \/ ClaimRead(g) \/ ClaimInsert(g)
    <3>1. Out
      <4>1. CASE FilesFingerprint(g)
        BY <1>0, <4>1 DEF FilesFingerprint, FilesCommand
      <4>2. CASE ClaimRead(g)
        BY <1>0, <4>2 DEF ClaimRead, FilesCommand, FilesIdle
      <4>3. CASE ClaimInsert(g)
        BY <1>0, <4>3 DEF ClaimInsert, FilesCommand
      <4> QED
        BY <2>2, <4>1, <4>2, <4>3
    <3> QED
      BY <1>0, <2>0, <3>1 DEF LockInv
  <2>3. CASE FilesLocked(g)
    <3>1. Out \/ In
      BY <1>0, <2>3 DEF FilesLocked, FilesCommand, FilesIdle
    <3> QED
      BY <1>0, <2>0, <3>1 DEF LockInv
  <2>4. CASE FilesRepair(g)
    <3>1. In
      BY <1>0, <2>4 DEF FilesRepair, FilesIdle
    <3> QED
      BY <1>0, <2>0, <3>1 DEF LockInv
  <2>5. CASE ApplyRead(g) \/ ApplyInsert(g)
    <3>1. Out
      BY <1>0, <2>5 DEF ApplyRead, ApplyInsert, FilesCommand, FilesIdle
    <3> QED
      BY <1>0, <2>0, <3>1 DEF LockInv
  <2>6. CASE FilesReplace(g) \/ FilesRepairReplace(g) \/ FilesCrash(g)
    <3>1. Free
      <4>1. CASE FilesReplace(g)
        <5>1. files' = [files EXCEPT ![g] = [files[g] EXCEPT !.pc = "written", !.item = None]]
          BY <4>1 DEF FilesReplace
        <5> QED
          BY <1>0, <4>1, <5>1 DEF FilesReplace, LockInv, FilesCommand
      <4>2. CASE FilesRepairReplace(g)
        BY <1>0, <4>2 DEF FilesRepairReplace, LockInv, FilesIdle
      <4>3. CASE FilesCrash(g)
        BY <1>0, <4>3 DEF FilesCrash, FilesIdle
      <4> QED
        BY <2>6, <4>1, <4>2, <4>3
    <3> QED
      BY <1>0, <2>0, <3>1 DEF LockInv
  <2> QED
    BY <1>5, <2>1, <2>2, <2>3, <2>4, <2>5, <2>6 DEF Files
<1> QED
  BY <1>1, <1>2, <1>3, <1>4, <1>5 DEF Next

(* The reserved state stays until the replacement, unless a script writes; *)
(* a write of another command would need the lock.                         *)
LEMMA BoundStep == ASSUME IInv, Next, NEW h \in Hosts PROVE BoundInv(h)'
<1>0. /\ TypeOK /\ FilesInv(h) /\ BoundInv(h) /\ LockInv /\ Grows
      /\ files[h] \in FilesCommand /\ files \in [Hosts -> FilesCommand]
      /\ None \notin Hosts
  BY Growing, NoneIsNothing DEF IInv, TypeOK
<1>1. SUFFICES ASSUME files'[h].pc = "writing", files'[h].receipt # Repair
               PROVE  \/ Fingerprint(host') = authorized'[files'[h].receipt]
                      \/ files'[h].receipt \in overrun'
  BY DEF BoundInv, Fingerprint
<1>2. CASE files'[h] = files[h] /\ files[h].pc = "writing"
  <2> DEFINE r == files[h].receipt
  <2>1. /\ r \in Receipts /\ authorized'[r] = authorized[r] /\ lock = h
        /\ Fingerprint(host) = authorized[r] \/ r \in overrun
    BY <1>0, <1>1, <1>2 DEF FilesInv, BoundInv, LockInv, Reserved, UnderReceipt, Grows
  <2>2. CASE host' = host
    BY <1>0, <1>2, <2>1, <2>2 DEF Grows
  <2>3. CASE ScriptWrite
    BY <1>0, <1>2, <2>1, <2>3 DEF ScriptWrite
  <2>4. ASSUME NEW g \in Hosts, FilesReplace(g) \/ FilesRepairReplace(g) PROVE FALSE
    <3>1. files[g].pc = "writing" /\ files'[g].pc # "writing"
      <4>1. CASE FilesReplace(g)
        <5>1. files' = [files EXCEPT ![g] = [files[g] EXCEPT !.pc = "written", !.item = None]]
          BY <4>1 DEF FilesReplace
        <5> QED
          BY <1>0, <4>1, <5>1 DEF FilesReplace, FilesCommand
      <4>2. CASE FilesRepairReplace(g)
        BY <1>0, <4>2 DEF FilesRepairReplace, FilesIdle
      <4> QED
        BY <2>4, <4>1, <4>2
    <3>2. g = h
      BY <1>0, <2>1, <3>1 DEF LockInv
    <3> QED
      BY <1>1, <3>1, <3>2
  <2> QED
    BY <2>2, <2>3, <2>4, HostWriters
<1>3. CASE ~(files'[h] = files[h] /\ files[h].pc = "writing")
  <2>0. Files(h)
    BY <1>1, <1>3, OthersFiles
  <2>1. CASE FilesLocked(h)
    <3>1. /\ files'[h] = [files[h] EXCEPT !.pc = "writing", !.item = host]
          /\ Fingerprint(host) = files[h].span.before
          /\ host' = host /\ authorized' = authorized
      <4>1. \/ files'[h] = FilesIdle
            \/ files'[h] = [files[h] EXCEPT !.pc = "written"]
            \/ /\ files'[h] = [files[h] EXCEPT !.pc = "writing", !.item = host]
               /\ Fingerprint(host) = files[h].span.before
        BY <1>0, <2>1 DEF FilesLocked, StillReserved
      <4>2. host' = host /\ authorized' = authorized
        BY <2>1 DEF FilesLocked, ledger
      <4> QED
        BY <1>0, <1>1, <4>1, <4>2 DEF FilesCommand, FilesIdle
    <3>2. Reserved(h)
      BY <1>0, <2>1 DEF FilesLocked, FilesInv
    <3>3. files'[h].receipt = files[h].receipt
      BY <1>0, <3>1 DEF FilesCommand
    <3> QED
      BY <3>1, <3>2, <3>3 DEF Reserved, DoneSpan
  <2>2. CASE FilesRepair(h)
    <3>1. files'[h].receipt = Repair
      BY <1>0, <2>2 DEF FilesRepair, FilesIdle
    <3> QED
      BY <1>1, <3>1
  <2>3. ASSUME ~FilesLocked(h), ~FilesRepair(h) PROVE files'[h].pc # "writing"
    <3>1. CASE \E r \in Receipts : FilesPreflight(h, r)
      BY <1>0, <3>1 DEF FilesPreflight, FilesCommand
    <3>2. CASE FilesFingerprint(h)
      BY <1>0, <3>2 DEF FilesFingerprint, FilesCommand
    <3>3. CASE ClaimRead(h)
      BY <1>0, <3>3 DEF ClaimRead, FilesCommand, FilesIdle
    <3>4. CASE ClaimInsert(h) \/ ApplyRead(h)
      BY <1>0, <3>4 DEF ClaimInsert, ApplyRead, FilesCommand, FilesIdle
    <3>5. CASE FilesReplace(h)
      <4>1. files' = [files EXCEPT ![h] = [files[h] EXCEPT !.pc = "written", !.item = None]]
        BY <3>5 DEF FilesReplace
      <4> QED
        BY <1>0, <4>1 DEF FilesCommand
    <3>6. CASE ApplyInsert(h) \/ FilesRepairReplace(h) \/ FilesCrash(h)
      BY <1>0, <3>6 DEF ApplyInsert, FilesRepairReplace, FilesCrash, FilesIdle
    <3> QED
      BY <2>0, <2>3, <3>1, <3>2, <3>3, <3>4, <3>5, <3>6 DEF Files
  <2> QED
    BY <1>1, <2>1, <2>2, <2>3
<1> QED
  BY <1>2, <1>3

LEMMA MarkStep == ASSUME IInv, Next, NEW m \in Markers PROVE MarkInv(m)'
<1>1. CASE \E n \in Markers : Mark(n)
  BY <1>1, MarkTyped
<1>2. CASE marker' = marker
  BY <1>2 DEF IInv, MarkInv
<1>3. CASE ScriptRead \/ ScriptWrite \/ Deploy \/ \E r \in Receipts : Expire(r)
  BY <1>2, <1>3 DEF ScriptRead, ScriptWrite, Deploy, Expire
<1>4. ASSUME NEW h \in Hosts, Files(h) PROVE marker' = marker
  BY <1>4 DEF Files, FilesPreflight, FilesFingerprint, ClaimRead, ClaimInsert,
              FilesLocked, FilesReplace, ApplyRead, ApplyInsert, FilesRepair,
              FilesRepairReplace, FilesCrash
<1>5. ASSUME NEW w \in Recorders, Record(w) PROVE marker' = marker
  BY <1>5 DEF Record, PrepareGate, PrepareIssue, ConsumeRead, ConsumeVerify,
              ConsumeInsert, RepairRead, RepairInsert
<1> QED
  BY <1>1, <1>2, <1>3, <1>4, <1>5 DEF Next

-----------------------------------------------------------------------------
(* Every item that names a receipt descends from a write under it.         *)

LEMMA ProvenanceStep == ASSUME IInv, Next PROVE ProvenanceInv'
<1>0. TypeOK /\ ProvenanceInv /\ Grows
  BY Growing DEF IInv
<1>g. \A i : Descends(i) => (i.receipt \in Receipts => wrote'[i.receipt] # None)
  BY <1>0 DEF Descends, Grows
<1>1. Descends(host)'
  <2>1. CASE host' = host
    BY <2>1, <1>0, <1>g DEF ProvenanceInv, Descends
  <2>2. CASE ScriptWrite
    BY <2>2, <1>0, <1>g DEF ScriptWrite, ProvenanceInv, Descends
  <2>3. ASSUME NEW h \in Hosts, FilesReplace(h) PROVE Descends(host)'
    <3>1. Reserved(h) /\ files[h].item \in Items
      BY <2>3 DEF IInv, FilesInv, FilesReplace
    <3>2. host'.receipt = files[h].receipt
      BY <2>3, <3>1, CloseTyped DEF FilesReplace, Reserved, UnderReceipt
    <3>3. Fingerprint(host) # None
      BY <1>0, FingerprintTyped, NoneIsNothing DEF TypeOK
    <3>4. wrote'[files[h].receipt] # None
      BY <2>3, <3>1, <3>3, <1>0 DEF FilesReplace, TypeOK, Reserved, UnderReceipt
    <3> QED
      BY <3>2, <3>4 DEF Descends
  <2>4. ASSUME NEW h \in Hosts, FilesRepairReplace(h) PROVE Descends(host)'
    <3>1. files[h].item \in Items
      BY <2>4 DEF IInv, FilesInv, FilesRepairReplace
    <3>2. host'.receipt = files[h].item.receipt
      BY <2>4, <3>1 DEF FilesRepairReplace, Close, Items
    <3>3. Descends(files[h].item)
      BY <3>1, <1>0, NoneIsNothing DEF ProvenanceInv
    <3> QED
      BY <3>2, <3>3, <1>g DEF Descends
  <2>5. host' = host \/ ScriptWrite \/ \E h \in Hosts : FilesReplace(h) \/ FilesRepairReplace(h)
    BY HostWriters
  <2> QED
    BY <2>1, <2>2, <2>3, <2>4, <2>5
<1>2. script' # None => Descends(script)'
  <2>1. CASE ScriptRead
    <3>1. script' \in ScriptResults(host)
      BY <2>1 DEF ScriptRead
    <3>2. script'.receipt = host.receipt
      BY <3>1, <1>0, ScriptsKeepReceipt DEF TypeOK
    <3> QED
      BY <3>2, <1>0, <1>g DEF ProvenanceInv, Descends
  <2>2. CASE script' = script
    BY <2>2, <1>0, <1>g DEF ProvenanceInv, Descends
  <2>3. CASE ScriptWrite
    BY <2>3 DEF ScriptWrite
  <2>4. ScriptRead \/ ScriptWrite \/ script' = script
    <3> USE DEF tree
    <3>1. CASE ScriptRead \/ ScriptWrite \/ Deploy \/ \E r \in Receipts : Expire(r)
      BY <3>1 DEF Deploy, Expire
    <3>2. ASSUME NEW h \in Hosts, Files(h) PROVE script' = script
      BY <3>2 DEF Files, FilesPreflight, FilesFingerprint, ClaimRead, ClaimInsert,
                  FilesLocked, FilesReplace, ApplyRead, ApplyInsert, FilesRepair,
                  FilesRepairReplace, FilesCrash
    <3>3. ASSUME NEW w \in Recorders, Record(w) PROVE script' = script
      BY <3>3 DEF Record, PrepareGate, PrepareIssue, ConsumeRead, ConsumeVerify,
                  ConsumeInsert, RepairRead, RepairInsert
    <3>4. ASSUME NEW m \in Markers, Mark(m) PROVE script' = script
      BY <3>4, MarkFrame
    <3> QED
      BY <3>1, <3>2, <3>3, <3>4 DEF Next
  <2> QED
    BY <2>1, <2>2, <2>3, <2>4
<1>3. ASSUME NEW h \in Hosts, files'[h].item # None PROVE Descends(files[h].item)'
  <2>1. files'[h].item \in {files[h].item, host}
    <3>1. CASE ~Files(h)
      BY <3>1, OthersFiles
    <3>2. CASE Files(h)
      <4>0. files[h] \in FilesCommand /\ files \in [Hosts -> FilesCommand]
        BY <1>0 DEF TypeOK
      <4>1. CASE \E r \in Receipts : FilesPreflight(h, r)
        BY <4>0, <4>1 DEF FilesPreflight, FilesCommand
      <4>2. CASE FilesFingerprint(h)
        BY <4>0, <4>2 DEF FilesFingerprint, FilesCommand
      <4>3. CASE ClaimRead(h)
        BY <4>0, <4>3, <1>3 DEF ClaimRead, FilesCommand, FilesIdle
      <4>4. CASE ClaimInsert(h)
        BY <4>0, <4>4 DEF ClaimInsert, FilesCommand
      <4>5. CASE FilesLocked(h)
        BY <4>0, <4>5, <1>3 DEF FilesLocked, FilesCommand, FilesIdle
      <4>6. CASE FilesReplace(h)
        <5>1. files' = [files EXCEPT ![h] = [files[h] EXCEPT !.pc = "written", !.item = None]]
          BY <4>6 DEF FilesReplace
        <5> QED
          BY <4>0, <5>1, <1>3 DEF FilesCommand
      <4>7. CASE ApplyRead(h)
        BY <4>0, <4>7, <1>3 DEF ApplyRead, FilesCommand, FilesIdle
      <4>8. CASE ApplyInsert(h) \/ FilesRepairReplace(h) \/ FilesCrash(h)
        BY <4>0, <4>8, <1>3 DEF ApplyInsert, FilesRepairReplace, FilesCrash, FilesIdle
      <4>9. CASE FilesRepair(h)
        BY <4>0, <4>9 DEF FilesRepair, FilesIdle
      <4> QED
        BY <3>2, <4>1, <4>2, <4>3, <4>4, <4>5, <4>6, <4>7, <4>8, <4>9 DEF Files
    <3> QED
      BY <3>1, <3>2
  <2> QED
    BY <2>1, <1>3, <1>0, <1>g DEF ProvenanceInv, Descends
<1> QED
  BY <1>1, <1>2, <1>3 DEF ProvenanceInv

-----------------------------------------------------------------------------
(* What the recorders remember.                                            *)

LEMMA IdleRecord ==
    ASSUME NEW w \in Recorders, record'[w] = RecordIdle
    PROVE  RecordInv(w)'
  BY DEF RecordInv, RecordIdle

LEMMA RecordOwnStep == ASSUME IInv, Next, NEW w \in Recorders, Record(w) PROVE RecordInv(w)'
<1>0. /\ TypeOK /\ RecordInv(w) /\ Grows /\ deployed \in shipped
      /\ record[w] \in RecordCommand /\ record \in [Recorders -> RecordCommand]
  BY Growing DEF IInv, TypeOK
<1>1. CASE \E r \in Receipts : PrepareGate(w, r)
  <2>1. PICK r \in Receipts : PrepareGate(w, r)
    BY <1>1
  <2>2. /\ record'[w].pc = "gated" /\ record'[w].receipt = r
        /\ authorized'[r] = None
    BY <2>1, <1>0 DEF PrepareGate, RecordCommand, ledger
  <2> QED
    BY <2>2 DEF RecordInv
<1>2. CASE \E r \in Receipts : ConsumeRead(w, r)
  <2>1. PICK r \in Receipts : ConsumeRead(w, r)
    BY <1>2
  <2>2. /\ record'[w].pc = "checked" /\ record'[w].receipt = r
        /\ record'[w].found = applied[r].after
        /\ applied' = applied /\ applied[r] # None
    BY <2>1, <1>0 DEF ConsumeRead, ledger
  <2> QED
    BY <2>2 DEF RecordInv
<1>3. CASE ConsumeVerify(w)
  <2>1. \/ record'[w] = RecordIdle
        \/ /\ record'[w] = [record[w] EXCEPT !.pc = "verified"]
           /\ IsDone(deployed) /\ Released(deployed)
           /\ Fingerprint(deployed) = record[w].found
    BY <1>3, <1>0 DEF ConsumeVerify, DeployedAs
  <2>2. CASE /\ record'[w] = [record[w] EXCEPT !.pc = "verified"]
             /\ IsDone(deployed) /\ Released(deployed)
             /\ Fingerprint(deployed) = record[w].found
    <3>1. /\ record'[w].pc = "verified" /\ record'[w].receipt = record[w].receipt
          /\ record'[w].found = record[w].found
      BY <2>2, <1>0 DEF RecordCommand
    <3>2. /\ record[w].receipt \in Receipts
          /\ applied[record[w].receipt] # None
          /\ record[w].found = applied[record[w].receipt].after
      BY <1>3, <1>0 DEF ConsumeVerify, RecordInv
    <3>3. applied' = applied /\ shipped' = shipped
      BY <1>3 DEF ConsumeVerify, ledger, tree
    <3> QED
      BY <1>0, <2>2, <3>1, <3>2, <3>3 DEF RecordInv, Released
  <2> QED
    BY <2>1, <2>2, IdleRecord
<1>4. CASE RepairRead(w)
  <2>1. record'[w].pc = "repairing"
    BY <1>4, <1>0 DEF RepairRead, RecordCommand
  <2> QED
    BY <2>1 DEF RecordInv
<1>5. CASE PrepareIssue(w) \/ ConsumeInsert(w) \/ RepairInsert(w)
  <2>1. record'[w] = RecordIdle
    BY <1>5, <1>0 DEF PrepareIssue, ConsumeInsert, RepairInsert
  <2> QED
    BY <2>1, IdleRecord
<1> QED
  BY <1>1, <1>2, <1>3, <1>4, <1>5 DEF Record

(* Only its own steps change what a recorder remembers.                    *)
LEMMA OthersRecord ==
    ASSUME IInv, Next, NEW w \in Recorders, ~Record(w)
    PROVE  record'[w] = record[w]
<1>0. TypeOK
  BY DEF IInv
<1>1. CASE ScriptRead \/ ScriptWrite \/ Deploy \/ \E r \in Receipts : Expire(r)
  BY <1>1 DEF ScriptRead, ScriptWrite, Deploy, Expire
<1>2. ASSUME NEW h \in Hosts, Files(h) PROVE record' = record
  BY <1>2 DEF Files, FilesPreflight, FilesFingerprint, ClaimRead, ClaimInsert,
              FilesLocked, FilesReplace, ApplyRead, ApplyInsert, FilesRepair,
              FilesRepairReplace, FilesCrash
<1>3. ASSUME NEW v \in Recorders, Record(v) PROVE record'[w] = record[w]
  <2>0. v # w
    BY <1>3
  <2>1. \E c : record' = [record EXCEPT ![v] = c]
    BY <1>3, Zenon DEF Record, PrepareGate, PrepareIssue, ConsumeRead, ConsumeVerify,
                       ConsumeInsert, RepairRead, RepairInsert
  <2> QED
    BY <1>0, <2>0, <2>1 DEF TypeOK
<1>4. ASSUME NEW m \in Markers, Mark(m) PROVE record' = record
  BY <1>4, MarkFrame
<1> QED
  BY <1>1, <1>2, <1>3, <1>4 DEF Next

(* A receipt id that another recorder has drawn is not issued by a third.  *)
LEMMA StillUnissued ==
    ASSUME IInv, Next, NEW w \in Recorders, ~Record(w), record[w].pc = "gated"
    PROVE  authorized'[record[w].receipt] = None
<1>0. TypeOK /\ record[w].receipt \in Receipts /\ authorized[record[w].receipt] = None
  BY DEF IInv, RecordInv
<1> USE DEF ledger
<1>1. CASE ScriptRead \/ ScriptWrite \/ Deploy \/ \E r \in Receipts : Expire(r)
  BY <1>0, <1>1 DEF ScriptRead, ScriptWrite, Deploy, Expire
<1>2. ASSUME NEW h \in Hosts, Files(h) PROVE authorized' = authorized
  BY <1>2 DEF Files, FilesPreflight, FilesFingerprint, ClaimRead, ClaimInsert,
              FilesLocked, FilesReplace, ApplyRead, ApplyInsert, FilesRepair,
              FilesRepairReplace, FilesCrash
<1>3. ASSUME NEW v \in Recorders, PrepareIssue(v)
      PROVE  authorized'[record[w].receipt] = None
  <2>1. v # w
    BY <1>3 DEF Record
  <2>2. record[v].receipt # record[w].receipt
    BY <1>3, <2>1 DEF IInv, GatedInv, PrepareIssue
  <2> QED
    BY <1>0, <1>3, <2>2 DEF PrepareIssue, TypeOK
<1>4. ASSUME NEW v \in Recorders, Record(v), ~PrepareIssue(v) PROVE authorized' = authorized
  BY <1>4 DEF Record, PrepareGate, ConsumeRead, ConsumeVerify, ConsumeInsert,
              RepairRead, RepairInsert
<1>5. ASSUME NEW m \in Markers, Mark(m) PROVE authorized' = authorized
  BY <1>5, MarkFrame
<1> QED
  BY <1>0, <1>1, <1>2, <1>3, <1>4, <1>5 DEF Next

LEMMA RecordStepInv == ASSUME IInv, Next, NEW w \in Recorders PROVE RecordInv(w)'
<1>1. CASE Record(w)
  BY <1>1, RecordOwnStep
<1>2. CASE ~Record(w)
  <2>1. record'[w] = record[w] /\ RecordInv(w) /\ Grows
    BY <1>2, OthersRecord, Growing DEF IInv
  <2>2. record[w].pc = "gated" => authorized'[record[w].receipt] = None
    BY <1>2, StillUnissued
  <2> QED
    BY <2>1, <2>2 DEF RecordInv, Grows
<1> QED
  BY <1>1, <1>2

LEMMA GatedStep == ASSUME IInv, Next PROVE GatedInv'
<1>0. TypeOK /\ GatedInv
  BY DEF IInv
<1>1. ASSUME NEW w \in Recorders
      PROVE  record'[w] = record[w] \/ record'[w].pc # "gated"
                \/ \E r \in Receipts : PrepareGate(w, r)
  <2>0. record[w] \in RecordCommand /\ record \in [Recorders -> RecordCommand]
    BY <1>0 DEF TypeOK
  <2>1. CASE PrepareIssue(w) \/ ConsumeInsert(w) \/ RepairInsert(w)
    BY <2>0, <2>1 DEF PrepareIssue, ConsumeInsert, RepairInsert, RecordIdle
  <2>2. CASE \E r \in Receipts : ConsumeRead(w, r)
    BY <2>0, <2>2 DEF ConsumeRead
  <2>3. CASE ConsumeVerify(w)
    BY <2>0, <2>3 DEF ConsumeVerify, RecordCommand, RecordIdle
  <2>4. CASE RepairRead(w)
    BY <2>0, <2>4 DEF RepairRead, RecordCommand
  <2> QED
    BY <2>1, <2>2, <2>3, <2>4, OthersRecord DEF Record
<1>2. ASSUME NEW w \in Recorders, NEW r \in Receipts, PrepareGate(w, r)
      PROVE  /\ \A v \in Recorders \ {w} : record'[v] = record[v]
             /\ \A v \in Recorders : record[v].receipt # r
             /\ record'[w].receipt = r
  BY <1>0, <1>2 DEF PrepareGate, TypeOK, RecordCommand
<1> QED
  BY <1>0, <1>1, <1>2 DEF GatedInv

-----------------------------------------------------------------------------
LEMMA Preserved == IInv /\ [Next]_vars => IInv'
<1> SUFFICES ASSUME IInv, [Next]_vars PROVE IInv'
  OBVIOUS
<1>1. CASE Next
  <2>1. (deployed \in shipped)'
    <3> USE DEF tree
    <3>1. CASE Deploy
      BY <3>1 DEF Deploy
    <3>2. CASE ScriptRead \/ ScriptWrite \/ \E r \in Receipts : Expire(r)
      BY <3>2 DEF ScriptRead, ScriptWrite, Expire, IInv
    <3>3. ASSUME NEW h \in Hosts, Files(h) PROVE UNCHANGED <<deployed, shipped>>
      BY <3>3 DEF Files, FilesPreflight, FilesFingerprint, ClaimRead, ClaimInsert,
                  FilesLocked, FilesReplace, ApplyRead, ApplyInsert, FilesRepair,
                  FilesRepairReplace, FilesCrash
    <3>4. ASSUME NEW w \in Recorders, Record(w) PROVE UNCHANGED <<deployed, shipped>>
      BY <3>4 DEF Record, PrepareGate, PrepareIssue, ConsumeRead, ConsumeVerify,
                  ConsumeInsert, RepairRead, RepairInsert
    <3>5. ASSUME NEW m \in Markers, Mark(m) PROVE (deployed \in shipped)'
      BY <3>5, MarkTyped
    <3> QED
      BY <1>1, <3>1, <3>2, <3>3, <3>4, <3>5 DEF Next, IInv
  <2> QED
    BY <1>1, <2>1, Typed, ChainStep, FilesStepInv, ProvenanceStep, RecordStepInv,
       GatedStep, LockStep, BoundStep, MarkStep DEF IInv
<1>2. CASE UNCHANGED vars
  BY <1>2 DEF vars, ledger, tree, IInv, TypeOK, ChainInv, FilesInv, Reserved, UnderReceipt,
              ProvenanceInv, Descends, RecordInv, GatedInv, LockInv, BoundInv, MarkInv
<1> QED
  BY <1>1, <1>2

LEMMA Invariance == Spec => []IInv
  BY InitInv, Preserved, PTL DEF Spec

(* The types.                                                              *)
THEOREM CompletionTyped == Spec => []TypeOK
  BY Invariance, PTL DEF IInv

(* lookup_receipt_for_preflight never meets a chain that is incomplete or  *)
(* conflicting (completion.py, 1123-1397): every command that appends to a *)
(* chain appends what the authorization fixed, also on a retry.            *)
THEOREM ChainsAreWhole == Spec => []ChainNeverBroken
<1>1. IInv => ChainNeverBroken
  <2> SUFFICES ASSUME IInv, NEW r \in Receipts PROVE ~ChainBroken(r)
    BY DEF ChainNeverBroken
  <2>1. ChainInv(r)
    BY DEF IInv
  <2>2. claimed[r] # None => claimed[r].before = authorized[r]
    BY <2>1 DEF ChainInv, DoneSpan
  <2>3. applied[r] # None => claimed[r] # None /\ applied[r] = claimed[r]
    BY <2>1 DEF ChainInv
  <2> QED
    BY <2>1, <2>2, <2>3 DEF ChainInv, ChainBroken
<1> QED
  BY <1>1, Invariance, PTL

(* mark_done_files writes the checklist under a receipt only when the      *)
(* ledger holds its claim (transitions.py, 1312-1322), and what it         *)
(* replaces is the state the receipt was issued for: no other files        *)
(* command and no repair can have written since the read under the lock,   *)
(* only a harness script can.                                              *)
THEOREM WritesAreAuthorized == Spec => []WriteIsAuthorized
<1>1. IInv => WriteIsAuthorized
  <2> SUFFICES ASSUME IInv, NEW r \in Receipts, wrote[r] # None
               PROVE  /\ claimed[r] # None
                      /\ claimed[r].before = authorized[r]
                      /\ wrote[r] = authorized[r] \/ r \in overrun
    BY DEF WriteIsAuthorized
  <2>1. /\ claimed[r] # None /\ claimed[r] = DoneSpan(authorized[r])
        /\ wrote[r] = authorized[r] \/ r \in overrun
    BY DEF IInv, ChainInv
  <2> QED
    BY <2>1 DEF DoneSpan
<1> QED
  BY <1>1, Invariance, PTL

(* apply_completion_receipt never acknowledges a done item that somebody   *)
(* else left: under an applied receipt the file was written.               *)
THEOREM AppliedMeansWritten == Spec => []AppliedIsWritten
<1>1. IInv => AppliedIsWritten
  BY DEF IInv, ChainInv, AppliedIsWritten
<1> QED
  BY <1>1, Invariance, PTL

(* consume_completion_receipt records task.done only for an item that the  *)
(* control plane's own copy has held done, closed and unowned.             *)
THEOREM ConsumedMeansShipped == Spec => []ConsumedIsShipped
<1>1. IInv => ConsumedIsShipped
  <2> SUFFICES ASSUME IInv PROVE ConsumedIsShipped
    OBVIOUS
  <2>1. consumed \subseteq Receipts
    BY DEF IInv, TypeOK
  <2> QED
    BY <2>1 DEF IInv, ChainInv, ConsumedIsShipped
<1> QED
  BY <1>1, Invariance, PTL

(* The ledger's inserts leave an event that is there already as it is, so  *)
(* a command may rely on what it read however long ago.                    *)
THEOREM LedgerOnlyGrows == Spec => [][Grows]_vars
<1>1. IInv /\ [Next]_vars => [Grows]_vars
  BY Growing
<1> QED
  BY <1>1, Invariance, PTL DEF Spec

=============================================================================
