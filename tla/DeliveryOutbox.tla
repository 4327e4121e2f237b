--------------------------- MODULE DeliveryOutbox ---------------------------
(***************************************************************************)
(* The deliveries table and the processes that send from it: the generic   *)
(* outbox of bus.py and worker.py, which retries, and the one-shot channel *)
(* messages of channel_delivery.py, which never do.  The chat platform is  *)
(* modelled by the number of messages it accepted for each delivery.       *)
(*                                                                         *)
(* A generic sender writes with autocommit, so what it reads may be stale  *)
(* when it writes.  A channel send reserves its row, and records a result, *)
(* under BEGIN IMMEDIATE.  A POST may be accepted and its answer lost.     *)
(***************************************************************************)
EXTENDS Integers, FiniteSets

CONSTANTS
  Outbox,       \* deliveries of the generic outbox; the order is the rowid's
  Keys,         \* message keys of channel sends, one delivery each
  Contents,     \* what a caller asks to send under a key (the fingerprint)
  Senders,      \* threads or processes inside pump_deliveries
  Callers,      \* threads inside ChannelSender.send
  MaxAttempts,  \* send_delivery's max_attempts
  None,
  MaxCrashes    \* bound of the model

ASSUME DeliveryOutboxAssumption ==
  /\ MaxAttempts \in Nat \ {0} /\ MaxCrashes \in Nat
  /\ Outbox \subseteq Nat /\ Outbox \cap Keys = {} /\ None \notin Outbox \cup Keys \cup Contents

VARIABLES
  table,     \* the deliveries table
  platform,  \* external: the messages accepted for each delivery
  sender,    \* per sender, the locals of its send_delivery or recovery
  caller,    \* per caller, the locals of its ChannelSender.send
  crashes    \* history: how many processes were killed

vars == <<table, platform, sender, caller, crashes>>

Ids == Outbox \cup Keys

(* bus says what bus_for_platform makes of the row's platform: an adapter, *)
(* an exception, or, for the audit rows of platform none, an exception     *)
(* that an unscoped pump does not ask for.                                 *)
Buses == {"adapter", "unknown", "none"}

Row == [status : {"none", "pending", "sending", "sent", "failed", "dead"},
        attempts : Nat, content : Contents \cup {None}, bus : Buses]

(* "checked" has seen a sendable row, "read" its attempt_count, "marked"   *)
(* has set it sending, "ok" and "error" have the adapter's answer, and     *)
(* "recover" has listed the rows that were sending.                        *)
Sender == [pc : {"idle", "checked", "read", "marked", "ok", "error", "recover"},
           id : Ids \cup {None}, count : Nat, list : SUBSET Ids]

Caller == [pc : {"idle", "inspected", "reserved", "ok", "rejected"},
           key : Keys \cup {None}, content : Contents \cup {None}]

TypeOK ==
  /\ table \in [Ids -> Row]
  /\ platform \in [Ids -> Nat]
  /\ sender \in [Senders -> Sender]
  /\ caller \in [Callers -> Caller]
  /\ crashes \in 0..MaxCrashes

NoSender == [pc |-> "idle", id |-> None, count |-> 0, list |-> {}]
NoCaller == [pc |-> "idle", key |-> None, content |-> None]

Init ==
  /\ table = [d \in Ids |-> [status |-> "none", attempts |-> 0,
                          content |-> None, bus |-> "adapter"]]
  /\ platform = [d \in Ids |-> 0]
  /\ sender = [s \in Senders |-> NoSender]
  /\ caller = [c \in Callers |-> NoCaller]
  /\ crashes = 0

(* The row with a new status and attempt_count.                            *)
Put(d, status, attempts) ==
  table' = [table EXCEPT ![d] =
    [status |-> status, attempts |-> attempts, content |-> table[d].content,
     bus |-> table[d].bus]]

Goto(s, pc, d, count) ==
  sender' = [sender EXCEPT ![s] =
    [pc |-> pc, id |-> d, count |-> count, list |-> {}]]

-----------------------------------------------------------------------------
(* The generic outbox *)

(* create_delivery; a second one with the key finds the first.             *)
CreateDelivery(d, bus) ==
  /\ table[d].status = "none" /\ \A e \in Outbox : e < d => table[e].status # "none"
  /\ table' = [table EXCEPT ![d] =
       [status |-> "pending", attempts |-> 0, content |-> None, bus |-> bus]]
  /\ UNCHANGED <<platform, sender, caller, crashes>>

(* The tests of send_delivery and of pump_deliveries' choice of rows       *)
Sendable(d) ==
  /\ table[d].status \in {"pending", "failed"} /\ d \notin Keys
  /\ table[d].bus = "adapter"

(* A pump lists the pending rows and then the failed ones.  When it comes  *)
(* to one whose platform is unknown, send_delivery raises before the row   *)
(* is marked, and the pump ends there: the rows behind it are not sent.    *)
Behind(d) ==
  \E e \in Outbox : /\ table[e].status = "pending" /\ table[e].bus = "unknown"
                    /\ table[d].status = "failed" \/ e < d

(* send_delivery's first reading of the row, in a pump that is scoped to   *)
(* the row's platform or in one that takes them all                        *)
SendCheck(s, d, scoped) ==
  /\ sender[s].pc = "idle" /\ Sendable(d) /\ (scoped \/ ~Behind(d))
  /\ Goto(s, "checked", d, 0)
  /\ UNCHANGED <<table, platform, caller, crashes>>

(* mark_delivery_sending: its SELECT, and its UPDATE whatever the status   *)
MarkRead(s) ==
  /\ sender[s].pc = "checked"
  /\ Goto(s, "read", sender[s].id, table[sender[s].id].attempts)
  /\ UNCHANGED <<table, platform, caller, crashes>>

MarkSending(s) ==
  /\ sender[s].pc = "read"
  /\ Put(sender[s].id, "sending", sender[s].count + 1)
  /\ Goto(s, "marked", sender[s].id, sender[s].count + 1)
  /\ UNCHANGED <<platform, caller, crashes>>

(* adapter.send: accepted or not, answered or not.  The row it works from  *)
(* was read again after mark_delivery_sending's commit.                    *)
Post(s, accepted, pc) ==
  /\ sender[s].pc = "marked"
  /\ pc = "ok" => accepted
  /\ platform' = [platform EXCEPT ![sender[s].id] = @ + (IF accepted THEN 1 ELSE 0)]
  /\ Goto(s, pc, sender[s].id, table[sender[s].id].attempts)
  /\ UNCHANGED <<table, caller, crashes>>

(* mark_delivery_sent                                                      *)
MarkSent(s) ==
  /\ sender[s].pc = "ok"
  /\ Put(sender[s].id, "sent", table[sender[s].id].attempts)
  /\ Goto(s, "idle", None, 0)
  /\ UNCHANGED <<platform, caller, crashes>>

Exhausted(count) == count >= MaxAttempts

(* mark_delivery_failed                                                    *)
MarkFailed(s) ==
  /\ sender[s].pc = "error"
  /\ Put(sender[s].id, IF Exhausted(sender[s].count) THEN "dead" ELSE "failed",
         table[sender[s].id].attempts)
  /\ Goto(s, "idle", None, 0)
  /\ UNCHANGED <<platform, caller, crashes>>

(* Mutant: only the channel rows are recovered. *)
RecoverableKeys(d) == table[d].status = "sending" /\ d \in Keys

(* recover_sending_deliveries: the SELECT leaves out the channel rows, and *)
(* the UPDATEs do not look at the status again.                            *)
Recoverable(d) == table[d].status = "sending" /\ d \notin Keys

RecoverRead(s) ==
  /\ sender[s].pc = "idle"
  /\ \E d \in Ids : Recoverable(d)
  /\ sender' = [sender EXCEPT ![s] =
       [pc |-> "recover", id |-> None, count |-> 0,
        list |-> {d \in Ids : Recoverable(d)}]]
  /\ UNCHANGED <<table, platform, caller, crashes>>

RecoverWrite(s) ==
  /\ sender[s].pc = "recover"
  /\ table' = [d \in Ids |->
       IF d \in sender[s].list
       THEN [status |-> "pending", attempts |-> table[d].attempts,
             content |-> table[d].content, bus |-> table[d].bus]
       ELSE table[d]]
  /\ Goto(s, "idle", None, 0)
  /\ UNCHANGED <<platform, caller, crashes>>

SenderCrash(s) ==
  /\ sender[s].pc # "idle" /\ crashes < MaxCrashes
  /\ crashes' = crashes + 1
  /\ Goto(s, "idle", None, 0)
  /\ UNCHANGED <<table, platform, caller>>

-----------------------------------------------------------------------------
(* One-shot channel messages *)

CallerAt(c, pc, k, content) ==
  caller' = [caller EXCEPT ![c] = [pc |-> pc, key |-> k, content |-> content]]

(* _inspect: a known key is answered from its row, so only an unknown one  *)
(* goes on to the platform's checks of channel and reply.                  *)
ChannelInspect(c, k, content) ==
  /\ caller[c].pc = "idle" /\ table[k].status = "none"
  /\ CallerAt(c, "inspected", k, content)
  /\ UNCHANGED <<table, platform, sender, crashes>>

(* Mutant: an unfinished reservation may be taken over. *)
ReserveSteals(c) ==
  LET k == caller[c].key IN
  /\ caller[c].pc = "inspected"
  /\ table[k].status \in {"none", "sending"}
  /\ table' = [table EXCEPT ![k] =
       [status |-> "sending", attempts |-> 1, content |-> caller[c].content,
        bus |-> "adapter"]]
  /\ CallerAt(c, "reserved", k, caller[c].content)
  /\ UNCHANGED <<platform, sender, crashes>>

(* reserve_channel_delivery: audit event, row and claim in one transaction *)
Reserve(c) ==
  LET k == caller[c].key IN
  /\ caller[c].pc = "inspected"
  /\ table[k].status = "none"
  /\ table' = [table EXCEPT ![k] =
       [status |-> "sending", attempts |-> 1, content |-> caller[c].content,
        bus |-> "adapter"]]
  /\ CallerAt(c, "reserved", k, caller[c].content)
  /\ UNCHANGED <<platform, sender, crashes>>

(* Another caller's row was there: a replay or an idempotency conflict.    *)
ReserveReplays(c) ==
  /\ caller[c].pc = "inspected"
  /\ table[caller[c].key].status # "none"
  /\ CallerAt(c, "idle", None, None)
  /\ UNCHANGED <<table, platform, sender, crashes>>

(* Mutant: every failure counts as a rejection. *)
OutcomeOfAny(accepted, answer) ==
  IF answer = "message" THEN "ok" ELSE "rejected"

(* post_channel_json and _post_reserved: only a 4xx answer (which never    *)
(* comes with an accepted message) is a rejection, only a well-formed      *)
(* message is a success, and everything else leaves the row alone.         *)
OutcomeOf(accepted, answer) ==
  CASE answer = "message" -> "ok"
    [] answer = "4xx" -> "rejected"
    [] OTHER -> "idle"

ChannelPost(c, accepted, answer) ==
  LET k == caller[c].key
      pc == OutcomeOf(accepted, answer)
  IN
  /\ caller[c].pc = "reserved"
  /\ answer = "message" => accepted
  /\ answer = "4xx" => ~accepted
  /\ platform' = [platform EXCEPT ![k] = @ + (IF accepted THEN 1 ELSE 0)]
  /\ IF pc = "idle" THEN CallerAt(c, "idle", None, None)
                    ELSE CallerAt(c, pc, k, caller[c].content)
  /\ UNCHANGED <<table, sender, crashes>>

(* finish_channel_delivery                                                 *)
ChannelFinish(c) ==
  LET k == caller[c].key IN
  /\ caller[c].pc \in {"ok", "rejected"} /\ table[k].status = "sending"
  /\ Put(k, IF caller[c].pc = "ok" THEN "sent" ELSE "dead", table[k].attempts)
  /\ CallerAt(c, "idle", None, None)
  /\ UNCHANGED <<platform, sender, crashes>>

CallerCrash(c) ==
  /\ caller[c].pc # "idle" /\ crashes < MaxCrashes
  /\ crashes' = crashes + 1
  /\ CallerAt(c, "idle", None, None)
  /\ UNCHANGED <<table, platform, sender>>

-----------------------------------------------------------------------------
SendStep(s) ==
  \/ MarkRead(s) \/ MarkSending(s) \/ MarkSent(s) \/ MarkFailed(s)
  \/ \E a \in BOOLEAN, pc \in {"ok", "error"} : Post(s, a, pc)
  \/ RecoverWrite(s)

ChannelStep(c) ==
  \/ \E k \in Keys, x \in Contents : ChannelInspect(c, k, x)
  \/ Reserve(c) \/ ReserveReplays(c)
  \/ \E a \in BOOLEAN, answer \in {"message", "4xx", "lost"} :
       ChannelPost(c, a, answer)
  \/ ChannelFinish(c) \/ CallerCrash(c)

Next ==
  \/ \E d \in Outbox, b \in Buses : CreateDelivery(d, b)
  \/ \E s \in Senders : \/ \E d \in Ids, scoped \in BOOLEAN : SendCheck(s, d, scoped)
                        \/ SendStep(s) \/ RecoverRead(s) \/ SenderCrash(s)
  \/ \E c \in Callers : ChannelStep(c)

Spec == Init /\ [][Next]_vars

-----------------------------------------------------------------------------
(* A channel message reaches the platform at most once, whatever callers   *)
(* repeat the key, crash, lose the answer, or run a recovery meanwhile.    *)
OneShot == \A k \in Keys : platform[k] <= 1

(* A definite channel result is the truth: "sent" rows are on the platform *)
(* and "dead" ones are not, so the advice to use a new send_key after a    *)
(* rejection cannot duplicate a message.                                   *)
ReceiptIsTrue ==
  \A k \in Keys : /\ table[k].status = "sent" => platform[k] = 1
                  /\ table[k].status = "dead" => platform[k] = 0

(* A generic delivery is given up only after MaxAttempts attempts, crashes *)
(* and recoveries included, and one marked sent is on the platform.        *)
NoEarlyDeath ==
  \A d \in Outbox : /\ table[d].status = "dead" => table[d].attempts >= MaxAttempts
                    /\ table[d].status = "sent" => platform[d] >= 1

-----------------------------------------------------------------------------
(* A sender goes on with its row, an unscoped pump runs again while it has *)
(* something to send, and one starts with --recover-sending after a crash. *)
Fairness ==
  \A s \in Senders :
    /\ WF_vars(SendStep(s))
    /\ WF_vars(\E d \in Ids : SendCheck(s, d, FALSE))
    /\ WF_vars(RecoverRead(s))

LiveSpec == Spec /\ Fairness

(* A generic delivery that has an adapter ends sent or dead, unless a row  *)
(* of an unknown platform lies before it in every list.                    *)
DeliveryEnds ==
  \A d \in Outbox :
    table[d].status = "pending" /\ table[d].bus = "adapter"
      ~> table[d].status \in {"sent", "dead"} \/ Behind(d)
=============================================================================
