------------------------------ MODULE MCDelivery ------------------------------
(***************************************************************************)
(* The three processes that events, messages and local jobs go through,    *)
(* for model checking.  They share nothing, so a behaviour is one of one   *)
(* of them, which the initial state chooses together with the part of the  *)
(* instance that is in use.                                                *)
(***************************************************************************)
EXTENDS EventPump, DeliveryOutbox, JobRunner

CONSTANTS Alone,       \* the job pump that is alone in "queue"
          LastJob,     \* the job that "pumps" does without
          LastRow      \* the row that "channel" does without

(* "pump" is the daemon's event pump; "outbox" is the generic outbox alone *)
(* with two rows, "channel" one row beside the channel messages; "queue"   *)
(* is one job pump with every job, "pumps" two of them with two jobs that  *)
(* stay as fit as they were created.                                       *)
VARIABLE which

mcVars == <<pumpVars, vars, runnerVars, which>>

MCInit ==
  /\ PumpInit /\ Init /\ RunnerInit
  /\ which \in {"pump", "outbox", "channel", "queue", "pumps"}

(* The logs of the run: an event that takes the whole limit before one     *)
(* that is left behind, one that is not supported, and events of both      *)
(* workspaces in either order.                                             *)
Of(w, n) == [ws |-> w, parts |-> n]
Logs == {<<Of(1, 2), Of(1, 1)>>, <<Of(1, 0), Of(1, 2)>>,
         <<Of(2, 1), Of(1, 1)>>, <<Of(1, 1), Of(2, 2)>>}

InPump(A) == which = "pump" /\ A /\ UNCHANGED <<vars, runnerVars, which>>
InOutbox(A) == which \in {"outbox", "channel"} /\ A /\ UNCHANGED <<pumpVars, runnerVars, which>>
InRunner(A) == which \in {"queue", "pumps"} /\ A /\ UNCHANGED <<pumpVars, vars, which>>

MCNext ==
  \/ InPump(PumpNext /\ \E l \in Logs : \A r \in DOMAIN log' : log'[r] = l[r])
  \/ InOutbox(/\ Next
              /\ which = "outbox" => UNCHANGED caller
              /\ which = "channel" => table'[LastRow].status = "none")
  \/ InRunner(/\ RunnerNext
              /\ which = "queue" => \A r \in Runners \ {Alone} : runner'[r] = IdleRunner
              /\ which = "pumps" => jobs'[LastJob] = "none" /\ changes' = 0)

(* The fairness of the three modules. *)
MCFairness ==
  /\ \A t \in Threads : WF_mcVars(InPump(Run(t)))
  /\ WF_mcVars(InPump(PumpBegin(Loop)))
  /\ \A s \in Senders : /\ WF_mcVars(InOutbox(SendStep(s)))
                        /\ WF_mcVars(InOutbox(\E d \in Ids : SendCheck(s, d, FALSE)))
                        /\ WF_mcVars(InOutbox(RecoverRead(s)))
  /\ \A r \in Runners :
       /\ WF_mcVars(InRunner(RunStep(r)))
       /\ WF_mcVars(InRunner((which = "pumps" \/ r = Alone) /\ PumpList(r)))

MCSpec == MCInit /\ [][MCNext]_mcVars /\ MCFairness
===============================================================================
