---------------------------- MODULE MCCompletion ----------------------------
(***************************************************************************)
(* Completion for model checking.  The initial state chooses the part of   *)
(* the instance that is in use.                                            *)
(***************************************************************************)
EXTENDS Completion

CONSTANTS Alone   \* the files command that is alone in "receipts" and "marker"

(* "receipts" has two receipts and no mark_done_task, "marker" one receipt *)
(* beside a mark_done_task but no harness scripts, and "hosts" one receipt *)
(* and two overlapping files commands, of which nothing is recorded.       *)
VARIABLE which

mcVars == <<vars, which>>

(* The item has passed its review and is still owned by who worked on it.  *)
MCInitialItem == [status |-> "doing", wf |-> "review_approved",
                  branch |-> CHOOSE b \in Branches : TRUE, owned |-> TRUE,
                  receipt |-> NoReceipt]

MCInit == Init /\ which \in {"receipts", "marker", "hosts"}

In(A) == A /\ UNCHANGED which

InUse ==
    /\ IF which = "hosts" THEN \A w \in Recorders : record'[w].pc \in {"idle", "gated"}
       ELSE \A h \in Hosts \ {Alone} : files'[h] = FilesIdle
    /\ IF which = "marker" THEN scripts' = 0
       ELSE \A m \in Markers : marker'[m] = MarkIdle
    /\ which = "receipts" \/ \A w \in Recorders : record'[w].receipt \in {1, None}

MCNext == In(Next /\ InUse)

(* The fairness of LiveSpec, but only one host repeats its commands.       *)
MCFairness ==
    /\ \A h \in Hosts : WF_mcVars(In(FilesStep(h)))
    /\ \A r \in Receipts : SF_mcVars(In(FilesPreflight(Alone, r)))

MCSpec == MCInit /\ [][MCNext]_mcVars /\ MCFairness
=============================================================================
