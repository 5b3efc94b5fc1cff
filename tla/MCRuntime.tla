----------------------------- MODULE MCRuntime -----------------------------
(***************************************************************************)
(* The lifecycle of one run under an arbitrary body, and the runtime agent *)
(* with its own lifecycle: part says whose behaviour this is.              *)
(***************************************************************************)
EXTENDS RuntimeAgent

VARIABLE part

(* The bodies of run() are arbitrary, or they are execute(). *)
MCInit ==
    /\ Init
    /\ part \in {"lifecycle", "runtime"}
    /\ part = "lifecycle" => level = "none" /\ ~memory /\ max_turns = 2

MCNext ==
    \/ part = "lifecycle" /\ LifecycleNext /\ UNCHANGED <<part, agentVars>>
    \/ part = "runtime" /\ Next /\ UNCHANGED part

(* The fairness of the runtime agent, whose steps these are then. *)
MCSpec ==
    /\ MCInit
    /\ [][MCNext]_<<part, vars>>
    /\ part = "runtime" => WF_vars(Step)

(* The event trace of a lifecycle accounts for its history.  Runs of the
   agent are left out: they emit a second RUN_STARTED of their own. *)
TraceAccounts == part = "lifecycle" => TraceAccountsForHistory
=============================================================================
