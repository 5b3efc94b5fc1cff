------------------------------ MODULE MCSafety ------------------------------
(***************************************************************************)
(* The permission layer and the rollback engine in one run.  They share no *)
(* state, so a behaviour follows one of them: part says which, and the     *)
(* other one keeps its initial state.                                      *)
(***************************************************************************)
EXTENDS ToolPermission, RollbackEngine

VARIABLE part

vars == <<part, permissionVars, rollbackVars>>

(* The risk of each tool: an ordinary one, a shell and one on the denylist. *)
MCRiskOf == [t \in Tools |-> IF t = "terminal" THEN 2 ELSE 0]

Init ==
    /\ part \in {"permission", "rollback"}
    /\ PermissionInit
    /\ RollbackInit
    /\ part = "permission" => fs = [f \in Files |-> Absent]

Next ==
    \/ part = "permission" /\ PermissionNext /\ UNCHANGED <<part, rollbackVars>>
    \/ part = "rollback" /\ RollbackNext /\ UNCHANGED <<part, permissionVars>>

Spec == Init /\ [][Next]_vars

TypeOK == PermissionTypeOK /\ RollbackTypeOK
=============================================================================
