--------------------------- MODULE ToolPermission ---------------------------
(***************************************************************************)
(* The tool permission layer (core/tool_permission.py): every call of      *)
(* check_permission is logged, calls above the risk threshold wait for an  *)
(* operator's approval or denial, and execute_with_permission awaits the   *)
(* tool between the check and the error mark it may leave in the log.      *)
(* A call's id is its index in the audit log (uuids do not collide), and   *)
(* _pending_approvals holds the same ToolCall objects as the log, so it is *)
(* the set of their ids.  Risk levels are 0..3; reasons are left out.      *)
(***************************************************************************)
EXTENDS Naturals, Sequences, FiniteSets, FiniteSetsExt

CONSTANTS
    Tools,      \* the tool names
    Denylist,   \* the layer's denylist
    Allowlist,  \* its allowlist; {} allows every tool
    RiskOf,     \* tool_def.risk_level of each tool
    Risks,      \* the risk levels a caller may pass to override RiskOf
    Threshold,  \* require_approval_above
    Callers,    \* concurrent callers of execute_with_permission
    MaxCalls    \* bound: entries of the audit log

ASSUME PermissionAssumption ==
    /\ Denylist \subseteq Tools
    /\ Allowlist \subseteq Tools
    /\ Risks \subseteq 0..3
    /\ RiskOf \in [Tools -> 0..3]
    /\ Threshold \in 0..3
    /\ MaxCalls \in Nat

VARIABLES
    audit,     \* _audit_log
    pending,   \* the ids in _pending_approvals
    call,      \* what each caller's execute_with_permission is doing
    approved   \* history: the ids an operator ever approved

permissionVars == <<audit, pending, call, approved>>

Ids == 1..Len(audit)
Statuses == {"pending", "allowed", "denied", "error"}

(* A caller has no call, runs the tool for the logged call "id", or got the
   answer "refused", "result" or "raised" for it. *)
CallStates == [at : {"idle", "running", "refused", "result", "raised"},
               id : 0..MaxCalls, risk : 0..3]

PermissionTypeOK ==
    /\ audit \in Seq([tool : Tools, status : Statuses])
    /\ Len(audit) <= MaxCalls
    /\ pending \subseteq Ids
    /\ call \in [Callers -> CallStates]
    /\ approved \subseteq pending

PermissionInit ==
    /\ audit = <<>>
    /\ pending = {}
    /\ call = [c \in Callers |-> [at |-> "idle", id |-> 0, risk |-> 0]]
    /\ approved = {}

-----------------------------------------------------------------------------
(* check_permission: its decision, and the status it logs.                 *)
Decision(tool, risk, prohibited) ==
    CASE tool \in Denylist -> "denied"
      [] tool \notin Denylist /\ Allowlist # {} /\ tool \notin Allowlist ->
            "denied"
      [] OTHER -> IF prohibited THEN "denied"
                  ELSE IF risk >= Threshold THEN "approval_required"
                  ELSE "allowed"

(* The log entry the check leaves; one that waits for approval is also
   remembered in _pending_approvals, for good. *)
Check(tool, decision) ==
    /\ Len(audit) < MaxCalls
    /\ audit' = Append(audit,
          [tool |-> tool,
           status |-> IF decision = "approval_required" THEN "pending"
                      ELSE decision])
    /\ pending' = IF decision = "approval_required"
                  THEN pending \cup {Len(audit) + 1} ELSE pending

(* is_approved. *)
IsApproved(log, waiting, id) == id \in waiting /\ log[id].status = "allowed"

(* The calls of a tool that carry a status in the log. *)
CallsOf(log, tool, status) ==
    {i \in 1..Len(log) : log[i].tool = tool /\ log[i].status = status}

(* Wrong: the calls that still wait are not looked for. *)
RunsUnchecked(log, waiting, tool, decision) == decision # "denied"

(* Whether execute_with_permission goes on to the executor: an allowed call,
   or one whose tool's latest waiting call counts as approved. *)
Runs(log, waiting, tool, decision) ==
    \/ decision = "allowed"
    \/ /\ decision = "approval_required"
       /\ LET matching == CallsOf(log, tool, "pending")
          IN  matching # {} => IsApproved(log, waiting, Max(matching))

-----------------------------------------------------------------------------
(* check_permission called alone, by code that only asks. *)
AskPermission(tool, risk, prohibited) ==
    /\ Check(tool, Decision(tool, risk, prohibited))
    /\ UNCHANGED <<call, approved>>

(* execute_with_permission up to the await of the executor. *)
Execute(c, tool, risk, prohibited) ==
    LET decision == Decision(tool, risk, prohibited)
    IN  /\ call[c].at # "running"
        /\ Check(tool, decision)
        /\ call' = [call EXCEPT ![c] =
              [at |-> IF Runs(audit', pending', tool, decision)
                      THEN "running" ELSE "refused",
               id |-> Len(audit'), risk |-> risk]]
        /\ UNCHANGED <<approved>>

(* The executor returns. *)
ToolReturns(c) ==
    /\ call[c].at = "running"
    /\ call' = [call EXCEPT ![c].at = "result"]
    /\ UNCHANGED <<audit, pending, approved>>

(* The error mark: the tool's latest call that is still "allowed". *)
MarkError(tool) ==
    LET matching == CallsOf(audit, tool, "allowed")
    IN  audit' = IF matching = {} THEN audit
                 ELSE [audit EXCEPT ![Max(matching)].status = "error"]

(* The executor raises, and the exception is passed on. *)
ToolRaises(c) ==
    /\ call[c].at = "running"
    /\ call' = [call EXCEPT ![c].at = "raised"]
    /\ MarkError(audit[call[c].id].tool)
    /\ UNCHANGED <<pending, approved>>

-----------------------------------------------------------------------------
(* Wrong: the operator's answer is not looked up in _pending_approvals. *)
ApproveAny(id) ==
    /\ id \in Ids
    /\ audit' = [audit EXCEPT ![id].status = "allowed"]
    /\ approved' = approved \cup ({id} \cap pending)
    /\ UNCHANGED <<pending, call>>

(* record_approval, which may come again or after a denial. *)
RecordApproval(id) ==
    /\ id \in pending
    /\ audit' = [audit EXCEPT ![id].status = "allowed"]
    /\ approved' = approved \cup {id}
    /\ UNCHANGED <<pending, call>>

(* record_denial, which may come again or after an approval. *)
RecordDenial(id) ==
    /\ id \in pending
    /\ audit' = [audit EXCEPT ![id].status = "denied"]
    /\ UNCHANGED <<pending, call, approved>>

PermissionNext ==
    \/ \E t \in Tools, prohibited \in BOOLEAN :
          \E risk \in {RiskOf[t]} \cup Risks :
             \/ AskPermission(t, risk, prohibited)
             \/ \E c \in Callers : Execute(c, t, risk, prohibited)
    \/ \E c \in Callers : ToolReturns(c) \/ ToolRaises(c)
    \/ \E id \in Ids : RecordApproval(id) \/ RecordDenial(id)

PermissionSpec == PermissionInit /\ [][PermissionNext]_permissionVars

-----------------------------------------------------------------------------
(* Properties.                                                             *)

(* The gate: a tool only runs for a call that the policy allowed outright or
   that an operator approved, and never when it is on the denylist or off
   the allowlist, however approvals, denials and error marks of other calls
   are interleaved with it. *)
OnlyPermittedRuns == \A c \in Callers : call[c].at = "running" =>
    LET entry == audit[call[c].id]
    IN  /\ entry.tool \notin Denylist
        /\ Allowlist # {} => entry.tool \in Allowlist
        /\ entry.status \in {"allowed", "error"}
        /\ call[c].risk >= Threshold => call[c].id \in approved

(* What the policy itself denied stays denied in the audit trail: only calls
   that waited for an operator change from "denied" to something else. *)
PolicyDenialStays == [][\A id \in Ids :
    audit[id].status = "denied" /\ id \notin pending =>
        audit'[id].status = "denied"]_permissionVars

(* Claim of the repository ("Check if already approved", and the approval
   step of the class's usage): once an operator has approved a waiting call
   of a tool, and has not denied it since, execute_with_permission no longer
   refuses that tool for want of an approval. *)
ApprovalIsHonoured == [][\A c \in Callers :
    call'[c] # call[c] /\ call'[c].at = "refused" =>
        LET entry == audit'[call'[c].id]
        IN  entry.status = "pending" =>
              \A id \in pending :
                 audit[id].tool = entry.tool => audit[id].status # "allowed"
    ]_permissionVars
=============================================================================
