-------------------------------- MODULE Governance ---------------------------
(***************************************************************************)
(* Decisions about an agent: whether it may act, and which model serves    *)
(* it. The two parts have no state in common.                              *)
(***************************************************************************)
EXTENDS Naturals, FiniteSets, Sequences

-----------------------------------------------------------------------------
(***************************************************************************)
(* What decides whether an agent may act: the policies of tools with their *)
(* call limits (orchestration/tool_policy.py), the classes of commands     *)
(* (orchestration/command_policy.py), the approval requests                *)
(* (core/approval.py) and the tracker of operations that must not be done  *)
(* twice (core/idempotency.py).  Each answers a question; the caller acts  *)
(* later and records it, and others ask in between.  The storage behind    *)
(* approvals and operations is external: it survives a restart, and a      *)
(* write to it may fail.                                                   *)
(***************************************************************************)

CONSTANTS
    Governed,       \* callers
    Operations,     \* operation_ids
    Requests,       \* request_ids of approvals
    MaxCallsPerRun, \* max_calls_per_run of the tool's policy, 0 for no limit
    MaxActs,        \* bound: calls and operations begun
    MaxRestarts     \* bound: restarts and failed writes

ASSUME GovernanceAssumption ==
    /\ MaxCallsPerRun \in Nat /\ MaxActs \in Nat /\ MaxRestarts \in Nat
    /\ IsFiniteSet(Governed)
    /\ "nothing" \notin Operations /\ "call" \notin Operations

VARIABLES
    callCount,      \* _call_counts of the tool
    acting,         \* what each caller was allowed and has not recorded
    seen,           \* _seen of the tracker
    recorded,       \* operations in the storage
    pendingApprovals, \* _pending: the status of each request
    storedApprovals,  \* status of each request in the storage
    commands,       \* the classes whose patterns the latest command matches
    granted,        \* max_risk it was checked against, and the answer
    acts,           \* calls and operations begun
    restarts,
    callsMade,      \* history: calls begun since the latest reset_counts
    done,           \* history: how often each operation was begun
    excused,        \* history: operations whose repetition nothing can know
    unsaved         \* history: requests with a write that failed

governanceVars == <<callCount, acting, seen, recorded, pendingApprovals,
    storedApprovals, commands, granted, acts, restarts, callsMade,
    done, excused, unsaved>>

toolVars == <<callCount, callsMade>>
trackerVars == <<seen, recorded, done, excused>>
approvalVars == <<pendingApprovals, storedApprovals, unsaved>>
commandVars == <<commands, granted>>

ApprovalStates == {"none", "pending", "approved", "rejected"}

(* CommandRiskLevel, in the order of check's risk_order. *)
RiskOrder == [read_only |-> 0, low_risk |-> 1, modifying |-> 2, network |-> 3,
              privileged |-> 4, destructive |-> 5, production |-> 6]
PatternClasses == {"destructive", "privileged", "production", "network", "modifying"}

GovernanceTypeOK ==
    /\ callCount \in 0..MaxActs
    /\ acting \in [Governed -> {"nothing", "call"} \cup Operations]
    /\ seen \subseteq Operations /\ recorded \subseteq Operations
    /\ pendingApprovals \in [Requests -> ApprovalStates]
    /\ storedApprovals \in [Requests -> ApprovalStates]
    /\ commands \subseteq PatternClasses \cup {"read_only"}
    /\ granted \in [max : DOMAIN RiskOrder, allowed : BOOLEAN]
    /\ acts \in 0..MaxActs
    /\ done \in [Operations -> 0..MaxActs]
    /\ excused \subseteq Operations /\ unsaved \subseteq Requests

GovernanceInit ==
    /\ callCount = 0
    /\ acting = [c \in Governed |-> "nothing"]
    /\ seen = {} /\ recorded = {}
    /\ pendingApprovals = [r \in Requests |-> "none"]
    /\ storedApprovals = [r \in Requests |-> "none"]
    /\ commands = {}
    /\ granted = [max |-> "modifying", allowed |-> TRUE]
    /\ acts = 0 /\ restarts = 0
    /\ callsMade = 0
    /\ done = [o \in Operations |-> 0]
    /\ excused = {} /\ unsaved = {}

Doing(what) == {c \in Governed : acting[c] = what}

(* ToolPolicyEngine.check of a tool whose policy allows it. *)
UnderLimit == MaxCallsPerRun = 0 \/ callCount < MaxCallsPerRun

BeginCall(c) ==
    /\ acting[c] = "nothing" /\ acts < MaxActs
    /\ UnderLimit
    /\ acting' = [acting EXCEPT ![c] = "call"]
    /\ acts' = acts + 1 /\ callsMade' = callsMade + 1
    /\ UNCHANGED <<callCount, restarts, trackerVars, approvalVars, commandVars>>

RecordToolCall(c) ==
    /\ acting[c] = "call"
    /\ acting' = [acting EXCEPT ![c] = "nothing"]
    /\ callCount' = callCount + 1
    /\ UNCHANGED <<callsMade, acts, restarts, trackerVars, approvalVars, commandVars>>

ResetCounts ==
    /\ callCount > 0
    /\ callCount' = 0
    /\ callsMade' = 0
    /\ UNCHANGED <<acting, acts, restarts, trackerVars, approvalVars, commandVars>>

(* OperationTracker.is_dup: what the storage knows is remembered. *)
IsDup(o) == o \in seen \/ o \in recorded

BeginOperation(c, o) ==
    /\ acting[c] = "nothing" /\ acts < MaxActs
    /\ seen' = IF o \in recorded THEN seen \cup {o} ELSE seen
    /\ IF IsDup(o) THEN UNCHANGED <<acting, acts, done, excused>>
       ELSE /\ acting' = [acting EXCEPT ![c] = o]
            /\ acts' = acts + 1
            /\ done' = [done EXCEPT ![o] = @ + 1]
            /\ excused' = IF Doing(o) # {} THEN excused \cup {o} ELSE excused
    /\ UNCHANGED <<recorded, restarts, toolVars, approvalVars, commandVars>>

(* record: remembered first, then written. *)
RecordOperation(c, o, ok) ==
    /\ acting[c] = o
    /\ ~ok => restarts < MaxRestarts
    /\ acting' = [acting EXCEPT ![c] = "nothing"]
    /\ seen' = seen \cup {o}
    /\ recorded' = IF ok THEN recorded \cup {o} ELSE recorded
    /\ excused' = IF ok THEN excused ELSE excused \cup {o}
    /\ restarts' = IF ok THEN restarts ELSE restarts + 1
    /\ UNCHANGED <<acts, done, toolVars, approvalVars, commandVars>>

(* clear_old forgets every operation in memory, and old ones in the storage. *)
ClearOld(old) ==
    /\ seen' = {}
    /\ recorded' = recorded \ old
    /\ excused' = excused \cup (old \cap recorded)
    /\ UNCHANGED <<acting, acts, done, restarts, toolVars, approvalVars, commandVars>>

(* The process restarts: an operation under way was done and not recorded. *)
Reboot ==
    /\ restarts < MaxRestarts
    /\ restarts' = restarts + 1
    /\ acting' = [c \in Governed |-> "nothing"]
    /\ seen' = {}
    /\ excused' = excused \cup {o \in Operations : Doing(o) # {}}
    /\ callCount' = 0 /\ callsMade' = 0
    /\ pendingApprovals' = [r \in Requests |-> "none"]
    /\ UNCHANGED <<recorded, done, acts, storedApprovals, unsaved, commandVars>>

Untouched == UNCHANGED <<acting, acts, toolVars, trackerVars, commandVars>>

Stored(r, s, ok) ==
    /\ ~ok => restarts < MaxRestarts
    /\ restarts' = IF ok THEN restarts ELSE restarts + 1
    /\ storedApprovals' = IF ok THEN [storedApprovals EXCEPT ![r] = s] ELSE storedApprovals
    /\ unsaved' = IF ok THEN unsaved ELSE unsaved \cup {r}

RequestApproval(r, ok) ==
    /\ pendingApprovals[r] = "none" /\ storedApprovals[r] = "none"
    /\ r \notin unsaved     \* request_ids are not used again
    /\ pendingApprovals' = [pendingApprovals EXCEPT ![r] = "pending"]
    /\ Stored(r, "pending", ok)
    /\ Untouched

(* approve and reject change a request that is in _pending, decided or not. *)
Decide(r, s, ok) ==
    /\ pendingApprovals[r] # "none"
    /\ pendingApprovals' = [pendingApprovals EXCEPT ![r] = s]
    /\ Stored(r, s, ok)
    /\ Untouched

(* get_pending loads the requests that are pending in the storage. *)
GetPending ==
    /\ pendingApprovals' = [r \in Requests |->
          IF pendingApprovals[r] = "none" /\ storedApprovals[r] = "pending"
          THEN "pending" ELSE pendingApprovals[r]]
    /\ UNCHANGED <<storedApprovals, unsaved, restarts>>
    /\ Untouched

(* Wrong: the lists are gone through in the order of their risk. *)
MildestFirst(matched) ==
    IF "modifying" \in matched THEN "modifying"
    ELSE IF "network" \in matched THEN "network"
    ELSE IF "privileged" \in matched THEN "privileged"
    ELSE IF "destructive" \in matched THEN "destructive" ELSE "low_risk"

(* CommandPolicy.classify: the first list with a pattern that matches. *)
Classify(matched) ==
    IF "destructive" \in matched THEN "destructive"
    ELSE IF "privileged" \in matched THEN "privileged"
    ELSE IF "production" \in matched THEN "production"
    ELSE IF "network" \in matched THEN "network"
    ELSE IF "modifying" \in matched THEN "modifying"
    ELSE IF "read_only" \in matched THEN "read_only" ELSE "low_risk"

CheckCommand(matched, max) ==
    /\ commands' = matched
    /\ granted' = [max |-> max, allowed |-> RiskOrder[Classify(matched)] <= RiskOrder[max]]
    /\ UNCHANGED <<acting, acts, restarts, toolVars, trackerVars, approvalVars>>

ToolNext == \/ \E c \in Governed : BeginCall(c) \/ RecordToolCall(c)
            \/ ResetCounts
            \/ Reboot
TrackerNext == \/ \E c \in Governed, o \in Operations :
                     \/ BeginOperation(c, o)
                     \/ \E ok \in BOOLEAN : RecordOperation(c, o, ok)
               \/ \E old \in SUBSET Operations : ClearOld(old)
               \/ Reboot
ApprovalNext == \/ \E r \in Requests, ok \in BOOLEAN :
                      \/ RequestApproval(r, ok)
                      \/ \E s \in {"approved", "rejected"} : Decide(r, s, ok)
                \/ GetPending
                \/ Reboot
CommandNext == \E matched \in SUBSET (PatternClasses \cup {"read_only"}), max \in DOMAIN RiskOrder :
                  CheckCommand(matched, max)

-----------------------------------------------------------------------------

\* A tool is called more often than max_calls_per_run only by callers that
\* asked before the others' calls were recorded: by all callers but one.
LimitsOverrunByOverlap ==
    MaxCallsPerRun > 0 =>
        callsMade <= MaxCallsPerRun + Cardinality(Governed) - 1

\* An operation is done twice only if the second began before the first was
\* recorded, or its record was lost, cleared, or never written.
RepeatsAreExcused == \A o \in Operations : done[o] > 1 => o \in excused

\* What the process and the storage say of an approval is the same, as long
\* as every write succeeded, whoever decided, reloaded and restarted.
ApprovalsAgree ==
    \A r \in Requests \ unsaved :
        pendingApprovals[r] # "none" => pendingApprovals[r] = storedApprovals[r]

\* A command that is allowed up to a risk below "privileged" matches no
\* pattern of a higher class; above it that fails, as classify asks for
\* privileged commands before production ones and check ranks them the other
\* way round.
AllowedCommandsAreBelow ==
    granted.allowed /\ RiskOrder[granted.max] < RiskOrder["privileged"] =>
        \A p \in commands : RiskOrder[p] <= RiskOrder[granted.max]

-----------------------------------------------------------------------------
(***************************************************************************)
(* The choice of a model for a task (orchestration/model_router.py): user  *)
(* preferences, the requirements and the budget of the task, its           *)
(* complexity read off keywords.  A step is one call of route().  Costs    *)
(* are in units of 0.00001 per 1k tokens.                                  *)
(***************************************************************************)

CONSTANTS
    RouteUsers,
    TaskLengths,    \* len(task)
    ContextLengths, \* context_length
    Budgets         \* budget, in units of a token's cost; 0 for none

ASSUME RoutingAssumption == TaskLengths \subseteq Nat /\ Budgets \subseteq Nat

VARIABLES
    preference,     \* _user_preferences
    routed          \* the latest call and its decision

routingVars == <<preference, routed>>

(* MODELS, in the order of the dict. *)
ModelTable == <<
    [name |-> "claude-fable-5-1", window |-> 200000, input |-> 300, output |-> 1500, vision |-> TRUE],
    [name |-> "claude-sonnet-4", window |-> 200000, input |-> 300, output |-> 1500, vision |-> TRUE],
    [name |-> "gpt-4o", window |-> 128000, input |-> 500, output |-> 1500, vision |-> TRUE],
    [name |-> "gpt-4o-mini", window |-> 128000, input |-> 15, output |-> 60, vision |-> TRUE],
    [name |-> "o3-mini", window |-> 65536, input |-> 55, output |-> 220, vision |-> FALSE] >>
Models == DOMAIN ModelTable
NoModel == 0
UnknownModel == Len(ModelTable) + 1
Complexities == {"trivial", "low", "medium", "high", "extreme"}

(* The arguments of route, and the default_model its router was made with. *)
RouteRequests ==
    [default : Models \cup {UnknownModel},
     user : RouteUsers, length : TaskLengths, context : ContextLengths,
     vision : BOOLEAN, budget : Budgets, keywords : SUBSET Complexities]

NoRoute == [model |-> NoModel, why |-> "none"]

(* _estimate_complexity: the first list with a keyword in the task. *)
EstimateComplexity(keywords) ==
    IF "trivial" \in keywords THEN "trivial"
    ELSE IF "low" \in keywords THEN "low"
    ELSE IF "medium" \in keywords THEN "medium"
    ELSE IF "high" \in keywords THEN "high"
    ELSE IF "extreme" \in keywords THEN "extreme" ELSE "medium"

(* _model_satisfies: every model supports functions. *)
Satisfies(m, r) ==
    /\ r.vision => ModelTable[m].vision
    /\ r.context <= ModelTable[m].window

(* _estimate_cost. *)
EstimateCost(m, length) ==
    (length \div 4) * ModelTable[m].input + (length \div 2) * ModelTable[m].output

Candidates(r) ==
    {m \in Models : Satisfies(m, r) /\
        (r.budget # 0 => EstimateCost(m, r.length) <= r.budget)}

(* What each complexity makes small; the extreme one wants a large window. *)
Measure(m, complexity) ==
    CASE complexity = "trivial" -> ModelTable[m].input
      [] complexity = "low" -> ModelTable[m].input + ModelTable[m].output
      [] complexity \in {"medium", "high"} -> ModelTable[m].output
      [] OTHER -> 200000 - ModelTable[m].window

(* min and max return the first of equals. *)
Select(candidates, complexity) ==
    CHOOSE m \in candidates : \A n \in candidates :
        \/ Measure(m, complexity) < Measure(n, complexity)
        \/ Measure(m, complexity) = Measure(n, complexity) /\ m <= n

(* A default that MODELS does not have raises KeyError. *)
Decision(r) ==
    LET p == preference[r.user]
    IN IF p \in Models /\ Satisfies(p, r) THEN [model |-> p, why |-> "preference"]
       ELSE IF Candidates(r) = {} THEN
          IF r.default \in Models THEN [model |-> r.default, why |-> "fallback"]
          ELSE [model |-> NoModel, why |-> "raised"]
       ELSE [model |-> Select(Candidates(r), EstimateComplexity(r.keywords)),
             why |-> "selected"]

RoutingTypeOK ==
    /\ preference \in [RouteUsers -> Models \cup {NoModel, UnknownModel}]
    /\ routed.decision.model \in Models \cup {NoModel}
    /\ routed.decision.why \in {"none", "preference", "fallback", "selected", "raised"}

RoutingInit ==
    /\ preference = [u \in RouteUsers |-> NoModel]
    /\ routed = [request |-> CHOOSE r \in RouteRequests : TRUE, decision |-> NoRoute]

SetUserPreference(u, m) ==
    /\ preference' = [preference EXCEPT ![u] = m]
    /\ UNCHANGED routed

Route(r) ==
    /\ routed' = [request |-> r, decision |-> Decision(r)]
    /\ UNCHANGED preference

RoutingNext ==
    \/ \E u \in RouteUsers, m \in Models \cup {UnknownModel} : SetUserPreference(u, m)
    \/ \E r \in RouteRequests : Route(r)
-----------------------------------------------------------------------------

\* A model that was not taken for want of a better one can do the task, a
\* selected one is within the budget, and the configured default is used, or
\* found to be unknown, only when no model is both; a stale preference, for a
\* model that is gone or too small, is passed over.
RoutedModelsFit ==
    LET r == routed.request
        d == routed.decision
    IN /\ d.why \in {"preference", "selected"} => Satisfies(d.model, r)
       /\ d.why = "selected" /\ r.budget # 0 => EstimateCost(d.model, r.length) <= r.budget
       /\ d.why \in {"fallback", "raised"} =>
             \A m \in Models : ~Satisfies(m, r) \/ EstimateCost(m, r.length) > r.budget

=============================================================================
