---------------------------- MODULE SafetyProofs ----------------------------
(***************************************************************************)
(* What guards a run of tools, for all values of the constants: the gate   *)
(* of the permission layer (any tools, callers, policies and lengths of    *)
(* the audit log) and the rollback engine (any files, procedures, numbers  *)
(* of retries and of crashes).                                             *)
(***************************************************************************)
EXTENDS MCSafety, FiniteSetTheorems, WellFoundedInduction, TLAPS

-----------------------------------------------------------------------------
(* The permission layer.                                                   *)

\* What makes OnlyPermittedRuns inductive: the call a tool runs for waits for
\* no operator, so that no late denial can change its entry in the log, and
\* the check that let it through found its risk below the threshold.
GateInv == \A c \in Callers : call[c].at = "running" =>
    LET entry == audit[call[c].id]
    IN  /\ call[c].id \in Ids \ pending
        /\ call[c].risk < Threshold
        /\ entry.tool \notin Denylist
        /\ Allowlist # {} => entry.tool \in Allowlist
        /\ entry.status \in {"allowed", "error"}

-----------------------------------------------------------------------------
\* A nonempty set of log indexes has a maximum: otherwise the sets of the
\* indexes above each of its members would shrink for ever.
LEMMA MaxExists ==
  ASSUME NEW n \in Nat, NEW S \in SUBSET (1..n), S # {}
  PROVE  Max(S) \in S /\ \A y \in S : Max(S) >= y
<1> DEFINE Above(x) == {y \in S : y > x}
           Family == {Above(x) : x \in S}
<1>1. IsFiniteSet(S)
  <2>1. IsFiniteSet(1..n)
    BY FS_Interval
  <2>2. \A T \in SUBSET (1..n) : IsFiniteSet(T)
    BY <2>1, FS_Subset
  <2> QED BY <2>2
<1>2. Family \subseteq FiniteSubsetsOf(S) /\ Family # {}
  <2>1. FiniteSubsetsOf(S) = SUBSET S
    BY <1>1, FS_FiniteSubsetsOfFinite
  <2>2. \A x \in S : Above(x) \in SUBSET S
    OBVIOUS
  <2>3. PICK x \in S : TRUE
    OBVIOUS
  <2>4. Above(x) \in Family
    OBVIOUS
  <2> QED
    <3> HIDE DEF Above
    <3> QED BY <2>1, <2>2, <2>4
<1>3. PICK A \in Family : \A B \in Family : <<B, A>> \notin StrictSubsetOrdering(S)
  <2> HIDE DEF Family
  <2> QED BY <1>2, FS_StrictSubsetOrderingWellFounded, WFMin
<1>4. PICK x \in S : A = Above(x)
  OBVIOUS
<1>5. \A y \in S : x >= y
  <2> SUFFICES ASSUME NEW y \in S, y > x
               PROVE  FALSE
    OBVIOUS
  <2>1. x \in Nat /\ y \in Nat /\ S \subseteq Nat
    OBVIOUS
  <2>2. \A z \in S : z > y => z > x
    BY <2>1
  <2>3. Above(y) \subseteq Above(x)
    BY <2>2
  <2>4. y \in Above(x) /\ y \notin Above(y)
    BY <2>1
  <2>5. <<Above(y), A>> \notin StrictSubsetOrdering(S)
    BY <1>3
  <2>6. Above(y) \in SUBSET S /\ Above(x) \in SUBSET S
    OBVIOUS
  <2>7. Above(y) # Above(x)
    BY <2>4
  <2>8. <<Above(y), Above(x)>> \in StrictSubsetOrdering(S)
    <3> HIDE DEF Above
    <3> QED BY <2>3, <2>6, <2>7 DEF StrictSubsetOrdering
  <2> QED BY <1>4, <2>5, <2>8
<1> QED BY <1>5 DEF Max

\* The entries of the log.
LEMMA Entries ==
  ASSUME PermissionTypeOK, NEW i \in Ids
  PROVE  /\ audit[i] = [tool |-> audit[i].tool, status |-> audit[i].status]
         /\ audit[i].tool \in Tools
         /\ audit[i].status \in Statuses
         /\ Len(audit) \in Nat /\ i \in 1..Len(audit)
<1> DEFINE Entry == [tool : Tools, status : Statuses]
<1>1. audit \in Seq(Entry) /\ i \in 1..Len(audit)
  BY DEF PermissionTypeOK, Ids
<1>2. audit[i] \in Entry /\ Len(audit) \in Nat
  <2> HIDE DEF Entry
  <2> QED BY <1>1
<1> QED BY <1>1, <1>2

\* An entry whose status is replaced is an entry.
LEMMA NewStatus ==
  ASSUME PermissionTypeOK, NEW i \in Ids, NEW s \in Statuses,
         audit' = [audit EXCEPT ![i].status = s]
  PROVE  /\ audit' \in Seq([tool : Tools, status : Statuses])
         /\ Len(audit') = Len(audit)
         /\ audit'[i].status = s /\ audit'[i].tool = audit[i].tool
         /\ \A j \in Ids \ {i} : audit'[j] = audit[j]
<1> DEFINE entry == [audit[i] EXCEPT !.status = s]
<1>1. entry = [tool |-> audit[i].tool, status |-> s]
  <2>1. PICK x \in Tools, y \in Statuses : audit[i] = [tool |-> x, status |-> y]
    BY Entries
  <2> QED BY <2>1
<1>2. entry \in [tool : Tools, status : Statuses]
  BY <1>1, Entries
<1>3. audit' = [audit EXCEPT ![i] = entry]
  OBVIOUS
<1>4. entry.status = s /\ entry.tool = audit[i].tool
  BY <1>1
<1> HIDE DEF entry
<1> QED BY <1>2, <1>3, <1>4 DEF PermissionTypeOK, Ids

\* What the check leaves in the log.
LEMMA CheckLogs ==
  ASSUME PermissionTypeOK, NEW tool \in Tools, NEW decision \in Statuses \cup {"approval_required"},
         decision # "pending", Check(tool, decision)
  PROVE  /\ Len(audit') = Len(audit) + 1
         /\ Len(audit') <= MaxCalls
         /\ audit' \in Seq([tool : Tools, status : Statuses])
         /\ \A i \in 1..Len(audit) : audit'[i] = audit[i]
         /\ audit'[Len(audit')].tool = tool
         /\ audit'[Len(audit')].status =
               IF decision = "approval_required" THEN "pending" ELSE decision
         /\ pending' = IF decision = "approval_required"
                       THEN pending \cup {Len(audit')} ELSE pending
<1>1. [tool |-> tool, status |-> IF decision = "approval_required" THEN "pending" ELSE decision]
        \in [tool : Tools, status : Statuses]
  BY DEF Statuses
<1> QED BY <1>1, PermissionAssumption DEF PermissionTypeOK, Check

\* The decisions of the check.
LEMMA Decisions ==
  ASSUME NEW tool \in Tools, NEW risk \in 0..3, NEW prohibited \in BOOLEAN
  PROVE  LET decision == Decision(tool, risk, prohibited)
         IN  /\ decision \in {"denied", "allowed", "approval_required"}
             /\ decision = "allowed" => /\ risk < Threshold
                                        /\ tool \notin Denylist
                                        /\ Allowlist # {} => tool \in Allowlist
BY PermissionAssumption DEF Decision

\* A call that needs an approval never goes on to its executor: the latest
\* waiting call of its tool is the one its own check has just logged.
LEMMA OnlyAllowedRuns ==
  ASSUME NEW log \in Seq([tool : Tools, status : Statuses]), NEW waiting,
         NEW tool \in Tools, NEW decision, Len(log) > 0,
         decision = "approval_required" =>
            log[Len(log)].tool = tool /\ log[Len(log)].status = "pending",
         Runs(log, waiting, tool, decision)
  PROVE  decision = "allowed"
<1> SUFFICES ASSUME decision = "approval_required"
             PROVE  FALSE
  BY DEF Runs
<1> DEFINE matching == CallsOf(log, tool, "pending")
<1>1. Len(log) \in matching /\ matching \in SUBSET (1..Len(log))
  BY DEF CallsOf
<1>2. Max(matching) \in matching
  <2> HIDE DEF matching
  <2>1. Len(log) \in Nat
    OBVIOUS
  <2> QED BY <1>1, <2>1, MaxExists
<1>3. log[Max(matching)].status = "pending"
  BY <1>2 DEF CallsOf
<1>4. matching # {} => IsApproved(log, waiting, Max(matching))
  BY Zenon DEF Runs
<1> QED
  <2> HIDE DEF matching
  <2> QED BY <1>1, <1>3, <1>4 DEF IsApproved

-----------------------------------------------------------------------------
\* What the error mark may change: one entry, and only an allowed one.
LEMMA ErrorMark ==
  ASSUME PermissionTypeOK, NEW tool \in Tools, MarkError(tool)
  PROVE  /\ audit' \in Seq([tool : Tools, status : Statuses])
         /\ Len(audit') = Len(audit)
         /\ \A i \in Ids : /\ audit'[i].tool = audit[i].tool
                           /\ audit'[i].status # audit[i].status =>
                                audit[i].status = "allowed" /\ audit'[i].status = "error"
<1> DEFINE matching == CallsOf(audit, tool, "allowed")
<1>1. CASE matching = {}
  BY <1>1 DEF MarkError, PermissionTypeOK
<1>2. CASE matching # {}
  <2>1. Max(matching) \in matching
    <3>1. matching \in SUBSET (1..Len(audit)) /\ Len(audit) \in Nat
      BY DEF CallsOf, PermissionTypeOK
    <3> HIDE DEF matching
    <3> QED BY <1>2, <3>1, MaxExists
  <2>2. audit[Max(matching)].status = "allowed" /\ Max(matching) \in Ids
    BY <2>1 DEF CallsOf, Ids
  <2>3. audit' = [audit EXCEPT ![Max(matching)].status = "error"]
    BY <1>2 DEF MarkError
  <2> HIDE DEF matching
  <2> QED BY <2>2, <2>3, NewStatus DEF Statuses
<1> QED BY <1>1, <1>2

\* The types, kept by every action; the gate says that a running call has an
\* entry in the log.
LEMMA TypeInductive ==
  PermissionTypeOK /\ GateInv /\ [PermissionNext]_permissionVars => PermissionTypeOK'
<1> SUFFICES ASSUME PermissionTypeOK, GateInv, [PermissionNext]_permissionVars
             PROVE  PermissionTypeOK'
  OBVIOUS
<1>1. ASSUME NEW t \in Tools, NEW prohibited \in BOOLEAN,
             NEW risk \in {RiskOf[t]} \cup Risks,
             \/ AskPermission(t, risk, prohibited)
             \/ \E c \in Callers : Execute(c, t, risk, prohibited)
      PROVE  PermissionTypeOK'
  <2> DEFINE decision == Decision(t, risk, prohibited)
  <2>1. risk \in 0..3
    BY PermissionAssumption
  <2>2. decision \in {"denied", "allowed", "approval_required"}
    BY <2>1, Decisions
  <2>3. Check(t, decision) /\ UNCHANGED <<approved>>
    BY <1>1 DEF AskPermission, Execute
  <2> HIDE DEF decision
  <2>4. /\ Len(audit') = Len(audit) + 1
        /\ Len(audit') <= MaxCalls
        /\ audit' \in Seq([tool : Tools, status : Statuses])
        /\ pending' \subseteq pending \cup {Len(audit')}
    BY <2>2, <2>3, CheckLogs DEF Statuses
  <2>5. call' \in [Callers -> CallStates]
    <3>1. Len(audit') \in 0..MaxCalls
      BY <2>4, PermissionAssumption DEF PermissionTypeOK
    <3>2. CASE AskPermission(t, risk, prohibited)
      BY <3>2 DEF AskPermission, PermissionTypeOK
    <3>3. ASSUME NEW c \in Callers, Execute(c, t, risk, prohibited)
          PROVE  call' \in [Callers -> CallStates]
      BY <2>1, <3>1, <3>3 DEF Execute, PermissionTypeOK, CallStates
    <3> QED BY <1>1, <3>2, <3>3
  <2>6. approved' \subseteq pending'
    BY <2>3 DEF Check, PermissionTypeOK
  <2>7. pending' \subseteq Ids'
    BY <2>4 DEF PermissionTypeOK, Ids
  <2> QED BY <2>3, <2>4, <2>5, <2>6, <2>7 DEF PermissionTypeOK
<1>2. ASSUME NEW c \in Callers, ToolReturns(c)
      PROVE  PermissionTypeOK'
  BY <1>2 DEF ToolReturns, PermissionTypeOK, CallStates, Ids
<1>3. ASSUME NEW c \in Callers, ToolRaises(c)
      PROVE  PermissionTypeOK'
  <2>1. call[c].id \in Ids
    BY <1>3 DEF ToolRaises, GateInv
  <2>2. audit[call[c].id].tool \in Tools /\ MarkError(audit[call[c].id].tool)
    BY <1>3, <2>1, Entries DEF ToolRaises
  <2>3. audit' \in Seq([tool : Tools, status : Statuses]) /\ Len(audit') = Len(audit)
    BY <2>2, ErrorMark
  <2>4. call' \in [Callers -> CallStates]
    BY <1>3 DEF ToolRaises, PermissionTypeOK, CallStates
  <2> QED BY <1>3, <2>3, <2>4 DEF ToolRaises, PermissionTypeOK, Ids
<1>4. ASSUME NEW id \in Ids, RecordApproval(id) \/ RecordDenial(id)
      PROVE  PermissionTypeOK'
  <2>1. audit' \in Seq([tool : Tools, status : Statuses]) /\ Len(audit') = Len(audit)
    BY <1>4, NewStatus DEF RecordApproval, RecordDenial, Statuses
  <2>2. call' = call /\ pending' = pending /\ approved' \subseteq pending
    BY <1>4 DEF RecordApproval, RecordDenial, PermissionTypeOK
  <2> QED BY <2>1, <2>2 DEF PermissionTypeOK, Ids
<1>5. CASE UNCHANGED permissionVars
  BY <1>5 DEF permissionVars, PermissionTypeOK, Ids
<1> QED BY <1>1, <1>2, <1>3, <1>4, <1>5 DEF PermissionNext

\* The gate, kept by every action.
LEMMA GateInductive ==
  PermissionTypeOK /\ GateInv /\ [PermissionNext]_permissionVars => GateInv'
<1> SUFFICES ASSUME PermissionTypeOK, GateInv, [PermissionNext]_permissionVars,
                    NEW x \in Callers, call'[x].at = "running"
             PROVE  LET entry == audit'[call'[x].id]
                    IN  /\ call'[x].id \in Ids' \ pending'
                        /\ call'[x].risk < Threshold
                        /\ entry.tool \notin Denylist
                        /\ Allowlist # {} => entry.tool \in Allowlist
                        /\ entry.status \in {"allowed", "error"}
  BY DEF GateInv
<1>1. ASSUME NEW t \in Tools, NEW prohibited \in BOOLEAN,
             NEW risk \in {RiskOf[t]} \cup Risks,
             \/ AskPermission(t, risk, prohibited)
             \/ \E c \in Callers : Execute(c, t, risk, prohibited)
      PROVE  LET entry == audit'[call'[x].id]
             IN  /\ call'[x].id \in Ids' \ pending'
                 /\ call'[x].risk < Threshold
                 /\ entry.tool \notin Denylist
                 /\ Allowlist # {} => entry.tool \in Allowlist
                 /\ entry.status \in {"allowed", "error"}
  <2> DEFINE decision == Decision(t, risk, prohibited)
  <2>1. risk \in 0..3
    BY PermissionAssumption
  <2>2. /\ decision \in {"denied", "allowed", "approval_required"}
        /\ decision = "allowed" => /\ risk < Threshold
                                   /\ t \notin Denylist
                                   /\ Allowlist # {} => t \in Allowlist
    BY <2>1, Decisions
  <2>3. Check(t, decision)
    BY <1>1 DEF AskPermission, Execute
  <2> HIDE DEF decision
  <2>4. /\ Len(audit') = Len(audit) + 1
        /\ audit' \in Seq([tool : Tools, status : Statuses])
        /\ \A i \in Ids : audit'[i] = audit[i]
        /\ audit'[Len(audit')].tool = t
        /\ audit'[Len(audit')].status =
              IF decision = "approval_required" THEN "pending" ELSE decision
        /\ pending' = IF decision = "approval_required"
                      THEN pending \cup {Len(audit')} ELSE pending
    BY <2>2, <2>3, CheckLogs DEF Statuses, Ids
  <2>5. CASE call'[x] = call[x]
    <3>1. call[x].id \in Ids \ pending
      BY <2>5 DEF GateInv
    <3>2. call[x].id \in Ids' \ pending' /\ audit'[call[x].id] = audit[call[x].id]
      BY <2>4, <3>1 DEF Ids, PermissionTypeOK
    <3> QED BY <2>5, <3>2 DEF GateInv
  <2>6. CASE call'[x] # call[x]
    <3>1. Execute(x, t, risk, prohibited)
      BY <1>1, <2>6 DEF AskPermission, Execute, PermissionTypeOK
    <3>2. /\ Runs(audit', pending', t, decision)
          /\ call'[x].id = Len(audit') /\ call'[x].risk = risk
      BY <3>1 DEF Execute, PermissionTypeOK, CallStates, decision
    <3>3. decision = "allowed"
      <4>1. Len(audit') > 0
        BY <2>4 DEF PermissionTypeOK
      <4> QED BY <2>4, <3>2, <4>1, OnlyAllowedRuns
    <3>4. Len(audit') \in Ids' /\ Len(audit') \notin pending
      BY <2>4 DEF Ids, PermissionTypeOK
    <3> QED BY <2>2, <2>4, <3>2, <3>3, <3>4
  <2> QED BY <2>5, <2>6
<1>2. ASSUME NEW c \in Callers, ToolReturns(c)
      PROVE  call'[x] = call[x] /\ UNCHANGED <<audit, pending>>
  BY <1>2 DEF ToolReturns, PermissionTypeOK, CallStates
<1>3. ASSUME NEW c \in Callers, ToolRaises(c)
      PROVE  /\ call'[x] = call[x] /\ UNCHANGED pending
             /\ MarkError(audit[call[c].id].tool)
             /\ audit[call[c].id].tool \in Tools
  <2>1. call[c].id \in Ids
    BY <1>3 DEF ToolRaises, GateInv
  <2>2. audit[call[c].id].tool \in Tools
    BY <2>1, Entries
  <2> QED BY <1>3, <2>2 DEF ToolRaises, PermissionTypeOK, CallStates
<1>4. ASSUME NEW id \in Ids, RecordApproval(id) \/ RecordDenial(id)
      PROVE  /\ call' = call /\ pending' = pending /\ id \in pending
             /\ Len(audit') = Len(audit)
             /\ \A i \in Ids \ {id} : audit'[i] = audit[i]
  BY <1>4, NewStatus DEF RecordApproval, RecordDenial, Statuses
<1>5. CASE \E c \in Callers : ToolReturns(c)
  BY <1>2, <1>5 DEF GateInv, Ids
<1>6. CASE \E c \in Callers : ToolRaises(c)
  <2>1. PICK c \in Callers : ToolRaises(c)
    BY <1>6
  <2>2. /\ Len(audit') = Len(audit)
        /\ \A i \in Ids : /\ audit'[i].tool = audit[i].tool
                          /\ audit'[i].status # audit[i].status =>
                               audit[i].status = "allowed" /\ audit'[i].status = "error"
    BY <1>3, <2>1, ErrorMark
  <2>3. call'[x] = call[x] /\ pending' = pending /\ call[x].id \in Ids
    BY <1>3, <2>1 DEF GateInv
  <2> QED BY <2>2, <2>3 DEF GateInv, Ids
<1>7. CASE \E id \in Ids : RecordApproval(id) \/ RecordDenial(id)
  <2>1. PICK id \in Ids : RecordApproval(id) \/ RecordDenial(id)
    BY <1>7
  <2>2. call[x].id \in Ids \ pending
    BY <1>4, <2>1 DEF GateInv
  <2>3. audit'[call[x].id] = audit[call[x].id]
    BY <1>4, <2>1, <2>2
  <2> QED BY <1>4, <2>1, <2>2, <2>3 DEF GateInv, Ids
<1>8. CASE UNCHANGED permissionVars
  BY <1>8 DEF permissionVars, GateInv, Ids
<1> QED BY <1>1, <1>5, <1>6, <1>7, <1>8 DEF PermissionNext

LEMMA GateStarts == PermissionInit => PermissionTypeOK /\ GateInv
BY PermissionAssumption DEF PermissionInit, PermissionTypeOK, GateInv, CallStates, Ids

\* The types and the gate in every reachable state.
LEMMA GateInvariant == PermissionSpec => [](PermissionTypeOK /\ GateInv)
<1> QED BY GateStarts, TypeInductive, GateInductive, PTL DEF PermissionSpec

\* All variables of the layer keep their types.
THEOREM TypeCorrect == PermissionSpec => []PermissionTypeOK
BY GateInvariant, PTL

\* A tool only runs for calls the policy let through.
THEOREM GateHolds == PermissionSpec => []OnlyPermittedRuns
<1>1. PermissionTypeOK /\ GateInv => OnlyPermittedRuns
  <2> SUFFICES ASSUME PermissionTypeOK, GateInv, NEW c \in Callers,
                      call[c].at = "running"
               PROVE  ~ (call[c].risk >= Threshold)
    BY DEF GateInv, OnlyPermittedRuns
  <2>1. call[c].risk \in 0..3 /\ Threshold \in 0..3
    BY PermissionAssumption DEF PermissionTypeOK, CallStates
  <2>2. call[c].risk < Threshold
    BY DEF GateInv
  <2> QED BY <2>1, <2>2
<1> QED BY <1>1, GateInvariant, PTL

\* What the policy itself denied stays denied in the audit trail.
THEOREM DenialsStay == PermissionSpec => PolicyDenialStays
<1> DEFINE Stays == \A id \in Ids :
              audit[id].status = "denied" /\ id \notin pending =>
                 audit'[id].status = "denied"
<1>1. PermissionTypeOK /\ GateInv /\ [PermissionNext]_permissionVars => [Stays]_permissionVars
  <2> SUFFICES ASSUME PermissionTypeOK, GateInv, PermissionNext,
                      NEW id \in Ids, audit[id].status = "denied", id \notin pending
               PROVE  audit'[id].status = "denied"
    OBVIOUS
  <2>1. ASSUME NEW t \in Tools, NEW decision, Check(t, decision)
        PROVE  audit'[id] = audit[id]
    BY <2>1 DEF Check, PermissionTypeOK, Ids
  <2>2. ASSUME NEW c \in Callers, ToolRaises(c)
        PROVE  audit'[id].status = "denied"
    <3>1. call[c].id \in Ids
      BY <2>2 DEF ToolRaises, GateInv
    <3>2. audit[call[c].id].tool \in Tools
      BY <3>1, Entries
    <3> QED BY <2>2, <3>2, ErrorMark DEF ToolRaises
  <2>3. ASSUME NEW i \in Ids, RecordApproval(i) \/ RecordDenial(i)
        PROVE  audit'[id] = audit[id]
    BY <2>3, NewStatus DEF RecordApproval, RecordDenial, Statuses
  <2> QED
    BY <2>1, <2>2, <2>3
       DEF PermissionNext, AskPermission, Execute, ToolReturns
<1> QED BY <1>1, GateInvariant, PTL DEF PermissionSpec, PolicyDenialStays

-----------------------------------------------------------------------------
(* The rollback engine.                                                    *)

DoneSteps(p) == {i \in 1..Len(p.steps) : IsDone(p, i)}

(* A procedure, NoProcedure included: what it says it completed it did. *)
WellFormed(p) ==
    /\ p \in [steps : Seq(Steps), status : Seq(StepStatus),
              overall : ProcedureStatus \cup {"none"}, completed : Nat]
    /\ Len(p.steps) = Len(p.status) /\ Len(p.steps) <= MaxSteps
    /\ p.completed = Cardinality(DoneSteps(p))

Touches(step, f) ==
    \/ step.type \in {"restore", "recreate"} /\ step.file = f
    \/ step.type = "cleanup" /\ f \in Dir

(* RecordedOnceIsRestored of any procedure. *)
Restored(p) == \A f \in Files \ touched : \A i \in 1..Len(p.steps) :
    /\ \A k \in 1..Len(p.steps) : Touches(p.steps[k], f) <=> k = i
    /\ p.steps[i].type # "cleanup"
    /\ p.steps[i].snap = base[f]
    /\ IsDone(p, i)
    => fs[f] = base[f]

Procedures ==
    /\ WellFormed(proc) /\ WellFormed(disk)
    /\ fs \in [Files -> Contents]
    /\ done \in [1..MaxSteps -> Nat] /\ crashes \in Nat /\ runs \in Nat /\ at \in Nat
    /\ at > 0 => HasProcedure /\ runs > 0
    /\ disk # NoProcedure => runs > 0
    /\ disk # NoProcedure /\ HasProcedure =>
          disk.steps = proc.steps /\ DoneSteps(disk) \subseteq DoneSteps(proc)
    /\ runs = 0 => DoneSteps(proc) = {}

(* A step ran at most once in each life of the process, and not yet in this
   one if the procedure in memory does not say so. *)
RanOnce == \A i \in 1..MaxSteps :
    /\ done[i] <= 1 + crashes
    /\ (HasProcedure => i \notin DoneSteps(proc)) => done[i] <= crashes

RollbackInv == Procedures /\ RanOnce /\ Restored(proc) /\ Restored(disk)

-----------------------------------------------------------------------------
LEMMA BoundsAreNatural == MaxSteps \in Nat /\ MaxRuns \in Nat /\ MaxCrashes \in Nat
BY RollbackAssumption

(* A procedure without steps. *)
LEMMA EmptyProcedure ==
    ASSUME NEW o \in ProcedureStatus \cup {"none"}, NEW p,
           p = [steps |-> <<>>, status |-> <<>>, overall |-> o, completed |-> 0]
    PROVE  WellFormed(p) /\ DoneSteps(p) = {} /\ Len(p.steps) = 0
<1>1. p.steps = <<>> /\ p.status = <<>> /\ p.completed = 0 /\ p.overall = o
  OBVIOUS
<1>2. Len(p.steps) = 0 /\ Len(p.status) = 0
  BY <1>1
<1>3. DoneSteps(p) = {}
  BY <1>2 DEF DoneSteps
<1>4. p.completed = Cardinality(DoneSteps(p))
  BY <1>1, <1>3, FS_EmptySet
<1>5. p \in [steps : Seq(Steps), status : Seq(StepStatus),
            overall : ProcedureStatus \cup {"none"}, completed : Nat]
  OBVIOUS
<1> QED
  BY <1>2, <1>3, <1>4, <1>5, BoundsAreNatural DEF WellFormed

LEMMA NoProcedureWellFormed == WellFormed(NoProcedure) /\ DoneSteps(NoProcedure) = {}
BY EmptyProcedure DEF NoProcedure

LEMMA RollbackStarts == RollbackInit => RollbackInv
<1> SUFFICES ASSUME RollbackInit PROVE RollbackInv
  OBVIOUS
<1>1. Procedures
  BY NoProcedureWellFormed DEF RollbackInit, Procedures, HasProcedure
<1>2. RanOnce
  BY DEF RollbackInit, RanOnce
<1>3. Restored(proc) /\ Restored(disk)
  BY DEF RollbackInit, Restored, NoProcedure
<1> QED
  BY <1>1, <1>2, <1>3 DEF RollbackInv

(* What a step does to a file. *)
LEMMA EffectOn ==
    ASSUME NEW step \in Steps, NEW f \in Files, fs \in [Files -> Contents]
    PROVE  /\ ~Touches(step, f) => Effect(step)[f] = fs[f]
           /\ Touches(step, f) /\ step.type # "cleanup" => Effect(step)[f] = step.snap
<1>1. CASE step.type \in {"restore", "recreate"}
  <2>1. Effect(step) = [fs EXCEPT ![step.file] = step.snap]
    BY <1>1 DEF Effect
  <2> QED
    BY <1>1, <2>1 DEF Touches, Steps, Contents
<1>2. CASE step.type = "cleanup"
  <2>1. Effect(step) = [g \in Files |-> IF g \in Dir THEN Absent ELSE fs[g]]
    BY <1>2 DEF Effect
  <2> QED
    BY <1>2, <2>1, RollbackAssumption DEF Touches, Contents
<1>3. CASE step.type \notin {"restore", "recreate", "cleanup"}
  <2>1. Effect(step) = fs
    BY <1>3 DEF Effect
  <2> QED
    BY <1>3, <2>1 DEF Touches
<1> QED
  BY <1>1, <1>2, <1>3

(* The steps of a procedure are finitely many. *)
LEMMA DoneStepsFinite ==
    ASSUME NEW p, WellFormed(p)
    PROVE  IsFiniteSet(DoneSteps(p))
<1>0. Len(p.steps) \in Int /\ 1 \in Int
  BY DEF WellFormed
<1>1. IsFiniteSet(1..Len(p.steps))
  BY <1>0, FS_Interval
<1> QED
  BY <1>1, FS_Subset DEF DoneSteps

LEMMA BeginKeeps == RollbackInv /\ BeginProcedure => RollbackInv'
<1> SUFFICES ASSUME RollbackInv, BeginProcedure PROVE RollbackInv'
  OBVIOUS
<1>1. /\ ~HasProcedure /\ disk = NoProcedure
      /\ proc' = [steps |-> <<>>, status |-> <<>>, overall |-> "pending", completed |-> 0]
      /\ base' = fs
      /\ UNCHANGED <<fs, disk, at, stopping, touched, done, counters>>
  BY DEF BeginProcedure
<1>2. DoneSteps(proc') = {} /\ WellFormed(proc')
  BY <1>1, EmptyProcedure DEF ProcedureStatus
<1>3. Procedures'
  BY <1>1, <1>2, NoProcedureWellFormed DEF RollbackInv, Procedures, counters, HasProcedure
<1>4. RanOnce'
  BY <1>1, <1>2 DEF RollbackInv, RanOnce, counters, HasProcedure
<1>5. Restored(proc)' /\ Restored(disk)'
  BY <1>1 DEF Restored, NoProcedure
<1> QED
  BY <1>3, <1>4, <1>5 DEF RollbackInv

(* Recording appends a pending step, and only before the first rollback. *)
LEMMA AddStepKeeps ==
    ASSUME RollbackInv, NEW step \in Steps, AddStep(step)
    PROVE  RollbackInv'
<1>1. /\ HasProcedure /\ runs = 0 /\ Len(proc.steps) < MaxSteps
      /\ proc' = [proc EXCEPT !.steps = Append(@, step), !.status = Append(@, "pending")]
      /\ UNCHANGED <<fs, disk, at, stopping, base, touched, done, writes, runs, crashes>>
  BY DEF AddStep, history, counters
<1>2. WellFormed(proc) /\ DoneSteps(proc) = {} /\ disk = NoProcedure /\ WellFormed(disk)
  BY <1>1 DEF RollbackInv, Procedures
<1>3. /\ proc'.steps = Append(proc.steps, step) /\ proc'.status = Append(proc.status, "pending")
      /\ proc'.overall = proc.overall /\ proc'.completed = proc.completed
      /\ proc' = [steps |-> proc'.steps, status |-> proc'.status,
                  overall |-> proc'.overall, completed |-> proc'.completed]
  BY <1>1, <1>2 DEF WellFormed
<1>4. /\ proc'.steps \in Seq(Steps) /\ proc'.status \in Seq(StepStatus)
      /\ Len(proc'.steps) = Len(proc'.status) /\ Len(proc'.steps) <= MaxSteps
      /\ Len(proc'.steps) = Len(proc.steps) + 1
  BY <1>1, <1>2, <1>3, BoundsAreNatural DEF WellFormed, StepStatus
<1>5. DoneSteps(proc') = {}
  <2> SUFFICES ASSUME NEW i \in 1..Len(proc'.steps), IsDone(proc', i) PROVE FALSE
    BY DEF DoneSteps
  <2>1. CASE i = Len(proc.steps) + 1
    BY <1>2, <1>3, <1>4, <2>1 DEF IsDone, WellFormed
  <2>2. CASE i # Len(proc.steps) + 1
    <3>1. i \in 1..Len(proc.steps)
      BY <1>2, <1>4, <2>2 DEF WellFormed
    <3>2. proc'.status[i] = proc.status[i]
      BY <1>2, <1>3, <3>1 DEF WellFormed
    <3> QED
      BY <1>2, <3>1, <3>2 DEF DoneSteps, IsDone
  <2> QED
    BY <2>1, <2>2
<1>6. WellFormed(proc')
  BY <1>2, <1>3, <1>4, <1>5 DEF WellFormed
<1>7. proc' # NoProcedure
  BY <1>2, <1>4 DEF NoProcedure, WellFormed
<1>8. Procedures'
  BY <1>1, <1>2, <1>5, <1>6, <1>7 DEF RollbackInv, Procedures, HasProcedure
<1>9. RanOnce'
  BY <1>1, <1>2, <1>5 DEF RollbackInv, RanOnce
<1>10. Restored(proc)' /\ Restored(disk)'
  BY <1>1, <1>2, <1>5 DEF Restored, DoneSteps, NoProcedure
<1> QED
  BY <1>8, <1>9, <1>10 DEF RollbackInv

RecordedSteps ==
    \/ \E f \in Files : RecordModification(f) \/ RecordDeletion(f)
    \/ RecordOther

(* Recording is adding a step of one of the four kinds. *)
LEMMA RecordingAdds ==
    ASSUME RollbackInv, RecordedSteps
    PROVE  \E step \in Steps : AddStep(step)
<1>1. ASSUME NEW f \in Files, RecordModification(f) \/ RecordDeletion(f)
      PROVE  \E step \in Steps : AddStep(step)
  <2>1. fs[f] \in Contents
    BY <1>1 DEF RollbackInv, Procedures
  <2>2. Snapshot(f) \in Contents
    BY <2>1 DEF Snapshot, Contents
  <2>3. /\ [type |-> "restore", file |-> f, snap |-> Snapshot(f)] \in Steps
        /\ [type |-> "recreate", file |-> f, snap |-> fs[f]] \in Steps
    BY <2>1, <2>2 DEF Steps
  <2> QED
    BY <1>1, <2>3 DEF RecordModification, RecordDeletion
<1>2. CASE RecordOther
  <2>1. ASSUME NEW r \in BOOLEAN PROVE [type |-> "command", reversible |-> r] \in Steps
    BY DEF Steps
  <2>2. ASSUME NEW t \in {"cleanup", "deployment"} PROVE [type |-> t] \in Steps
    BY DEF Steps
  <2> QED
    BY <1>2, <2>1, <2>2 DEF RecordOther
<1> QED
  BY <1>1, <1>2 DEF RecordedSteps

LEMMA RecordingKeeps == RollbackInv /\ RecordedSteps => RollbackInv'
BY RecordingAdds, AddStepKeeps

LEMMA WriteKeeps ==
    ASSUME RollbackInv, NEW f \in Files, Write(f)
    PROVE  RollbackInv'
<1>1. /\ \E v \in Contents : fs' = [fs EXCEPT ![f] = v]
      /\ touched' = IF runs > 0 THEN touched \cup {f} ELSE touched
      /\ UNCHANGED <<proc, disk, at, stopping, base, done, runs, crashes>>
  BY DEF Write
<1>2. fs' \in [Files -> Contents] /\ \A g \in Files \ {f} : fs'[g] = fs[g]
  BY <1>1 DEF RollbackInv, Procedures
<1>3. Procedures'
  BY <1>1, <1>2 DEF RollbackInv, Procedures, WellFormed, DoneSteps, IsDone, HasProcedure
<1>4. RanOnce'
  BY <1>1 DEF RollbackInv, RanOnce, HasProcedure, DoneSteps, IsDone
<1>5. CASE runs = 0
  <2>1. DoneSteps(proc) = {} /\ disk = NoProcedure
    BY <1>5 DEF RollbackInv, Procedures
  <2>2. Restored(proc)'
    BY <1>1, <2>1 DEF Restored, DoneSteps, IsDone
  <2>3. Restored(disk)'
    BY <1>1, <2>1 DEF Restored, NoProcedure
  <2> QED
    BY <1>3, <1>4, <2>2, <2>3 DEF RollbackInv
<1>6. CASE runs # 0
  <2>1. touched' = touched \cup {f}
    BY <1>1, <1>6 DEF RollbackInv, Procedures
  <2>2. Restored(proc)' /\ Restored(disk)'
    BY <1>1, <1>2, <2>1 DEF RollbackInv, Restored, IsDone
  <2> QED
    BY <1>3, <1>4, <2>2 DEF RollbackInv
<1> QED
  BY <1>5, <1>6

-----------------------------------------------------------------------------
(* Execution. *)

(* Only the position of the rollback moves. *)
LEMMA MovingKeeps ==
    ASSUME RollbackInv, HasProcedure, UNCHANGED <<fs, proc, disk, base, touched, done, crashes>>,
           at' \in Nat, runs' \in Nat \ {0}
    PROVE  RollbackInv'
<1>1. /\ DoneSteps(proc') = DoneSteps(proc) /\ DoneSteps(disk') = DoneSteps(disk)
      /\ WellFormed(proc)' /\ WellFormed(disk)' /\ HasProcedure'
  BY DEF RollbackInv, Procedures, DoneSteps, IsDone, WellFormed, HasProcedure
<1>2. Procedures'
  BY <1>1 DEF RollbackInv, Procedures
<1>3. RanOnce'
  BY <1>1 DEF RollbackInv, RanOnce
<1>4. Restored(proc)' /\ Restored(disk)'
  BY DEF RollbackInv, Restored, IsDone
<1> QED
  BY <1>2, <1>3, <1>4 DEF RollbackInv

LEMMA StartKeeps ==
    ASSUME RollbackInv, NEW stop \in BOOLEAN, StartRollback(stop)
    PROVE  RollbackInv'
<1>1. /\ HasProcedure /\ at' = 1 /\ runs' = runs + 1
      /\ UNCHANGED <<fs, proc, disk, base, touched, done, crashes>>
  BY DEF StartRollback, history
<1>2. runs' \in Nat \ {0} /\ at' \in Nat
  BY <1>1 DEF RollbackInv, Procedures
<1> QED
  BY <1>1, <1>2, MovingKeeps

LEMMA SkipKeeps == RollbackInv /\ SkipDone => RollbackInv'
<1> SUFFICES ASSUME RollbackInv, SkipDone PROVE RollbackInv'
  OBVIOUS
<1>1. /\ at \in 1..Len(proc.steps) /\ at' = at + 1
      /\ UNCHANGED <<fs, proc, disk, base, touched, done, runs, crashes>>
  BY DEF SkipDone, history, counters
<1>2. HasProcedure /\ runs' \in Nat \ {0} /\ at' \in Nat
  BY <1>1 DEF RollbackInv, Procedures
<1> QED
  BY <1>1, <1>2, MovingKeeps

LEMMA EffectType ==
    ASSUME NEW step \in Steps, fs \in [Files -> Contents]
    PROVE  Effect(step) \in [Files -> Contents]
BY RollbackAssumption DEF Effect, Steps, Contents

(* A step that fails leaves the files it does not touch alone. *)
LEMMA SpoiledOn ==
    ASSUME NEW step \in Steps, fs \in [Files -> Contents], NEW s \in Spoiled(step)
    PROVE  /\ s \in [Files -> Contents]
           /\ \A f \in Files : ~Touches(step, f) => s[f] = fs[f]
<1>1. CASE step.type \in {"restore", "recreate"} /\ step.snap # Absent
  <2>1. s = fs \/ \E v \in Versions : s = [fs EXCEPT ![step.file] = v]
    BY <1>1 DEF Spoiled
  <2>2. ASSUME NEW v \in Versions, s = [fs EXCEPT ![step.file] = v]
        PROVE  /\ s \in [Files -> Contents]
               /\ \A f \in Files : f # step.file => s[f] = fs[f]
    BY <2>2 DEF Contents
  <2> QED
    BY <1>1, <2>1, <2>2 DEF Touches
<1>2. CASE step.type = "cleanup"
  <2>1. PICK gone \in SUBSET Dir : s = [f \in Files |-> IF f \in gone THEN Absent ELSE fs[f]]
    BY <1>2 DEF Spoiled
  <2> QED
    BY <1>2, <2>1 DEF Touches, Contents
<1>3. CASE /\ step.type # "cleanup"
           /\ ~(step.type \in {"restore", "recreate"} /\ step.snap # Absent)
  BY <1>3 DEF Spoiled
<1> QED
  BY <1>1, <1>2, <1>3

(* Whatever procedure p with these steps was kept: after one more step, the
   same steps and perhaps this one are restored. *)
LEMMA EffectRestores ==
    ASSUME RollbackInv, NEW p, p.steps = proc.steps, Restored(p),
           NEW i \in 1..Len(proc.steps), fs' = Effect(proc.steps[i]),
           NEW f \in Files \ touched, NEW k \in 1..Len(proc.steps),
           \A m \in 1..Len(proc.steps) : Touches(proc.steps[m], f) <=> m = k,
           proc.steps[k].type # "cleanup",
           proc.steps[k].snap = base[f],
           IsDone(p, k) \/ k = i
    PROVE  fs'[f] = base[f]
<1>1. proc.steps[i] \in Steps /\ fs \in [Files -> Contents]
  BY DEF RollbackInv, Procedures, WellFormed
<1>2. CASE k = i
  BY <1>1, <1>2, EffectOn
<1>3. CASE k # i
  <2>1. ~Touches(proc.steps[i], f)
    BY <1>3
  <2>2. fs'[f] = fs[f]
    BY <1>1, <2>1, EffectOn
  <2>3. fs[f] = base[f]
    BY <1>3 DEF Restored
  <2> QED
    BY <2>2, <2>3
<1> QED
  BY <1>2, <1>3

(* The step done at last joins the steps that are done. *)
LEMMA ExecuteKeeps == RollbackInv /\ ExecuteStep => RollbackInv'
<1> SUFFICES ASSUME RollbackInv, ExecuteStep PROVE RollbackInv'
  OBVIOUS
<1> DEFINE step == proc.steps[at]
<1>1. PICK ok \in BOOLEAN :
        /\ fs' \in IF ok THEN {Effect(step)} ELSE Spoiled(step)
        /\ proc' = [proc EXCEPT !.status[at] = IF ok THEN Outcome(step) ELSE "failed",
                                !.completed = @ + Counted(ok)]
        /\ done' = [done EXCEPT ![at] = @ + (IF ok THEN 1 ELSE 0)]
        /\ at' = Advance(ok)
  BY DEF ExecuteStep
<1>2. /\ at \in 1..Len(proc.steps) /\ ~IsDone(proc, at) /\ at \in Nat
      /\ UNCHANGED <<disk, base, touched, runs, crashes>>
  BY DEF ExecuteStep, counters
<1>3. /\ WellFormed(proc) /\ WellFormed(disk) /\ HasProcedure /\ runs > 0 /\ runs \in Nat
      /\ fs \in [Files -> Contents] /\ crashes \in Nat /\ step \in Steps
      /\ done \in [1..MaxSteps -> Nat] /\ at \in 1..MaxSteps
  BY <1>2, BoundsAreNatural DEF RollbackInv, Procedures, WellFormed
<1> DEFINE new == IF ok THEN Outcome(step) ELSE "failed"
<1>4. new \in StepStatus /\ (new \in {"completed", "skipped"} <=> ok)
  BY DEF Outcome, StepStatus
<1>5. /\ proc'.steps = proc.steps /\ proc'.overall = proc.overall
      /\ proc'.status = [proc.status EXCEPT ![at] = new]
      /\ proc'.completed = proc.completed + Counted(ok)
  BY <1>1, <1>3 DEF WellFormed
<1>6. /\ proc' \in [steps : Seq(Steps), status : Seq(StepStatus),
                   overall : ProcedureStatus \cup {"none"}, completed : Nat]
      /\ Len(proc'.status) = Len(proc.status)
      /\ \A i \in 1..Len(proc.steps) :
            proc'.status[i] = IF i = at THEN new ELSE proc.status[i]
  <2>1. at \in 1..Len(proc.status) /\ proc.status \in Seq(StepStatus)
    BY <1>2, <1>3 DEF WellFormed
  <2>2. /\ proc'.status \in Seq(StepStatus) /\ Len(proc'.status) = Len(proc.status)
        /\ \A i \in 1..Len(proc.status) :
              proc'.status[i] = IF i = at THEN new ELSE proc.status[i]
    BY <1>4, <1>5, <2>1
  <2>3. proc.completed + Counted(ok) \in Nat
    BY <1>3 DEF WellFormed, Counted
  <2>4. proc' = [steps |-> proc'.steps, status |-> proc'.status,
                 overall |-> proc'.overall, completed |-> proc'.completed]
    BY <1>1, <1>3 DEF WellFormed
  <2>5. proc'.steps \in Seq(Steps) /\ proc'.overall \in ProcedureStatus \cup {"none"}
    BY <1>3, <1>5 DEF WellFormed
  <2> QED
    BY <1>3, <1>5, <2>2, <2>3, <2>4, <2>5 DEF WellFormed
<1>7. \A i \in 1..Len(proc.steps) : IsDone(proc', i) <=> IsDone(proc, i) \/ (i = at /\ ok)
  BY <1>2, <1>4, <1>6 DEF IsDone
<1>8. DoneSteps(proc') = DoneSteps(proc) \cup (IF ok THEN {at} ELSE {})
  BY <1>2, <1>5, <1>7 DEF DoneSteps
<1>9. proc'.completed = Cardinality(DoneSteps(proc'))
  <2>1. IsFiniteSet(DoneSteps(proc)) /\ at \notin DoneSteps(proc)
    BY <1>2, <1>3, DoneStepsFinite DEF DoneSteps
  <2>2. proc.completed = Cardinality(DoneSteps(proc))
    BY <1>3 DEF WellFormed
  <2>3. CASE ok
    BY <1>5, <1>8, <2>1, <2>2, <2>3, FS_AddElement DEF Counted
  <2>4. CASE ~ok
    <3>1. proc.completed \in Nat /\ DoneSteps(proc') = DoneSteps(proc)
      BY <1>3, <1>8, <2>4 DEF WellFormed
    <3> QED
      BY <1>5, <2>2, <2>4, <3>1 DEF Counted
  <2> QED
    BY <2>3, <2>4
<1>10. WellFormed(proc') /\ HasProcedure'
  <2>1. WellFormed(proc')
    BY <1>3, <1>5, <1>6, <1>9 DEF WellFormed
  <2>2. Len(proc'.steps) # 0
    BY <1>2, <1>5
  <2> QED
    BY <2>1, <2>2 DEF HasProcedure, NoProcedure
<1>11. Procedures'
  <2>1. fs' \in [Files -> Contents]
    BY <1>1, <1>3, EffectType, SpoiledOn
  <2>2. done' \in [1..MaxSteps -> Nat]
    BY <1>1, <1>3
  <2>3. at' \in Nat
    BY <1>1, <1>2, <1>3 DEF Advance, WellFormed
  <2>4. disk # NoProcedure => disk.steps = proc.steps /\ DoneSteps(disk) \subseteq DoneSteps(proc)
    BY <1>3 DEF RollbackInv, Procedures
  <2>5. disk' = disk /\ DoneSteps(disk') = DoneSteps(disk) /\ DoneSteps(proc) \subseteq DoneSteps(proc')
    BY <1>2, <1>8
  <2> QED
    BY <1>2, <1>3, <1>5, <1>10, <2>1, <2>2, <2>3, <2>4, <2>5 DEF Procedures
<1>12. RanOnce'
  <2> SUFFICES ASSUME NEW i \in 1..MaxSteps
               PROVE  /\ done'[i] <= 1 + crashes
                      /\ i \notin DoneSteps(proc') => done'[i] <= crashes
    BY <1>2, <1>10 DEF RanOnce
  <2>1. done[i] \in Nat /\ done[i] <= 1 + crashes /\ (i \notin DoneSteps(proc) => done[i] <= crashes)
    BY <1>3 DEF RollbackInv, RanOnce
  <2>2. CASE i = at /\ ok
    <3>1. done'[i] = done[i] + 1 /\ i \notin DoneSteps(proc) /\ i \in DoneSteps(proc')
      BY <1>1, <1>2, <1>3, <1>8, <2>2 DEF DoneSteps
    <3> QED
      BY <1>3, <2>1, <3>1
  <2>3. CASE ~(i = at /\ ok)
    <3>1. done'[i] = done[i]
      BY <1>1, <1>3, <2>3
    <3> QED
      BY <1>8, <2>1, <3>1
  <2> QED
    BY <2>2, <2>3
<1>13. Restored(proc)' /\ Restored(disk)'
  <2>1. CASE ~ok
    <3>1. \A f \in Files : ~Touches(step, f) => fs'[f] = fs[f]
      BY <1>1, <1>3, <2>1, SpoiledOn
    <3>2. \A i \in 1..Len(proc.steps) : IsDone(proc', i) => IsDone(proc, i) /\ i # at
      BY <1>2, <1>7, <2>1
    <3>3. Restored(proc)'
      <4> SUFFICES ASSUME NEW f \in Files \ touched, NEW k \in 1..Len(proc.steps),
                          \A m \in 1..Len(proc.steps) : Touches(proc.steps[m], f) <=> m = k,
                          proc.steps[k].type # "cleanup",
                          proc.steps[k].snap = base[f],
                          IsDone(proc', k)
                   PROVE  fs'[f] = base[f]
        BY <1>2, <1>5 DEF Restored
      <4>1. IsDone(proc, k) /\ ~Touches(step, f)
        BY <1>2, <3>2
      <4>2. fs[f] = base[f]
        BY <4>1 DEF RollbackInv, Restored
      <4> QED
        BY <3>1, <4>1, <4>2
    <3>4. Restored(disk)'
      <4>1. CASE disk = NoProcedure
        BY <1>2, <4>1 DEF Restored, NoProcedure
      <4>2. CASE disk # NoProcedure
        <5>1. disk.steps = proc.steps /\ DoneSteps(disk) \subseteq DoneSteps(proc)
          BY <1>3, <4>2 DEF RollbackInv, Procedures
        <5> SUFFICES ASSUME NEW f \in Files \ touched, NEW k \in 1..Len(proc.steps),
                            \A m \in 1..Len(proc.steps) : Touches(proc.steps[m], f) <=> m = k,
                            proc.steps[k].type # "cleanup",
                            proc.steps[k].snap = base[f],
                            IsDone(disk, k)
                     PROVE  fs'[f] = base[f]
          BY <1>2, <5>1 DEF Restored, IsDone
        <5>2. k # at
          BY <1>2, <5>1 DEF DoneSteps
        <5>3. ~Touches(step, f)
          BY <1>2, <5>2
        <5>4. fs[f] = base[f]
          BY <5>1 DEF RollbackInv, Restored
        <5> QED
          BY <3>1, <5>3, <5>4
      <4> QED
        BY <4>1, <4>2
    <3> QED
      BY <3>3, <3>4
  <2>2. CASE ok
    <3>1. fs' = Effect(step) /\ Restored(proc) /\ Restored(disk)
      BY <1>1, <2>2 DEF RollbackInv
    <3>2. Restored(proc)'
      <4> SUFFICES ASSUME NEW f \in Files \ touched, NEW k \in 1..Len(proc.steps),
                          \A m \in 1..Len(proc.steps) : Touches(proc.steps[m], f) <=> m = k,
                          proc.steps[k].type # "cleanup",
                          proc.steps[k].snap = base[f],
                          IsDone(proc', k)
                   PROVE  fs'[f] = base[f]
        BY <1>2, <1>5 DEF Restored
      <4>1. IsDone(proc, k) \/ k = at
        BY <1>7
      <4> QED
        BY <1>2, <3>1, <4>1, EffectRestores
    <3>3. Restored(disk)'
      <4>1. CASE disk = NoProcedure
        BY <1>2, <4>1 DEF Restored, NoProcedure
      <4>2. CASE disk # NoProcedure
        <5>1. disk.steps = proc.steps
          BY <1>3, <4>2 DEF RollbackInv, Procedures
        <5> QED
          <6> SUFFICES ASSUME NEW f \in Files \ touched, NEW k \in 1..Len(proc.steps),
                              \A m \in 1..Len(proc.steps) : Touches(proc.steps[m], f) <=> m = k,
                              proc.steps[k].type # "cleanup",
                              proc.steps[k].snap = base[f],
                              IsDone(disk, k)
                       PROVE  fs'[f] = base[f]
            BY <1>2, <5>1 DEF Restored, IsDone
          <6> QED
            BY <1>2, <3>1, <5>1, EffectRestores
      <4> QED
        BY <4>1, <4>2
    <3> QED
      BY <3>2, <3>3
  <2> QED
    BY <2>1, <2>2
<1> QED
  BY <1>11, <1>12, <1>13 DEF RollbackInv

(* The end of a rollback changes the verdict and what is saved. *)
LEMMA EndKeeps == RollbackInv /\ EndRollback => RollbackInv'
<1> SUFFICES ASSUME RollbackInv, EndRollback PROVE RollbackInv'
  OBVIOUS
<1>1. /\ proc' = [proc EXCEPT !.overall = OverallStatus(proc.status)]
      /\ disk' \in {disk, proc'} /\ at' = 0 /\ at > Len(proc.steps)
      /\ UNCHANGED <<fs, base, touched, done, runs, crashes>>
  BY DEF EndRollback, history, counters
<1>2. WellFormed(proc) /\ WellFormed(disk) /\ at \in Nat /\ Len(proc.steps) \in Nat
  BY DEF RollbackInv, Procedures, WellFormed
<1>3. HasProcedure /\ runs > 0
  BY <1>1, <1>2 DEF RollbackInv, Procedures
<1>4. /\ proc'.steps = proc.steps /\ proc'.status = proc.status /\ proc'.completed = proc.completed
      /\ proc'.overall \in ProcedureStatus
      /\ proc' \in [steps : Seq(Steps), status : Seq(StepStatus),
                   overall : ProcedureStatus \cup {"none"}, completed : Nat]
  <2>1. OverallStatus(proc.status) \in ProcedureStatus
    BY DEF OverallStatus, ProcedureStatus
  <2> QED
    BY <1>1, <1>2, <2>1 DEF WellFormed
<1>5. DoneSteps(proc') = DoneSteps(proc) /\ WellFormed(proc') /\ HasProcedure'
  <2>1. DoneSteps(proc') = DoneSteps(proc)
    BY <1>4 DEF DoneSteps, IsDone
  <2>2. proc'.overall # "none"
    BY <1>4 DEF ProcedureStatus
  <2> QED
    BY <1>2, <1>4, <2>1, <2>2 DEF WellFormed, HasProcedure, NoProcedure
<1>6. Procedures'
  BY <1>1, <1>2, <1>3, <1>4, <1>5 DEF RollbackInv, Procedures
<1>7. RanOnce'
  BY <1>1, <1>3, <1>5 DEF RollbackInv, RanOnce
<1>8. Restored(proc)'
  BY <1>1, <1>4 DEF RollbackInv, Restored, IsDone
<1>9. Restored(disk)'
  <2>1. CASE disk' = disk
    BY <1>1, <2>1 DEF RollbackInv, Restored, IsDone
  <2>2. CASE disk' = proc'
    BY <1>8, <2>2 DEF Restored, IsDone
  <2> QED
    BY <1>1, <2>1, <2>2
<1> QED
  BY <1>6, <1>7, <1>8, <1>9 DEF RollbackInv

LEMMA CrashKeeps == RollbackInv /\ Crash => RollbackInv'
<1> SUFFICES ASSUME RollbackInv, Crash PROVE RollbackInv'
  OBVIOUS
<1>1. /\ proc' = NoProcedure /\ at' = 0 /\ crashes' = crashes + 1
      /\ UNCHANGED <<fs, disk, base, touched, done, runs>>
  BY DEF Crash, history
<1>2. ~HasProcedure' /\ DoneSteps(proc') = {} /\ WellFormed(proc')
  BY <1>1, NoProcedureWellFormed DEF HasProcedure
<1>3. Procedures'
  <2>1. WellFormed(disk)'
    BY <1>1 DEF RollbackInv, Procedures, WellFormed, DoneSteps, IsDone
  <2> QED
    BY <1>1, <1>2, <2>1 DEF RollbackInv, Procedures
<1>4. RanOnce'
  BY <1>1, <1>2 DEF RollbackInv, Procedures, RanOnce
<1>5. Restored(proc)' /\ Restored(disk)'
  BY <1>1 DEF RollbackInv, Restored, IsDone, NoProcedure
<1> QED
  BY <1>3, <1>4, <1>5 DEF RollbackInv

LEMMA LoadKeeps == RollbackInv /\ LoadProcedure => RollbackInv'
<1> SUFFICES ASSUME RollbackInv, LoadProcedure PROVE RollbackInv'
  OBVIOUS
<1>1. /\ ~HasProcedure /\ disk # NoProcedure /\ proc' = disk
      /\ UNCHANGED <<fs, disk, at, base, touched, done, runs, crashes>>
  BY DEF LoadProcedure, history, counters
<1>2. /\ DoneSteps(proc') = DoneSteps(disk) /\ DoneSteps(disk') = DoneSteps(disk)
      /\ WellFormed(proc)' /\ WellFormed(disk)' /\ runs > 0
  BY <1>1 DEF RollbackInv, Procedures, WellFormed, DoneSteps, IsDone
<1>3. Procedures'
  BY <1>1, <1>2 DEF RollbackInv, Procedures
<1>4. RanOnce'
  BY <1>1 DEF RollbackInv, RanOnce
<1>5. Restored(proc)' /\ Restored(disk)'
  BY <1>1 DEF RollbackInv, Restored, IsDone
<1> QED
  BY <1>3, <1>4, <1>5 DEF RollbackInv

LEMMA RollbackStutters == RollbackInv /\ UNCHANGED rollbackVars => RollbackInv'
<1> SUFFICES ASSUME RollbackInv, UNCHANGED rollbackVars PROVE RollbackInv'
  OBVIOUS
<1>1. UNCHANGED <<fs, proc, disk, at, base, touched, done, runs, crashes>>
  BY DEF rollbackVars, history, counters
<1>2. /\ DoneSteps(proc)' = DoneSteps(proc) /\ HasProcedure' = HasProcedure
      /\ WellFormed(proc)' /\ WellFormed(disk)'
  BY <1>1 DEF RollbackInv, Procedures, DoneSteps, IsDone, WellFormed, HasProcedure
<1>3. Procedures'
  BY <1>1, <1>2 DEF RollbackInv, Procedures
<1>4. RanOnce'
  BY <1>1, <1>2 DEF RollbackInv, RanOnce
<1>5. Restored(proc)' /\ Restored(disk)'
  BY <1>1 DEF RollbackInv, Restored, IsDone
<1> QED
  BY <1>3, <1>4, <1>5 DEF RollbackInv

LEMMA RollbackKeeps == RollbackInv /\ [RollbackNext]_rollbackVars => RollbackInv'
BY BeginKeeps, RecordingKeeps, WriteKeeps, StartKeeps, SkipKeeps, ExecuteKeeps, EndKeeps,
   CrashKeeps, LoadKeeps, RollbackStutters DEF RollbackNext, RecordedSteps

(* In every reachable state what a procedure says was done was done, and what
   was done is still restored. *)
THEOREM RollbackInvariant == RollbackSpec => []RollbackInv
BY RollbackKeeps, RollbackStarts, PTL DEF RollbackSpec

(* A step that is done is done for good: only a crash makes it run again. *)
THEOREM DoneStaysDone == RollbackSpec => []DoneForGood
<1>1. RollbackInv => DoneForGood
  <2> SUFFICES ASSUME RollbackInv PROVE DoneForGood
    OBVIOUS
  <2>1. RecordedOnceIsRestored
    <3> SUFFICES ASSUME NEW f \in Files \ touched, NEW i \in 1..Len(proc.steps),
                        Touching(f) = {i}, proc.steps[i].type # "cleanup",
                        proc.steps[i].snap = base[f], IsDone(proc, i)
                 PROVE  fs[f] = base[f]
      BY DEF RecordedOnceIsRestored
    <3>1. \A k \in 1..Len(proc.steps) : Touches(proc.steps[k], f) <=> k \in Touching(f)
      BY DEF Touches, Touching
    <3> QED
      BY <3>1 DEF RollbackInv, Restored
  <2>2. \A i \in 1..MaxSteps : done[i] <= 1 + crashes
    BY DEF RollbackInv, RanOnce
  <2> QED
    BY <2>1, <2>2 DEF DoneForGood
<1> QED
  BY <1>1, RollbackInvariant, PTL

(* When a rollback ends, its verdict and its count are those of its steps. *)
THEOREM ReportAlwaysRight == RollbackSpec => ReportIsRight
<1> DEFINE Right == at # 0 /\ at' = 0 /\ proc' # NoProcedure =>
               /\ proc'.overall = "completed" <=> AllDone(proc')
               /\ proc'.completed = Cardinality({i \in 1..Len(proc'.steps) : IsDone(proc', i)})
<1>1. ASSUME RollbackInv, RollbackInv', [RollbackNext]_rollbackVars PROVE [Right]_rollbackVars
  <2> SUFFICES ASSUME RollbackNext, at # 0, at' = 0, proc' # NoProcedure PROVE Right
    BY <1>1
  <2>1. EndRollback
    <3>1. HasProcedure /\ at \in Nat
      BY <1>1 DEF RollbackInv, Procedures
    <3>2. ~BeginProcedure /\ ~LoadProcedure
      BY <3>1 DEF BeginProcedure, LoadProcedure
    <3>3. ~\E stop \in BOOLEAN : StartRollback(stop)
      BY DEF StartRollback
    <3>4. ~RecordOther /\ ~\E f \in Files : RecordModification(f) \/ RecordDeletion(f) \/ Write(f)
      BY DEF RecordOther, RecordModification, RecordDeletion, Write, AddStep
    <3>5. ~SkipDone /\ ~Crash
      BY <3>1 DEF SkipDone, Crash
    <3>6. ~ExecuteStep
      <4>1. Len(proc.steps) \in Nat
        BY <1>1 DEF RollbackInv, Procedures, WellFormed
      <4>2. ExecuteStep => \E ok \in BOOLEAN : at' = Advance(ok)
        BY DEF ExecuteStep
      <4> QED
        BY <3>1, <4>1, <4>2 DEF Advance
    <3> QED
      BY <3>2, <3>3, <3>4, <3>5, <3>6 DEF RollbackNext
  <2>2. WellFormed(proc) /\ WellFormed(proc')
    BY <1>1 DEF RollbackInv, Procedures, WellFormed, DoneSteps, IsDone
  <2>3. /\ proc'.overall = OverallStatus(proc.status)
        /\ proc'.steps = proc.steps /\ proc'.status = proc.status
    BY <2>1, <2>2 DEF EndRollback, WellFormed
  <2>4. \A i \in 1..Len(proc.steps) : proc.status[i] \in StepStatus /\ i \in DOMAIN proc.status
    BY <2>2 DEF WellFormed
  <2>5. DOMAIN proc.status = 1..Len(proc.steps)
    BY <2>2 DEF WellFormed
  <2>6. proc'.overall = "completed" <=> AllDone(proc')
    BY <2>3, <2>4, <2>5 DEF OverallStatus, AllDone, IsDone, StepStatus
  <2>7. proc'.completed = Cardinality({i \in 1..Len(proc'.steps) : IsDone(proc', i)})
    BY <2>2 DEF WellFormed, DoneSteps
  <2> QED
    BY <2>6, <2>7
<1> QED
  BY <1>1, RollbackInvariant, PTL DEF RollbackSpec, ReportIsRight

-----------------------------------------------------------------------------
(* The types of both (MCSafety).                                           *)

(* Only NoProcedure has no status of its own. *)
Named(p) == p = NoProcedure \/ p.overall \in ProcedureStatus

Ranges ==
    /\ Named(proc) /\ Named(disk)
    /\ at \in 0..MaxSteps + 1
    /\ stopping \in BOOLEAN
    /\ base \in [Files -> Contents]
    /\ touched \subseteq Files
    /\ writes \in 0..MaxWrites
    /\ runs \in 0..MaxRuns
    /\ crashes \in 0..MaxCrashes

(* A procedure has at most as many completed steps as it has steps. *)
LEMMA ProcedureTyped ==
    ASSUME NEW p, WellFormed(p), Named(p)
    PROVE  IsProcedure(p)
<1>1. CASE p = NoProcedure
  BY <1>1 DEF IsProcedure
<1>2. CASE p.overall \in ProcedureStatus
  <2> DEFINE n == Len(p.steps)
  <2>1. n \in 0..MaxSteps /\ MaxSteps \in Nat
    <3>1. p.steps \in Seq(Steps) /\ n <= MaxSteps
      BY DEF WellFormed
    <3>2. n \in Nat
      BY <3>1
    <3> QED
      BY <3>1, <3>2, BoundsAreNatural
  <2>2. IsFiniteSet(1..n) /\ Cardinality(1..n) = n
    <3>1. n \in Int /\ 1 \in Int /\ n >= 0
      BY <2>1
    <3> HIDE DEF n
    <3>2. IsFiniteSet(1..n) /\ Cardinality(1..n) = IF 1 > n THEN 0 ELSE n - 1 + 1
      BY <3>1, FS_Interval
    <3> QED
      BY <3>1, <3>2
  <2>3. Cardinality(DoneSteps(p)) <= n /\ Cardinality(DoneSteps(p)) \in Nat
    <3>1. DoneSteps(p) \subseteq 1..n
      BY DEF DoneSteps
    <3>2. IsFiniteSet(DoneSteps(p))
      BY DoneStepsFinite
    <3> HIDE DEF n
    <3>3. Cardinality(DoneSteps(p)) <= Cardinality(1..n)
      BY <2>2, <3>1, FS_Subset
    <3> QED
      BY <2>2, <3>2, <3>3, FS_CardinalityType
  <2>4. p.completed \in 0..MaxSteps
    BY <2>1, <2>3 DEF WellFormed
  <2>5. p.status \in [1..Len(p.steps) -> StepStatus]
    BY DEF WellFormed
  <2> QED
    BY <1>2, <2>4, <2>5 DEF WellFormed, IsProcedure
<1> QED
  BY <1>1, <1>2 DEF Named

LEMMA RangesStart == RollbackInit => Ranges
<1> SUFFICES ASSUME RollbackInit PROVE Ranges
  OBVIOUS
<1>1. MaxWrites \in Nat /\ MaxRuns \in Nat /\ MaxCrashes \in Nat /\ MaxSteps \in Nat
  BY RollbackAssumption
<1>2. Named(proc) /\ Named(disk) /\ base \in [Files -> Contents] /\ touched = {}
  BY DEF RollbackInit, Named
<1>3. stopping = FALSE /\ at = 0 /\ writes = 0 /\ runs = 0 /\ crashes = 0
  BY DEF RollbackInit
<1>4. 0 \in 0..MaxWrites /\ 0 \in 0..MaxRuns /\ 0 \in 0..MaxCrashes
      /\ 0 \in 0..MaxSteps + 1
  BY <1>1
<1>5. touched \subseteq Files /\ stopping \in BOOLEAN
  BY <1>2, <1>3
<1> QED
  BY <1>2, <1>3, <1>4, <1>5 DEF Ranges

LEMMA RangesKept ==
    ASSUME RollbackInv, Ranges, [RollbackNext]_rollbackVars
    PROVE  Ranges'
<1>1. /\ MaxWrites \in Nat /\ MaxRuns \in Nat /\ MaxCrashes \in Nat /\ MaxSteps \in Nat
      /\ WellFormed(proc) /\ Len(proc.steps) \in 0..MaxSteps
      /\ fs \in [Files -> Contents]
  BY RollbackAssumption DEF RollbackInv, Procedures, WellFormed
<1>2. CASE BeginProcedure
  BY <1>1, <1>2 DEF BeginProcedure, counters, Ranges, Named, ProcedureStatus
<1>3. ASSUME NEW step \in Steps, AddStep(step) PROVE Ranges'
  <2>1. proc'.overall = proc.overall
    BY <1>1, <1>3 DEF AddStep, WellFormed
  <2> QED
    BY <1>3, <2>1 DEF AddStep, history, counters, HasProcedure, Ranges, Named
<1>4. CASE RecordedSteps
  BY <1>3, <1>4, RecordingAdds
<1>5. ASSUME NEW f \in Files, Write(f) PROVE Ranges'
  BY <1>1, <1>5 DEF Write, Ranges
<1>6. ASSUME NEW stop \in BOOLEAN, StartRollback(stop) PROVE Ranges'
  BY <1>1, <1>6 DEF StartRollback, history, Ranges
<1>7. CASE SkipDone
  BY <1>1, <1>7 DEF SkipDone, history, counters, Ranges
<1>8. CASE ExecuteStep
  <2>1. /\ at \in 1..Len(proc.steps)
        /\ \E ok \in BOOLEAN :
              /\ at' = Advance(ok)
              /\ proc' = [proc EXCEPT
                    !.status[at] = IF ok THEN Outcome(proc.steps[at]) ELSE "failed",
                    !.completed = @ + Counted(ok)]
        /\ UNCHANGED <<disk, stopping, base, touched, counters>>
    BY <1>8 DEF ExecuteStep
  <2>2. at' \in 0..MaxSteps + 1
    BY <1>1, <2>1 DEF Advance
  <2>3. proc'.overall = proc.overall /\ proc # NoProcedure
    <3>1. proc'.overall = proc.overall
      BY <1>1, <2>1 DEF WellFormed
    <3>2. at > 0
      BY <1>1, <2>1
    <3> QED
      BY <3>1, <3>2 DEF RollbackInv, Procedures, HasProcedure
  <2> QED
    BY <2>1, <2>2, <2>3 DEF counters, Ranges, Named
<1>9. CASE EndRollback
  <2>1. proc'.overall \in ProcedureStatus
    <3>1. proc' = [proc EXCEPT !.overall = OverallStatus(proc.status)]
      BY <1>9 DEF EndRollback
    <3>2. OverallStatus(proc.status) \in ProcedureStatus
      BY DEF OverallStatus, ProcedureStatus
    <3> QED
      BY <1>1, <3>1, <3>2 DEF WellFormed
  <2>2. at' = 0 /\ disk' \in {disk, proc'} /\ UNCHANGED <<stopping, history, counters>>
    BY <1>9 DEF EndRollback
  <2>3. Named(proc)' /\ Named(disk)'
    BY <2>1, <2>2 DEF Ranges, Named
  <2> QED
    BY <1>1, <2>2, <2>3 DEF history, counters, Ranges
<1>10. CASE Crash
  BY <1>1, <1>10 DEF Crash, history, Ranges, Named
<1>11. CASE LoadProcedure
  BY <1>11 DEF LoadProcedure, history, counters, Ranges, Named
<1>12. CASE UNCHANGED rollbackVars
  BY <1>12 DEF rollbackVars, history, counters, Ranges, Named
<1> QED
  BY <1>2, <1>4, <1>5, <1>6, <1>7, <1>8, <1>9, <1>10, <1>11, <1>12
     DEF RollbackNext, RecordedSteps

(* Every variable of the permission layer and of the rollback engine keeps its
   type: a running call and each approval name an entry of the audit log, and a
   procedure counts no more steps than it has. *)
THEOREM TypesHold == Spec => []TypeOK
<1> DEFINE Typed == PermissionTypeOK /\ GateInv /\ RollbackInv /\ Ranges
<1>1. Init => Typed
  BY GateStarts, RollbackStarts, RangesStart DEF Init
<1>2. Typed /\ [Next]_vars => Typed'
  <2>1. [Next]_vars => [PermissionNext]_permissionVars /\ [RollbackNext]_rollbackVars
    BY Zenon DEF Next, vars
  <2> QED
    BY <2>1, TypeInductive, GateInductive, RollbackKeeps, RangesKept
<1>3. Typed => TypeOK
  <2>1. Typed => IsProcedure(proc) /\ IsProcedure(disk)
    BY ProcedureTyped DEF RollbackInv, Procedures, Ranges
  <2> QED
    BY <2>1 DEF TypeOK, RollbackTypeOK, RollbackInv, Procedures, Ranges
<1> QED
  BY <1>1, <1>2, <1>3, PTL DEF Spec
=============================================================================
