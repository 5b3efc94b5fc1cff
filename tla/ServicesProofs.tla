--------------------------- MODULE ServicesProofs ---------------------------
(***************************************************************************)
(* The services around the runtime, proved for all their callers, limits   *)
(* and sizes.  Each service has an invariant of its own, kept by its steps *)
(* alone; the last part puts them together as MCServices does.             *)
(***************************************************************************)
EXTENDS MCServices, FiniteSetTheorems, WellFoundedInduction, TLAPS

-----------------------------------------------------------------------------
(* Limits of tool calls (orchestration/tool_policy.py): a call that was     *)
(* begun is recorded, or its caller is still about to record it.            *)

ToolsInv ==
    /\ acting \in [Governed -> {"nothing", "call"}]
    /\ callCount \in Nat /\ callsMade \in Nat /\ acts \in Nat /\ restarts \in Nat
    /\ acts <= MaxActs /\ restarts <= MaxRestarts
    /\ callCount + Cardinality(Doing("call")) <= acts
    /\ callsMade <= callCount + Cardinality(Doing("call"))
    /\ LimitsOverrunByOverlap

LEMMA DoingIsFinite ==
    ASSUME NEW what
    PROVE  /\ IsFiniteSet(Doing(what)) /\ Cardinality(Doing(what)) \in Nat
           /\ IsFiniteSet(Governed) /\ Cardinality(Governed) \in Nat
           /\ Cardinality(Doing(what)) <= Cardinality(Governed)
<1>1. IsFiniteSet(Governed) /\ Doing(what) \subseteq Governed
  BY GovernanceAssumption DEF Doing
<1> QED
  BY <1>1, FS_Subset, FS_CardinalityType

(* One caller takes something up, or puts it down. *)
LEMMA DoingOneMore ==
    ASSUME NEW S, acting \in [Governed -> S], NEW c \in Governed, NEW what \in S,
           acting[c] # what, acting' = [acting EXCEPT ![c] = what]
    PROVE  /\ Doing(what)' = Doing(what) \cup {c}
           /\ Cardinality(Doing(what)') = Cardinality(Doing(what)) + 1
<1>1. Doing(what)' = Doing(what) \cup {c} /\ c \notin Doing(what)
  BY DEF Doing
<1>2. IsFiniteSet(Doing(what))
  BY DoingIsFinite
<1>3. Cardinality(Doing(what) \cup {c}) = Cardinality(Doing(what)) + 1
  BY ONLY <1>1, <1>2, FS_AddElement
<1> QED
  BY Zenon, <1>1, <1>3

LEMMA DoingOneLess ==
    ASSUME NEW S, acting \in [Governed -> S], NEW c \in Governed, NEW what \in S, NEW next \in S,
           acting[c] = what, next # what, acting' = [acting EXCEPT ![c] = next]
    PROVE  /\ Doing(what)' = Doing(what) \ {c}
           /\ Cardinality(Doing(what)') = Cardinality(Doing(what)) - 1
<1>1. Doing(what)' = Doing(what) \ {c} /\ c \in Doing(what)
  BY DEF Doing
<1>2. IsFiniteSet(Doing(what))
  BY DoingIsFinite
<1>3. Cardinality(Doing(what) \ {c}) = Cardinality(Doing(what)) - 1
  BY ONLY <1>1, <1>2, FS_RemoveElement
<1> QED
  BY Zenon, <1>1, <1>3

LEMMA NobodyIsDoing ==
    ASSUME NEW what, what # "nothing", acting = [c \in Governed |-> "nothing"]
    PROVE  Doing(what) = {} /\ Cardinality(Doing(what)) = 0
<1>1. Doing(what) = {}
  BY DEF Doing
<1> QED
  BY <1>1, FS_EmptySet

LEMMA ToolsStart == GovernanceInit => ToolsInv
<1> SUFFICES ASSUME GovernanceInit PROVE ToolsInv
  OBVIOUS
<1>1. /\ callCount = 0 /\ callsMade = 0 /\ acts = 0 /\ restarts = 0
      /\ acting = [c \in Governed |-> "nothing"]
  BY DEF GovernanceInit
<1>2. Cardinality(Doing("call")) = 0
  BY <1>1, NobodyIsDoing
<1>3. Cardinality(Governed) \in Nat
  BY DoingIsFinite
<1> QED
  BY <1>1, <1>2, <1>3, GovernanceAssumption DEF ToolsInv, LimitsOverrunByOverlap

LEMMA ToolsStep == ToolsInv /\ (ToolNext \/ UNCHANGED governanceVars) => ToolsInv'
<1> SUFFICES ASSUME ToolsInv, ToolNext \/ UNCHANGED governanceVars PROVE ToolsInv'
  OBVIOUS
<1> DEFINE n == Cardinality(Doing("call"))
           all == Cardinality(Governed)
<1>1. n \in Nat /\ all \in Nat /\ n <= all
  BY DoingIsFinite
<1>2. /\ acting \in [Governed -> {"nothing", "call"}]
      /\ callCount \in Nat /\ callsMade \in Nat /\ acts \in Nat /\ restarts \in Nat
      /\ acts <= MaxActs /\ restarts <= MaxRestarts
      /\ callCount + n <= acts /\ callsMade <= callCount + n
      /\ MaxCallsPerRun > 0 => callsMade <= MaxCallsPerRun + all - 1
  BY DEF ToolsInv, LimitsOverrunByOverlap
<1>3. MaxActs \in Nat /\ MaxRestarts \in Nat /\ MaxCallsPerRun \in Nat
  BY GovernanceAssumption
<1>4. Cardinality(Doing("call")') <= all
  <2>1. Doing("call")' \subseteq Governed /\ IsFiniteSet(Governed)
    BY GovernanceAssumption DEF Doing
  <2> QED
    BY <2>1, FS_Subset
<1> HIDE DEF n, all
<1>5. ASSUME NEW c \in Governed, BeginCall(c) PROVE ToolsInv'
  <2>1. n' = n + 1
    BY <1>2, <1>5, DoingOneMore DEF BeginCall, n
  <2>2. /\ acts < MaxActs /\ acts' = acts + 1 /\ callsMade' = callsMade + 1
        /\ callCount' = callCount /\ restarts' = restarts
        /\ MaxCallsPerRun = 0 \/ callCount < MaxCallsPerRun
        /\ acting' \in [Governed -> {"nothing", "call"}]
    BY <1>2, <1>5 DEF BeginCall, UnderLimit, toolVars
  <2>3. n' <= all
    BY <1>4 DEF n
  <2>4. MaxCallsPerRun > 0 => callsMade' <= MaxCallsPerRun + all - 1
    BY <1>1, <1>2, <1>3, <2>1, <2>2, <2>3
  <2>5. /\ callCount' + n' <= acts' /\ callsMade' <= callCount' + n'
        /\ acts' \in Nat /\ acts' <= MaxActs /\ callsMade' \in Nat
    BY <1>1, <1>2, <1>3, <2>1, <2>2
  <2> QED
    BY <1>2, <2>2, <2>4, <2>5 DEF ToolsInv, LimitsOverrunByOverlap, n, all
<1>6. ASSUME NEW c \in Governed, RecordToolCall(c) PROVE ToolsInv'
  <2>1. n' = n - 1
    BY <1>2, <1>6, DoingOneLess DEF RecordToolCall, n
  <2>2. /\ acts' = acts /\ callsMade' = callsMade /\ callCount' = callCount + 1
        /\ restarts' = restarts /\ acting' \in [Governed -> {"nothing", "call"}]
    BY <1>2, <1>6 DEF RecordToolCall
  <2>3. /\ callCount' + n' <= acts' /\ callsMade' <= callCount' + n' /\ callCount' \in Nat
        /\ MaxCallsPerRun > 0 => callsMade' <= MaxCallsPerRun + all - 1
    BY <1>1, <1>2, <2>1, <2>2
  <2> QED
    BY <1>2, <2>2, <2>3 DEF ToolsInv, LimitsOverrunByOverlap, n, all
<1>7. CASE ResetCounts
  <2>1. /\ UNCHANGED <<acting, acts, restarts>> /\ callCount' = 0 /\ callsMade' = 0 /\ n' = n
    BY <1>7 DEF ResetCounts, n, Doing
  <2>2. /\ callCount' + n' <= acts' /\ callsMade' <= callCount' + n'
        /\ MaxCallsPerRun > 0 => callsMade' <= MaxCallsPerRun + all - 1
    BY <1>1, <1>2, <1>3, <2>1
  <2> QED
    BY <1>2, <2>1, <2>2 DEF ToolsInv, LimitsOverrunByOverlap, n, all
<1>8. CASE Reboot
  <2>1. /\ acting' = [c \in Governed |-> "nothing"] /\ acts' = acts
        /\ callCount' = 0 /\ callsMade' = 0 /\ restarts < MaxRestarts /\ restarts' = restarts + 1
    BY <1>8 DEF Reboot
  <2>2. Doing("call")' = {}
    BY <2>1 DEF Doing
  <2>3. n' = 0
    BY <2>2, FS_EmptySet DEF n
  <2>4. /\ callCount' + n' <= acts' /\ callsMade' <= callCount' + n'
        /\ MaxCallsPerRun > 0 => callsMade' <= MaxCallsPerRun + all - 1
    BY <1>1, <1>2, <1>3, <2>1, <2>3
  <2>5. acting' \in [Governed -> {"nothing", "call"}]
    BY <2>1
  <2>6. restarts' \in Nat /\ restarts' <= MaxRestarts
    BY <1>2, <1>3, <2>1
  <2> QED
    BY <1>2, <2>1, <2>4, <2>5, <2>6 DEF ToolsInv, LimitsOverrunByOverlap, n, all
<1>9. CASE UNCHANGED governanceVars
  BY <1>9 DEF ToolsInv, LimitsOverrunByOverlap, governanceVars, Doing
<1> QED
  BY <1>5, <1>6, <1>7, <1>8, <1>9 DEF ToolNext

-----------------------------------------------------------------------------
(* Operations that must not be done twice (core/idempotency.py): one that   *)
(* was done and needs no excuse is recorded, or still under way.            *)

OperationsKnown ==
    \A o \in Operations : done[o] > 0 /\ o \notin excused => o \in recorded \/ Doing(o) # {}

TrackerInv ==
    /\ acting \in [Governed -> {"nothing"} \cup Operations]
    /\ seen \subseteq Operations /\ recorded \subseteq Operations /\ excused \subseteq Operations
    /\ acts \in Nat /\ acts <= MaxActs
    /\ done \in [Operations -> Nat] /\ \A o \in Operations : done[o] <= acts
    /\ OperationsKnown
    /\ RepeatsAreExcused

LEMMA TrackerStart == GovernanceInit => TrackerInv
<1> SUFFICES ASSUME GovernanceInit PROVE TrackerInv
  OBVIOUS
<1>1. /\ acting = [c \in Governed |-> "nothing"] /\ done = [o \in Operations |-> 0]
      /\ seen = {} /\ recorded = {} /\ excused = {} /\ acts = 0
  BY DEF GovernanceInit
<1> QED
  BY <1>1, GovernanceAssumption DEF TrackerInv, OperationsKnown, RepeatsAreExcused

LEMMA TrackerStep == TrackerInv /\ (TrackerNext \/ UNCHANGED governanceVars) => TrackerInv'
<1> SUFFICES ASSUME TrackerInv, TrackerNext \/ UNCHANGED governanceVars PROVE TrackerInv'
  OBVIOUS
<1>0. "nothing" \notin Operations /\ MaxActs \in Nat
  BY GovernanceAssumption
<1>t. /\ acting \in [Governed -> {"nothing"} \cup Operations]
      /\ seen \subseteq Operations /\ recorded \subseteq Operations /\ excused \subseteq Operations
      /\ acts \in Nat /\ acts <= MaxActs
      /\ done \in [Operations -> Nat] /\ \A o \in Operations : done[o] <= acts
  BY DEF TrackerInv
<1>1. ASSUME NEW c \in Governed, NEW o \in Operations, BeginOperation(c, o) PROVE TrackerInv'
  <2>1. seen' \subseteq Operations /\ recorded' = recorded
    BY <1>1, <1>t DEF BeginOperation
  <2>2. CASE IsDup(o)
    <3>1. UNCHANGED <<acting, acts, done, excused>>
      BY <1>1, <2>2 DEF BeginOperation
    <3> QED
      BY <1>t, <2>1, <3>1 DEF TrackerInv, OperationsKnown, RepeatsAreExcused, Doing
  <2>3. CASE ~IsDup(o)
    <3>1. /\ acting[c] = "nothing" /\ acts < MaxActs /\ o \notin recorded
          /\ acting' = [acting EXCEPT ![c] = o] /\ acts' = acts + 1
          /\ done' = [done EXCEPT ![o] = @ + 1]
          /\ excused' = IF Doing(o) # {} THEN excused \cup {o} ELSE excused
      BY <1>1, <2>3 DEF BeginOperation, IsDup
    <3>2. acting' \in [Governed -> {"nothing"} \cup Operations] /\ excused' \subseteq Operations
      BY <1>t, <3>1
    <3>3. done' \in [Operations -> Nat] /\ \A p \in Operations : done'[p] <= acts'
      BY <1>t, <3>1
    <3>4. acts' \in Nat /\ acts' <= MaxActs
      BY <1>t, <1>0, <3>1
    <3>5. \A p \in Operations : Doing(p) # {} => Doing(p)' # {}
      BY <1>0, <1>t, <3>1 DEF Doing
    <3>6. Doing(o)' # {}
      BY <1>t, <3>1 DEF Doing
    <3>7. \A p \in Operations : p # o => done'[p] = done[p]
      BY <1>t, <3>1
    <3>8. OperationsKnown'
      BY <2>1, <3>1, <3>5, <3>6, <3>7 DEF OperationsKnown, TrackerInv
    <3>9. done'[o] > 1 => o \in excused'
      <4>1. done'[o] = done[o] + 1 /\ done[o] \in Nat
        BY <1>t, <3>1
      <4>2. done[o] > 0 => o \in excused \/ Doing(o) # {}
        BY <3>1 DEF TrackerInv, OperationsKnown
      <4> QED
        BY <3>1, <4>1, <4>2
    <3>10. RepeatsAreExcused'
      BY <3>1, <3>7, <3>9 DEF RepeatsAreExcused, TrackerInv
    <3> QED
      BY <2>1, <3>2, <3>3, <3>4, <3>8, <3>10, <1>t DEF TrackerInv
  <2> QED
    BY <2>2, <2>3
<1>2. ASSUME NEW c \in Governed, NEW o \in Operations, NEW ok \in BOOLEAN, RecordOperation(c, o, ok)
      PROVE  TrackerInv'
  <2>1. /\ acting[c] = o /\ acting' = [acting EXCEPT ![c] = "nothing"]
        /\ seen' = seen \cup {o} /\ UNCHANGED <<acts, done>>
        /\ recorded \subseteq recorded' /\ recorded' \subseteq Operations
        /\ excused \subseteq excused' /\ excused' \subseteq Operations
        /\ o \in recorded' \cup excused'
    BY <1>2, <1>t DEF RecordOperation
  <2>2. acting' \in [Governed -> {"nothing"} \cup Operations] /\ seen' \subseteq Operations
    BY <1>t, <2>1
  <2>3. \A p \in Operations : p # o /\ Doing(p) # {} => Doing(p)' # {}
    BY <1>0, <1>t, <2>1 DEF Doing
  <2>4. OperationsKnown' /\ RepeatsAreExcused'
    BY <2>1, <2>3 DEF TrackerInv, OperationsKnown, RepeatsAreExcused
  <2> QED
    BY <1>t, <2>1, <2>2, <2>4 DEF TrackerInv
<1>3. ASSUME NEW old \in SUBSET Operations, ClearOld(old) PROVE TrackerInv'
  <2>1. /\ UNCHANGED <<acting, acts, done>> /\ seen' = {}
        /\ recorded' = recorded \ old /\ excused' = excused \cup (old \cap recorded)
    BY <1>3 DEF ClearOld
  <2>2. OperationsKnown' /\ RepeatsAreExcused'
    BY <2>1 DEF TrackerInv, OperationsKnown, RepeatsAreExcused, Doing
  <2> QED
    BY <1>t, <2>1, <2>2 DEF TrackerInv
<1>4. CASE Reboot
  <2>1. /\ acting' = [c \in Governed |-> "nothing"] /\ seen' = {}
        /\ excused' = excused \cup {o \in Operations : Doing(o) # {}}
        /\ UNCHANGED <<recorded, done, acts>>
    BY <1>4 DEF Reboot
  <2>2. acting' \in [Governed -> {"nothing"} \cup Operations]
    BY <2>1
  <2>3. OperationsKnown' /\ RepeatsAreExcused'
    BY <2>1 DEF TrackerInv, OperationsKnown, RepeatsAreExcused
  <2> QED
    BY <1>t, <2>1, <2>2, <2>3 DEF TrackerInv
<1>5. CASE UNCHANGED governanceVars
  BY <1>5 DEF TrackerInv, OperationsKnown, RepeatsAreExcused, governanceVars, Doing
<1> QED
  BY <1>1, <1>2, <1>3, <1>4, <1>5 DEF TrackerNext

-----------------------------------------------------------------------------
(* Approvals (core/approval.py) and commands (command_policy.py).           *)

ApprovalInv ==
    /\ pendingApprovals \in [Requests -> ApprovalStates]
    /\ storedApprovals \in [Requests -> ApprovalStates]
    /\ unsaved \subseteq Requests
    /\ ApprovalsAgree

LEMMA ApprovalStart == GovernanceInit => ApprovalInv
BY DEF GovernanceInit, ApprovalInv, ApprovalsAgree, ApprovalStates

(* A request gets a status in memory, and in the storage unless that fails. *)
LEMMA StatusKept ==
    ASSUME ApprovalInv, NEW r \in Requests, NEW s \in ApprovalStates, NEW ok \in BOOLEAN,
           pendingApprovals' = [pendingApprovals EXCEPT ![r] = s], Stored(r, s, ok)
    PROVE  ApprovalInv'
<1>1. CASE ok
  BY <1>1 DEF ApprovalInv, ApprovalsAgree, Stored
<1>2. CASE ~ok
  BY <1>2 DEF ApprovalInv, ApprovalsAgree, Stored
<1> QED
  BY <1>1, <1>2

LEMMA ApprovalStep == ApprovalInv /\ (ApprovalNext \/ UNCHANGED governanceVars) => ApprovalInv'
<1> SUFFICES ASSUME ApprovalInv, ApprovalNext \/ UNCHANGED governanceVars PROVE ApprovalInv'
  OBVIOUS
<1>1. ASSUME NEW r \in Requests, NEW ok \in BOOLEAN, RequestApproval(r, ok) PROVE ApprovalInv'
  BY <1>1, StatusKept DEF RequestApproval, ApprovalStates
<1>2. ASSUME NEW r \in Requests, NEW ok \in BOOLEAN, NEW s \in {"approved", "rejected"},
             Decide(r, s, ok) PROVE ApprovalInv'
  BY <1>2, StatusKept DEF Decide, ApprovalStates
<1>3. CASE GetPending
  <2>1. UNCHANGED <<storedApprovals, unsaved>>
    BY <1>3 DEF GetPending
  <2>2. \A r \in Requests : pendingApprovals'[r] =
           IF pendingApprovals[r] = "none" /\ storedApprovals[r] = "pending"
           THEN "pending" ELSE pendingApprovals[r]
    BY <1>3 DEF GetPending
  <2>3. pendingApprovals' \in [Requests -> ApprovalStates]
    BY <1>3 DEF GetPending, ApprovalInv, ApprovalStates
  <2> QED
    BY <2>1, <2>2, <2>3 DEF ApprovalInv, ApprovalsAgree
<1>4. CASE Reboot
  BY <1>4 DEF Reboot, ApprovalInv, ApprovalsAgree, ApprovalStates
<1>5. CASE UNCHANGED governanceVars
  BY <1>5 DEF ApprovalInv, ApprovalsAgree, governanceVars
<1> QED
  BY <1>1, <1>2, <1>3, <1>4, <1>5 DEF ApprovalNext

CommandInv ==
    /\ commands \subseteq PatternClasses \cup {"read_only"}
    /\ granted \in [max : DOMAIN RiskOrder, allowed : BOOLEAN]
    /\ AllowedCommandsAreBelow

LEMMA Risks ==
    /\ DOMAIN RiskOrder = {"read_only", "low_risk", "modifying", "network", "privileged",
                           "destructive", "production"}
    /\ RiskOrder["read_only"] = 0 /\ RiskOrder["low_risk"] = 1 /\ RiskOrder["modifying"] = 2
    /\ RiskOrder["network"] = 3 /\ RiskOrder["privileged"] = 4
    /\ RiskOrder["destructive"] = 5 /\ RiskOrder["production"] = 6
BY DEF RiskOrder

LEMMA CommandStart == GovernanceInit => CommandInv
BY Risks DEF GovernanceInit, CommandInv, AllowedCommandsAreBelow

LEMMA CommandStep == CommandInv /\ (CommandNext \/ UNCHANGED governanceVars) => CommandInv'
<1> SUFFICES ASSUME CommandInv, CommandNext \/ UNCHANGED governanceVars PROVE CommandInv'
  OBVIOUS
<1>1. ASSUME NEW m \in SUBSET (PatternClasses \cup {"read_only"}), NEW max \in DOMAIN RiskOrder,
             CheckCommand(m, max)
      PROVE  CommandInv'
  <2>1. /\ commands' = m
        /\ granted' = [max |-> max, allowed |-> RiskOrder[Classify(m)] <= RiskOrder[max]]
    BY <1>1 DEF CheckCommand
  <2>2. granted' \in [max : DOMAIN RiskOrder, allowed : BOOLEAN]
    BY <2>1
  <2>3. ASSUME RiskOrder[Classify(m)] <= RiskOrder[max], RiskOrder[max] < 4, NEW p \in m
        PROVE  RiskOrder[p] <= RiskOrder[max]
    <3>1. p \in {"destructive", "privileged", "production", "network", "modifying", "read_only"}
      BY DEF PatternClasses
    <3>2. RiskOrder[max] \in Nat
      BY Risks
    <3>3. CASE m \cap {"destructive", "privileged", "production"} # {}
      BY <2>3, <3>2, <3>3, Risks DEF Classify
    <3>4. CASE m \cap {"destructive", "privileged", "production"} = {}
      BY <2>3, <3>1, <3>2, <3>4, Risks DEF Classify
    <3> QED
      BY <3>3, <3>4
  <2> QED
    BY <2>1, <2>2, <2>3, Risks DEF CommandInv, AllowedCommandsAreBelow
<1>2. CASE UNCHANGED governanceVars
  BY <1>2 DEF CommandInv, AllowedCommandsAreBelow, governanceVars
<1> QED
  BY <1>1, <1>2 DEF CommandNext

-----------------------------------------------------------------------------
(* The choice of a model (orchestration/model_router.py).                   *)

LEMMA ModelNumbers ==
    /\ Models = 1..5
    /\ \A m \in Models : /\ ModelTable[m].input \in Nat /\ ModelTable[m].output \in Nat
                         /\ 200000 - ModelTable[m].window \in Nat
<1>1. Models = 1..5
  BY DEF Models, ModelTable
<1>2. ASSUME NEW m \in 1..5
      PROVE  /\ ModelTable[m].input \in Nat /\ ModelTable[m].output \in Nat
             /\ 200000 - ModelTable[m].window \in Nat
  <2>1. m = 1 \/ m = 2 \/ m = 3 \/ m = 4 \/ m = 5
    OBVIOUS
  <2> QED
    BY <2>1 DEF ModelTable
<1> QED
  BY <1>1, <1>2

LEMMA MeasureIsNatural ==
    ASSUME NEW m \in Models, NEW c
    PROVE  Measure(m, c) \in Nat
<1> DEFINE i == ModelTable[m].input
           o == ModelTable[m].output
           w == 200000 - ModelTable[m].window
<1>1. i \in Nat /\ o \in Nat /\ w \in Nat
  BY ModelNumbers
<1>2. Measure(m, c) = CASE c = "trivial" -> i [] c = "low" -> i + o
                        [] c \in {"medium", "high"} -> o [] OTHER -> w
  BY DEF Measure
<1> HIDE DEF i, o, w
<1>3. CASE c \in {"trivial", "low", "medium", "high"}
  <2>1. Measure(m, c) \in {i, i + o, o}
    BY <1>2, <1>3
  <2> QED
    BY <1>1, <2>1
<1>4. CASE c \notin {"trivial", "low", "medium", "high"}
  BY <1>1, <1>2, <1>4
<1> QED
  BY <1>3, <1>4

LEMMA LeastNatural ==
    ASSUME NEW S \in SUBSET Nat, S # {}
    PROVE  \E n \in S : \A m \in S : n <= m
<1>1. PICK n \in S : \A m \in S : ~(<<m, n>> \in OpToRel(<, Nat))
  BY NatLessThanWellFounded, WFMin
<1>2. \A m \in S : n <= m
  <2> SUFFICES ASSUME NEW m \in S PROVE n <= m
    OBVIOUS
  <2>1. ~(m < n)
    BY <1>1 DEF OpToRel
  <2> QED
    BY <2>1
<1> QED
  BY <1>2

(* min() of the candidates is one of them. *)
LEMMA SelectIsACandidate ==
    ASSUME NEW S \in SUBSET Models, S # {}, NEW c
    PROVE  Select(S, c) \in S
<1> DEFINE values == {Measure(m, c) : m \in S}
<1>1. values \in SUBSET Nat /\ values # {}
  BY MeasureIsNatural
<1>2. PICK v \in values : \A w \in values : v <= w
  BY <1>1, LeastNatural
<1> DEFINE best == {m \in S : Measure(m, c) = v}
<1>3. best \in SUBSET Nat /\ best # {}
  BY <1>2, ModelNumbers
<1>4. PICK m \in best : \A n \in best : m <= n
  BY <1>3, LeastNatural
<1>5. m \in S /\ Measure(m, c) = v
  BY <1>4
<1>6. \A n \in S : \/ Measure(m, c) < Measure(n, c)
                   \/ Measure(m, c) = Measure(n, c) /\ m <= n
  <2> SUFFICES ASSUME NEW n \in S, ~(Measure(m, c) < Measure(n, c))
               PROVE  Measure(m, c) = Measure(n, c) /\ m <= n
    OBVIOUS
  <2>1. v <= Measure(n, c) /\ v \in Nat /\ Measure(n, c) \in Nat
    BY <1>1, <1>2
  <2>2. Measure(n, c) = v
    BY <1>5, <2>1
  <2> QED
    BY <1>4, <1>5, <2>2
<1> QED
  BY <1>5, <1>6 DEF Select

RoutingInv ==
    /\ RoutingTypeOK
    /\ RoutedModelsFit

LEMMA RoutingStart == RoutingInit => RoutingInv
<1> SUFFICES ASSUME RoutingInit PROVE RoutingInv
  OBVIOUS
<1>1. routed.decision = [model |-> 0, why |-> "none"] /\ preference = [u \in RouteUsers |-> 0]
  BY DEF RoutingInit, NoRoute, NoModel
<1> QED
  BY <1>1 DEF RoutingInv, RoutingTypeOK, RoutedModelsFit, NoModel

(* Whatever is decided fits what it was decided for. *)
LEMMA DecisionFits ==
    ASSUME NEW r \in RouteRequests
    PROVE  /\ Decision(r).model \in Models \cup {NoModel}
           /\ Decision(r).why \in {"preference", "fallback", "selected", "raised"}
           /\ Decision(r).why \in {"preference", "selected"} => Satisfies(Decision(r).model, r)
           /\ Decision(r).why = "selected" /\ r.budget # 0
                => EstimateCost(Decision(r).model, r.length) <= r.budget
           /\ Decision(r).why \in {"fallback", "raised"}
                => \A m \in Models : ~Satisfies(m, r)
                                       \/ (r.budget # 0 /\ ~(EstimateCost(m, r.length) <= r.budget))
<1> DEFINE p == preference[r.user]
<1>1. CASE p \in Models /\ Satisfies(p, r)
  <2>1. Decision(r) = [model |-> p, why |-> "preference"]
    BY <1>1 DEF Decision
  <2> QED
    BY <1>1, <2>1
<1>2. CASE ~(p \in Models /\ Satisfies(p, r)) /\ Candidates(r) = {}
  <2>1. \/ r.default \in Models /\ Decision(r) = [model |-> r.default, why |-> "fallback"]
        \/ Decision(r) = [model |-> NoModel, why |-> "raised"]
    BY Zenon, <1>2 DEF Decision
  <2>3. \A m \in Models : ~Satisfies(m, r)
                             \/ (r.budget # 0 /\ ~(EstimateCost(m, r.length) <= r.budget))
    <3> SUFFICES ASSUME NEW m \in Models, Satisfies(m, r)
                 PROVE  (r.budget # 0 /\ ~(EstimateCost(m, r.length) <= r.budget))
      BY Zenon
    <3>1. m \notin Candidates(r)
      BY <1>2
    <3> QED
      BY <3>1 DEF Candidates
  <2>4. /\ Decision(r).why \in {"fallback", "raised"}
        /\ Decision(r).model \in Models \cup {NoModel}
    BY <2>1
  <2>5. /\ Decision(r).why \notin {"preference", "selected"}
        /\ Decision(r).why \in {"preference", "fallback", "selected", "raised"}
        /\ Decision(r).why # "selected"
    BY <2>4
  <2> QED
    BY <2>3, <2>4, <2>5, Zenon
<1>3. CASE ~(p \in Models /\ Satisfies(p, r)) /\ Candidates(r) # {}
  <2> DEFINE s == Select(Candidates(r), EstimateComplexity(r.keywords))
  <2>1. Decision(r) = [model |-> s, why |-> "selected"]
    BY <1>3 DEF Decision
  <2>2. s \in Candidates(r)
    BY <1>3, SelectIsACandidate DEF Candidates
  <2> QED
    BY <2>1, <2>2 DEF Candidates
<1> QED
  BY <1>1, <1>2, <1>3

LEMMA CostIsNatural ==
    ASSUME NEW m \in Models, NEW r \in RouteRequests
    PROVE  EstimateCost(m, r.length) \in Nat /\ r.budget \in Nat
<1> DEFINE i == ModelTable[m].input
           o == ModelTable[m].output
<1>1. i \in Nat /\ o \in Nat
  BY ModelNumbers
<1>2. r.length \in Nat /\ r.budget \in Nat
  BY RoutingAssumption DEF RouteRequests
<1> DEFINE q == r.length \div 4
           h == r.length \div 2
<1>3. q \in Nat /\ h \in Nat
  BY <1>2
<1>4. EstimateCost(m, r.length) = q * i + h * o
  BY DEF EstimateCost
<1> HIDE DEF i, o, q, h
<1>5. q * i \in Nat /\ h * o \in Nat
  BY <1>1, <1>3
<1> QED
  BY <1>2, <1>4, <1>5

LEMMA RoutingStep == RoutingInv /\ (RoutingNext \/ UNCHANGED routingVars) => RoutingInv'
<1> SUFFICES ASSUME RoutingInv, RoutingNext \/ UNCHANGED routingVars PROVE RoutingInv'
  OBVIOUS
<1>1. ASSUME NEW u \in RouteUsers, NEW m \in Models \cup {UnknownModel}, SetUserPreference(u, m)
      PROVE  RoutingInv'
  BY <1>1 DEF SetUserPreference, RoutingInv, RoutingTypeOK, RoutedModelsFit
<1>2. ASSUME NEW r \in RouteRequests, Route(r) PROVE RoutingInv'
  <2> DEFINE d == Decision(r)
  <2>1. routed' = [request |-> r, decision |-> d] /\ preference' = preference
    BY <1>2 DEF Route
  <2>2. /\ d.model \in Models \cup {NoModel}
        /\ d.why \in {"preference", "fallback", "selected", "raised"}
        /\ d.why \in {"preference", "selected"} => Satisfies(d.model, r)
        /\ d.why = "selected" /\ r.budget # 0 => EstimateCost(d.model, r.length) <= r.budget
        /\ d.why \in {"fallback", "raised"}
             => \A m \in Models : ~Satisfies(m, r)
                                    \/ (r.budget # 0 /\ ~(EstimateCost(m, r.length) <= r.budget))
    BY DecisionFits
  <2>3. d.why \in {"fallback", "raised"} =>
           \A m \in Models : ~Satisfies(m, r) \/ EstimateCost(m, r.length) > r.budget
    <3> SUFFICES ASSUME d.why \in {"fallback", "raised"}, NEW m \in Models, Satisfies(m, r)
                 PROVE  EstimateCost(m, r.length) > r.budget
      OBVIOUS
    <3>1. ~(EstimateCost(m, r.length) <= r.budget)
      BY <2>2
    <3> QED
      BY <3>1, CostIsNatural
  <2> HIDE DEF d
  <2>4. RoutedModelsFit'
    BY <2>1, <2>2, <2>3 DEF RoutedModelsFit
  <2>5. RoutingTypeOK'
    BY <2>1, <2>2 DEF RoutingInv, RoutingTypeOK
  <2> QED
    BY <2>4, <2>5 DEF RoutingInv
<1>3. CASE UNCHANGED routingVars
  BY <1>3 DEF RoutingInv, RoutingTypeOK, RoutedModelsFit, routingVars
<1> QED
  BY <1>1, <1>2, <1>3 DEF RoutingNext
-----------------------------------------------------------------------------
(* Caches (cache/, utils/cache.py): what is stored for a key is what was    *)
(* stored last, and who tests a client is alone unless a close() came in    *)
(* between.                                                                 *)

Question == [what : {"get", "set", "clear"}, key : CacheKeys, result : {0},
             stage : {"testing", "asking"}, via : Nat]

CacheTypes ==
    /\ CachesTypeOK
    /\ gets \in Nat /\ muddled \in BOOLEAN
    /\ asked \in [CacheCallers -> {NotAsking} \cup Question]
    /\ backend # "redis" => \A c \in CacheCallers : asked[c] = NotAsking

StoreIsNewest ==
    /\ IsFiniteSet(DOMAIN store)
    /\ newest \in [CacheKeys -> [result : 0..MaxStores, at : 0..MaxCacheTime]]
    /\ \A k \in DOMAIN store :
          /\ newest[k].result = store[k].result /\ newest[k].at = store[k].at
          /\ backend # "plain" => ~store[k].forever

Testing == {c \in CacheCallers : asked[c].stage = "testing"}

OneTester ==
    /\ client.failed => client.id = 0
    /\ ~muddled => /\ \A c, d \in Testing : c = d
                   /\ Testing # {} => client.id # 0 \/ client.failed

AnswerIsFresh == answer.result # 0 => answer.key \in CacheKeys /\ HitsAreFresh

CachesInv == CacheTypes /\ StoreIsNewest /\ CacheIsBounded /\ AnswerIsFresh /\ OneTester

LEMMA CacheLimits ==
    /\ CacheTTL \in Nat /\ MaxEntries \in Nat \ {0} /\ MaxCacheTime \in Nat /\ MaxStores \in Nat
    /\ 0 \in 0..MaxCacheTime /\ 0 \in 0..MaxStores
BY CacheAssumption

LEMMA CachesStart == CachesInit => CachesInv
<1> SUFFICES ASSUME CachesInit PROVE CachesInv
  OBVIOUS
<1>1. /\ store = NoEntries /\ clock = 0 /\ stored = 0 /\ gets = 0 /\ muddled = FALSE
      /\ client = [id |-> 0, failed |-> FALSE, closing |-> FALSE] /\ opened = [made |-> 0, live |-> {}]
      /\ asked = [c \in CacheCallers |-> NotAsking]
      /\ stats = [hits |-> 0, misses |-> 0] /\ answer = [key |-> "none", result |-> 0]
      /\ newest = [k \in CacheKeys |-> NoStore] /\ backend \in {"memory", "redis", "plain"}
  BY DEF CachesInit
<1>2. DOMAIN store = {} /\ IsFiniteSet(DOMAIN store) /\ Cardinality(DOMAIN store) = 0
  BY <1>1, FS_EmptySet DEF NoEntries
<1>3. store \in [DOMAIN store -> Entry]
  BY <1>1, <1>2 DEF NoEntries
<1>4. CacheTypes
  BY <1>1, <1>2, <1>3, CacheLimits DEF CacheTypes, CachesTypeOK
<1>5. StoreIsNewest
  BY <1>1, <1>2, CacheLimits DEF StoreIsNewest, NoStore
<1>6. CacheIsBounded /\ AnswerIsFresh
  BY <1>1, <1>2, CacheLimits DEF CacheIsBounded, AnswerIsFresh
<1>7. OneTester
  BY <1>1 DEF OneTester, Testing, NotAsking
<1> QED
  BY <1>4, <1>5, <1>6, <1>7 DEF CachesInv

(* Fewer entries. *)
LEMMA FewerEntries ==
    ASSUME CacheTypes, StoreIsNewest, NEW keys
    PROVE  LET s == WithoutKeys(keys)
           IN  /\ DOMAIN s = DOMAIN store \ keys
               /\ s \in [DOMAIN s -> Entry]
               /\ IsFiniteSet(DOMAIN s) /\ Cardinality(DOMAIN s) \in Nat
               /\ Cardinality(DOMAIN store) \in Nat
               /\ Cardinality(DOMAIN s) <= Cardinality(DOMAIN store)
               /\ keys \cap DOMAIN store # {} => Cardinality(DOMAIN s) < Cardinality(DOMAIN store)
               /\ \A k \in DOMAIN s : s[k] = store[k]
<1> DEFINE s == WithoutKeys(keys)
<1>1. DOMAIN s = DOMAIN store \ keys /\ \A k \in DOMAIN s : s[k] = store[k]
  BY DEF WithoutKeys
<1>2. s \in [DOMAIN s -> Entry]
  BY <1>1 DEF WithoutKeys, CacheTypes, CachesTypeOK
<1>3. IsFiniteSet(DOMAIN store) /\ DOMAIN s \subseteq DOMAIN store
  BY <1>1 DEF StoreIsNewest
<1>4. /\ IsFiniteSet(DOMAIN s) /\ Cardinality(DOMAIN s) \in Nat /\ Cardinality(DOMAIN store) \in Nat
      /\ Cardinality(DOMAIN s) <= Cardinality(DOMAIN store)
      /\ DOMAIN s # DOMAIN store => Cardinality(DOMAIN s) < Cardinality(DOMAIN store)
  <2>1. /\ IsFiniteSet(DOMAIN s) /\ Cardinality(DOMAIN s) <= Cardinality(DOMAIN store)
        /\ Cardinality(DOMAIN s) = Cardinality(DOMAIN store) => DOMAIN s = DOMAIN store
    BY <1>3, FS_Subset
  <2>2. Cardinality(DOMAIN s) \in Nat /\ Cardinality(DOMAIN store) \in Nat
    BY <1>3, <2>1, FS_CardinalityType
  <2> QED
    BY <2>1, <2>2
<1> QED
  BY <1>1, <1>2, <1>4

(* The oldest entry of a store that is not empty has none before it. *)
LEMMA OldestExists ==
    ASSUME CacheTypes, DOMAIN store # {}
    PROVE  \E k \in DOMAIN store : Before(k) = {}
<1> DEFINE places == {store[k].since : k \in DOMAIN store}
<1>1. \A k \in DOMAIN store : store[k].since \in Nat
  BY CacheLimits DEF CacheTypes, CachesTypeOK, Entry, Results
<1>2. places \in SUBSET Nat /\ places # {}
  BY <1>1
<1>3. PICK p \in places : \A q \in places : p <= q
  BY <1>2, LeastNatural
<1>4. PICK k \in DOMAIN store : store[k].since = p
  BY <1>3
<1>5. \A j \in DOMAIN store : ~(store[j].since < store[k].since)
  <2> TAKE j \in DOMAIN store
  <2>1. p <= store[j].since
    BY <1>3
  <2> QED
    BY <1>1, <1>4, <2>1
<1> QED
  BY <1>5 DEF Before

(* Room is made: whatever is dropped, what stays was there, and there is a
   place for the key. *)
LEMMA RoomIsMade ==
    ASSUME CacheTypes, StoreIsNewest, Cardinality(DOMAIN store) <= MaxEntries, NEW k
    PROVE  \E keys : /\ MakeRoom(k) = WithoutKeys(keys)
                     /\ k \in DOMAIN store => keys = {}
                     /\ k \notin DOMAIN store => Cardinality(DOMAIN MakeRoom(k)) < MaxEntries
<1>1. MaxEntries \in Nat \ {0} /\ Cardinality(DOMAIN store) \in Nat
  BY CacheLimits, FewerEntries
<1>2. CASE ~IsFull(store) \/ Has(k)
  <2>1. MakeRoom(k) = store /\ store = WithoutKeys({})
    BY <1>2 DEF MakeRoom, WithoutKeys, CacheTypes, CachesTypeOK
  <2> QED
    BY <1>1, <1>2, <2>1 DEF IsFull, Has
<1>3. CASE IsFull(store) /\ ~Has(k) /\ ~IsFull(EvictStale)
  <2>1. MakeRoom(k) = EvictStale
    BY <1>3 DEF MakeRoom
  <2>2. PICK keys : EvictStale = WithoutKeys(keys)
    BY DEF EvictStale
  <2>3. Cardinality(DOMAIN EvictStale) \in Nat
    BY <2>2, FewerEntries
  <2>4. Cardinality(DOMAIN EvictStale) < MaxEntries
    BY <1>1, <1>3, <2>3 DEF IsFull
  <2> QED
    BY <1>3, <2>1, <2>2, <2>4 DEF Has
<1>4. CASE IsFull(store) /\ ~Has(k) /\ IsFull(EvictStale)
  <2> DEFINE tenth == IF MaxEntries \div 10 = 0 THEN 1 ELSE MaxEntries \div 10
             keys == {j \in DOMAIN store : Cardinality(Before(j)) < tenth}
  <2>1. MakeRoom(k) = WithoutKeys(keys)
    BY <1>4 DEF MakeRoom, EvictOldest
  <2>2. tenth > 0
    BY <1>1
  <2>3. DOMAIN store # {}
    BY <1>1, <1>4, FS_EmptySet DEF IsFull
  <2>4. PICK j \in DOMAIN store : Before(j) = {}
    BY <2>3, OldestExists
  <2>5. j \in keys
    BY <2>2, <2>4, FS_EmptySet
  <2>6. Cardinality(DOMAIN WithoutKeys(keys)) < Cardinality(DOMAIN store)
        /\ Cardinality(DOMAIN WithoutKeys(keys)) \in Nat
    BY <2>4, <2>5, FewerEntries
  <2>7. Cardinality(DOMAIN MakeRoom(k)) < MaxEntries
    BY <1>1, <2>1, <2>6
  <2> QED
    BY <1>4, <2>1, <2>7 DEF Has
<1> QED
  BY <1>2, <1>3, <1>4

(* A step that drops entries, and forgets no result but theirs. *)
LEMMA DroppingKeeps ==
    ASSUME CacheTypes, StoreIsNewest, NEW keys, store' = WithoutKeys(keys), UNCHANGED backend,
           newest' \in [CacheKeys -> [result : 0..MaxStores, at : 0..MaxCacheTime]],
           \A k \in CacheKeys \ keys : newest'[k] = newest[k]
    PROVE  /\ StoreIsNewest'
           /\ DOMAIN store' \subseteq CacheKeys /\ store' \in [DOMAIN store' -> Entry]
           /\ Cardinality(DOMAIN store') <= MaxEntries \/ ~(Cardinality(DOMAIN store) <= MaxEntries)
<1>1. /\ DOMAIN store' = DOMAIN store \ keys /\ store' \in [DOMAIN store' -> Entry]
      /\ IsFiniteSet(DOMAIN store') /\ Cardinality(DOMAIN store') \in Nat
      /\ Cardinality(DOMAIN store) \in Nat
      /\ Cardinality(DOMAIN store') <= Cardinality(DOMAIN store)
      /\ \A k \in DOMAIN store' : store'[k] = store[k]
  BY FewerEntries
<1>2. DOMAIN store \subseteq CacheKeys
  BY DEF CacheTypes, CachesTypeOK
<1>3. StoreIsNewest'
  BY <1>1, <1>2 DEF StoreIsNewest
<1> QED
  BY <1>1, <1>2, <1>3, CacheLimits

(* A step that stores one result more. *)
LEMMA StoringKeeps ==
    ASSUME CacheTypes, StoreIsNewest, NEW keys, NEW k \in CacheKeys, NEW forever \in BOOLEAN,
           store' = Put(WithoutKeys(keys), k, forever), Noted(k), UNCHANGED backend,
           backend # "plain" => ~forever
    PROVE  /\ StoreIsNewest'
           /\ DOMAIN store' \subseteq CacheKeys /\ store' \in [DOMAIN store' -> Entry]
           /\ stored' \in 0..MaxStores
           /\ k \in DOMAIN WithoutKeys(keys)
                => Cardinality(DOMAIN store') = Cardinality(DOMAIN WithoutKeys(keys))
           /\ k \notin DOMAIN WithoutKeys(keys)
                => Cardinality(DOMAIN store') = Cardinality(DOMAIN WithoutKeys(keys)) + 1
<1> DEFINE s == WithoutKeys(keys)
<1>1. /\ DOMAIN s \subseteq DOMAIN store /\ s \in [DOMAIN s -> Entry]
      /\ IsFiniteSet(DOMAIN s) /\ \A j \in DOMAIN s : s[j] = store[j]
  BY FewerEntries
<1>2. DOMAIN store \subseteq CacheKeys /\ stored \in 0..MaxStores /\ clock \in 0..MaxCacheTime
  BY DEF CacheTypes, CachesTypeOK
<1>3. /\ stored' = stored + 1 /\ stored + 1 \in Results /\ stored' \in 0..MaxStores
      /\ newest' = [newest EXCEPT ![k] = [result |-> stored + 1, at |-> clock]]
  BY <1>2, CacheLimits DEF Noted, Results
<1> DEFINE e == [result |-> stored + 1, at |-> clock, forever |-> forever,
                 since |-> IF k \in DOMAIN s THEN s[k].since ELSE stored + 1]
<1>4. e \in Entry
  <2>1. k \in DOMAIN s => s[k].since \in Results
    BY <1>1 DEF Entry
  <2> QED
    BY <1>2, <1>3, <2>1 DEF Entry
<1>5. store' = [j \in DOMAIN s \cup {k} |-> IF j # k THEN s[j] ELSE e]
  BY DEF Put
<1>6. e.result = stored + 1 /\ e.at = clock /\ e.forever = forever
  OBVIOUS
<1> HIDE DEF s, e
<1>7. /\ DOMAIN store' = DOMAIN s \cup {k} /\ store'[k] = e
      /\ \A j \in DOMAIN s : j # k => store'[j] = s[j]
  BY <1>5
<1>8. store' \in [DOMAIN store' -> Entry]
  BY <1>1, <1>4, <1>5, <1>7
<1>9. IsFiniteSet(DOMAIN store')
  BY <1>1, <1>7, FS_AddElement
<1>10. newest' \in [CacheKeys -> [result : 0..MaxStores, at : 0..MaxCacheTime]]
  <2>1. [result |-> stored + 1, at |-> clock] \in [result : 0..MaxStores, at : 0..MaxCacheTime]
    BY <1>2, <1>3
  <2> QED
    BY <1>3, <2>1 DEF StoreIsNewest
<1>11. StoreIsNewest'
  <2> SUFFICES ASSUME NEW j \in DOMAIN store'
               PROVE  /\ newest'[j].result = store'[j].result /\ newest'[j].at = store'[j].at
                      /\ backend # "plain" => ~store'[j].forever
    BY <1>9, <1>10 DEF StoreIsNewest
  <2>1. CASE j = k
    <3>1. newest'[k] = [result |-> stored + 1, at |-> clock]
      BY <1>3 DEF StoreIsNewest
    <3> QED
      BY <1>6, <1>7, <2>1, <3>1
  <2>2. CASE j # k
    <3>1. j \in DOMAIN s /\ j \in DOMAIN store /\ store'[j] = store[j] /\ newest'[j] = newest[j]
      BY <1>1, <1>2, <1>3, <1>7, <2>2 DEF StoreIsNewest
    <3> QED
      BY <3>1 DEF StoreIsNewest
  <2> QED
    BY <2>1, <2>2
<1>12. /\ k \in DOMAIN s => Cardinality(DOMAIN store') = Cardinality(DOMAIN s)
       /\ k \notin DOMAIN s => Cardinality(DOMAIN store') = Cardinality(DOMAIN s) + 1
  <2>1. CASE k \in DOMAIN s
    <3>1. DOMAIN store' = DOMAIN s
      BY <1>7, <2>1
    <3> QED
      BY <2>1, <3>1
  <2>2. CASE k \notin DOMAIN s
    BY <1>1, <1>7, <2>2, FS_AddElement
  <2> QED
    BY <2>1, <2>2
<1> QED
  BY <1>2, <1>3, <1>7, <1>8, <1>11, <1>12, <1>1 DEF s


(* What the calls on the store leave: the client and who uses it. *)
LEMMA CallersAside ==
    ASSUME CacheTypes, OneTester, UNCHANGED <<backend, client, opened, asked, muddled>>,
           clock' \in 0..MaxCacheTime, stored' \in 0..MaxStores, gets' \in Nat,
           stats' \in [hits : Nat, misses : Nat],
           DOMAIN store' \subseteq CacheKeys, store' \in [DOMAIN store' -> Entry]
    PROVE  CacheTypes' /\ OneTester'
<1>1. CacheTypes'
  BY DEF CacheTypes, CachesTypeOK
<1>2. Testing' = Testing
  BY DEF Testing
<1> QED
  BY <1>1, <1>2 DEF OneTester

LEMMA CountedStats ==
    ASSUME stats \in [hits : Nat, misses : Nat], NEW hit \in BOOLEAN,
           stats' = IF hit THEN [stats EXCEPT !.hits = @ + 1] ELSE [stats EXCEPT !.misses = @ + 1]
    PROVE  /\ stats' \in [hits : Nat, misses : Nat]
           /\ stats'.hits + stats'.misses = stats.hits + stats.misses + 1
OBVIOUS

(* The result of a get, from whichever store. *)
LEMMA GetIsFresh ==
    ASSUME CacheTypes, StoreIsNewest, NEW k \in CacheKeys, UNCHANGED <<backend, newest, clock>>,
           answer' = [key |-> k,
                      result |-> IF Has(k) /\ (backend = "plain" \/ ~IsExpired(store[k]))
                                 THEN store[k].result ELSE 0]
    PROVE  AnswerIsFresh'
<1>1. SUFFICES ASSUME answer'.result # 0
               PROVE  /\ answer'.result = newest[answer'.key].result
                      /\ backend # "plain" => clock <= newest[answer'.key].at + CacheTTL
  BY DEF AnswerIsFresh, HitsAreFresh
<1>2. answer'.key = k /\ k \in DOMAIN store /\ answer'.result = store[k].result
      /\ (backend = "plain" \/ ~IsExpired(store[k]))
  BY <1>1 DEF Has
<1>3. newest[k].result = store[k].result /\ newest[k].at = store[k].at
      /\ (backend # "plain" => ~store[k].forever)
  BY <1>2 DEF StoreIsNewest
<1>4. clock \in Nat /\ store[k].at \in Nat /\ CacheTTL \in Nat
  BY <1>2, CacheLimits DEF CacheTypes, CachesTypeOK, Entry
<1>5. backend # "plain" => clock <= store[k].at + CacheTTL
  BY <1>2, <1>3, <1>4 DEF IsExpired
<1> QED
  BY <1>2, <1>3, <1>5

LEMMA NothingAnswered == answer'.result = 0 => AnswerIsFresh'
BY DEF AnswerIsFresh, HitsAreFresh

(* What a lookup or a deletion leaves of the newest results. *)
LEMMA NewestForgets ==
    ASSUME StoreIsNewest, NEW keys,
           newest' = [k \in CacheKeys |-> IF k \in keys THEN NoStore ELSE newest[k]]
    PROVE  /\ newest' \in [CacheKeys -> [result : 0..MaxStores, at : 0..MaxCacheTime]]
           /\ \A k \in CacheKeys \ keys : newest'[k] = newest[k]
<1>1. NoStore \in [result : 0..MaxStores, at : 0..MaxCacheTime]
  BY CacheLimits DEF NoStore
<1> QED
  BY <1>1 DEF StoreIsNewest

LEMMA MemoryGetKeeps == ASSUME CachesInv, NEW k \in CacheKeys, MemoryGet(k) PROVE CachesInv'
<1>1. CacheTypes /\ StoreIsNewest /\ CacheIsBounded /\ OneTester
  BY DEF CachesInv
<1> DEFINE hit == Has(k) /\ ~IsExpired(store[k])
<1>2. /\ backend = "memory" /\ gets' = gets + 1
      /\ answer' = [key |-> k, result |-> IF hit THEN store[k].result ELSE 0]
      /\ stats' = IF hit THEN [stats EXCEPT !.hits = @ + 1] ELSE [stats EXCEPT !.misses = @ + 1]
      /\ store' = IF hit THEN store ELSE WithoutKeys({k})
      /\ UNCHANGED <<backend, clock, client, opened, asked, muddled, stored, newest>>
  BY DEF MemoryGet, CacheRest
<1>3. hit \in BOOLEAN
  OBVIOUS
<1> HIDE DEF hit
<1>4. /\ stats' \in [hits : Nat, misses : Nat] /\ gets' \in Nat
      /\ stats'.hits + stats'.misses = gets'
  <2>1. stats \in [hits : Nat, misses : Nat] /\ gets \in Nat
    BY <1>1 DEF CacheTypes, CachesTypeOK
  <2>2. stats.hits + stats.misses = gets
    BY <1>1, <1>2 DEF CacheIsBounded
  <2>3. /\ stats' \in [hits : Nat, misses : Nat]
        /\ stats'.hits + stats'.misses = stats.hits + stats.misses + 1
    BY <1>2, <1>3, <2>1, CountedStats
  <2> QED
    BY <1>2, <2>1, <2>2, <2>3
<1>5. PICK keys : store' = WithoutKeys(keys)
  <2>1. store = WithoutKeys({})
    BY <1>1 DEF WithoutKeys, CacheTypes, CachesTypeOK
  <2> QED
    BY <1>2, <2>1
<1>6. newest' \in [CacheKeys -> [result : 0..MaxStores, at : 0..MaxCacheTime]]
      /\ \A j \in CacheKeys \ keys : newest'[j] = newest[j]
  BY <1>1, <1>2 DEF StoreIsNewest
<1>7. /\ StoreIsNewest' /\ DOMAIN store' \subseteq CacheKeys /\ store' \in [DOMAIN store' -> Entry]
      /\ Cardinality(DOMAIN store') <= MaxEntries \/ ~(Cardinality(DOMAIN store) <= MaxEntries)
  BY <1>1, <1>2, <1>5, <1>6, DroppingKeeps
<1>8. CacheTypes' /\ OneTester'
  <2>1. clock' \in 0..MaxCacheTime /\ stored' \in 0..MaxStores
    BY <1>1, <1>2 DEF CacheTypes, CachesTypeOK
  <2> QED
    BY <1>1, <1>2, <1>4, <1>7, <2>1, CallersAside
<1>9. AnswerIsFresh'
  BY <1>1, <1>2, GetIsFresh DEF hit
<1>10. CacheIsBounded'
  BY <1>1, <1>2, <1>4, <1>7 DEF CacheIsBounded
<1> QED
  BY <1>7, <1>8, <1>9, <1>10 DEF CachesInv

LEMMA MemorySetKeeps == ASSUME CachesInv, NEW k \in CacheKeys, MemorySet(k) PROVE CachesInv'
<1>1. CacheTypes /\ StoreIsNewest /\ CacheIsBounded /\ OneTester
  BY DEF CachesInv
<1>2. /\ backend = "memory" /\ Noted(k) /\ store' = Put(MakeRoom(k), k, FALSE)
      /\ answer' = [key |-> "none", result |-> 0]
      /\ UNCHANGED <<backend, clock, client, opened, asked, muddled, stats, gets>>
  BY DEF MemorySet, CacheRest
<1>3. Cardinality(DOMAIN store) <= MaxEntries /\ stats.hits + stats.misses = gets
  BY <1>1, <1>2 DEF CacheIsBounded
<1>4. PICK keys : /\ MakeRoom(k) = WithoutKeys(keys)
                  /\ k \in DOMAIN store => keys = {}
                  /\ k \notin DOMAIN store => Cardinality(DOMAIN MakeRoom(k)) < MaxEntries
  BY <1>1, <1>3, RoomIsMade
<1>5. store' = Put(WithoutKeys(keys), k, FALSE) /\ FALSE \in BOOLEAN
  BY <1>2, <1>4
<1>6. /\ StoreIsNewest'
      /\ DOMAIN store' \subseteq CacheKeys /\ store' \in [DOMAIN store' -> Entry]
      /\ stored' \in 0..MaxStores
      /\ k \in DOMAIN WithoutKeys(keys)
           => Cardinality(DOMAIN store') = Cardinality(DOMAIN WithoutKeys(keys))
      /\ k \notin DOMAIN WithoutKeys(keys)
           => Cardinality(DOMAIN store') = Cardinality(DOMAIN WithoutKeys(keys)) + 1
  BY <1>1, <1>2, <1>5, StoringKeeps
<1>7. /\ DOMAIN WithoutKeys(keys) = DOMAIN store \ keys
      /\ Cardinality(DOMAIN WithoutKeys(keys)) \in Nat /\ Cardinality(DOMAIN store) \in Nat
      /\ Cardinality(DOMAIN WithoutKeys(keys)) <= Cardinality(DOMAIN store)
  BY <1>1, FewerEntries
<1>8. Cardinality(DOMAIN store') <= MaxEntries
  <2>1. CASE k \in DOMAIN store
    BY <1>3, <1>4, <1>6, <1>7, <2>1, CacheLimits
  <2>2. CASE k \notin DOMAIN store
    BY <1>4, <1>6, <1>7, <2>2, CacheLimits
  <2> QED
    BY <2>1, <2>2
<1>9. CacheTypes' /\ OneTester'
  <2>1. clock' \in 0..MaxCacheTime /\ stats' \in [hits : Nat, misses : Nat] /\ gets' \in Nat
    BY <1>1, <1>2 DEF CacheTypes, CachesTypeOK
  <2> QED
    BY <1>1, <1>2, <1>6, <2>1, CallersAside
<1>10. AnswerIsFresh' /\ CacheIsBounded'
  BY <1>2, <1>3, <1>8, NothingAnswered DEF CacheIsBounded
<1> QED
  BY <1>6, <1>9, <1>10 DEF CachesInv

(* Entries dropped by a caller. *)
LEMMA DropKeeps ==
    ASSUME CachesInv, NEW keys, store' = WithoutKeys(keys), answer'.result = 0,
           newest' \in [CacheKeys -> [result : 0..MaxStores, at : 0..MaxCacheTime]],
           \A k \in CacheKeys \ keys : newest'[k] = newest[k],
           UNCHANGED <<backend, clock, client, opened, asked, muddled, stored>>,
           \/ UNCHANGED <<stats, gets>>
           \/ stats' = [hits |-> 0, misses |-> 0] /\ gets' = 0
    PROVE  CachesInv'
<1>1. CacheTypes /\ StoreIsNewest /\ CacheIsBounded /\ OneTester
  BY DEF CachesInv
<1>2. /\ StoreIsNewest' /\ DOMAIN store' \subseteq CacheKeys /\ store' \in [DOMAIN store' -> Entry]
      /\ Cardinality(DOMAIN store') <= MaxEntries \/ ~(Cardinality(DOMAIN store) <= MaxEntries)
  BY <1>1, DroppingKeeps
<1>3. stats' \in [hits : Nat, misses : Nat] /\ gets' \in Nat
      /\ clock' \in 0..MaxCacheTime /\ stored' \in 0..MaxStores
  BY <1>1 DEF CacheTypes, CachesTypeOK
<1>4. CacheTypes' /\ OneTester'
  BY <1>1, <1>2, <1>3, CallersAside
<1>5. CacheIsBounded'
  BY <1>1, <1>2 DEF CacheIsBounded
<1> QED
  BY <1>2, <1>4, <1>5, NothingAnswered DEF CachesInv

LEMMA MemoryDeleteKeeps == ASSUME CachesInv, NEW k \in CacheKeys, MemoryDelete(k) PROVE CachesInv'
<1>1. /\ store' = WithoutKeys({k})
      /\ newest' = IF IsExpired(store[k]) THEN newest ELSE [newest EXCEPT ![k] = NoStore]
      /\ answer'.result = 0
      /\ UNCHANGED <<backend, clock, client, opened, asked, muddled, stored, stats, gets>>
  BY DEF MemoryDelete, CacheRest
<1>2. newest \in [CacheKeys -> [result : 0..MaxStores, at : 0..MaxCacheTime]]
      /\ NoStore \in [result : 0..MaxStores, at : 0..MaxCacheTime]
  BY CacheLimits DEF CachesInv, StoreIsNewest, NoStore
<1>3. newest' \in [CacheKeys -> [result : 0..MaxStores, at : 0..MaxCacheTime]]
      /\ \A j \in CacheKeys \ {k} : newest'[j] = newest[j]
  BY <1>1, <1>2
<1> QED
  BY <1>1, <1>3, DropKeeps

LEMMA EmptyStore == ASSUME CacheTypes PROVE NoEntries = WithoutKeys(CacheKeys)
<1>1. DOMAIN store \ CacheKeys = {}
  BY DEF CacheTypes, CachesTypeOK
<1> QED
  BY <1>1 DEF NoEntries, WithoutKeys

LEMMA MemoryClearKeeps == ASSUME CachesInv, MemoryClear PROVE CachesInv'
<1>1. /\ store' = WithoutKeys(CacheKeys) /\ stats' = [hits |-> 0, misses |-> 0] /\ gets' = 0
      /\ newest' = [k \in CacheKeys |-> NoStore] /\ answer'.result = 0
      /\ UNCHANGED <<backend, clock, client, opened, asked, muddled, stored>>
  BY EmptyStore DEF MemoryClear, CacheRest, CachesInv
<1>2. newest' \in [CacheKeys -> [result : 0..MaxStores, at : 0..MaxCacheTime]]
      /\ \A j \in CacheKeys \ CacheKeys : newest'[j] = newest[j]
  BY <1>1, CacheLimits DEF NoStore
<1> QED
  BY <1>1, <1>2, DropKeeps

LEMMA PlainGetKeeps == ASSUME CachesInv, NEW k \in CacheKeys, PlainGet(k) PROVE CachesInv'
<1>1. CacheTypes /\ StoreIsNewest /\ CacheIsBounded /\ OneTester
  BY DEF CachesInv
<1>2. /\ backend = "plain"
      /\ answer' = [key |-> k, result |-> IF Has(k) THEN store[k].result ELSE 0]
      /\ UNCHANGED <<backend, clock, client, opened, asked, muddled, store, stored, stats, gets,
                     newest>>
  BY DEF PlainGet, CacheRest
<1>3. AnswerIsFresh'
  BY <1>1, <1>2, GetIsFresh
<1>4. CacheTypes' /\ OneTester'
  BY <1>1, <1>2, CallersAside DEF CacheTypes, CachesTypeOK
<1>5. StoreIsNewest' /\ CacheIsBounded'
  BY <1>1, <1>2 DEF StoreIsNewest, CacheIsBounded
<1> QED
  BY <1>3, <1>4, <1>5 DEF CachesInv

(* A result stored where nothing is evicted. *)
LEMMA StoreKeeps ==
    ASSUME CachesInv, NEW k \in CacheKeys, NEW forever \in BOOLEAN, Noted(k),
           store' = Put(store, k, forever), answer'.result = 0, backend # "memory",
           backend # "plain" => ~forever,
           UNCHANGED <<backend, clock, client, opened, asked, muddled, stats, gets>>
    PROVE  CachesInv'
<1>1. CacheTypes /\ StoreIsNewest /\ OneTester
  BY DEF CachesInv
<1>2. store = WithoutKeys({})
  BY <1>1 DEF WithoutKeys, CacheTypes, CachesTypeOK
<1>3. store' = Put(WithoutKeys({}), k, forever)
  BY <1>2
<1>4. /\ StoreIsNewest' /\ DOMAIN store' \subseteq CacheKeys /\ store' \in [DOMAIN store' -> Entry]
      /\ stored' \in 0..MaxStores
  BY <1>1, <1>3, StoringKeeps
<1>5. clock' \in 0..MaxCacheTime /\ stats' \in [hits : Nat, misses : Nat] /\ gets' \in Nat
  BY <1>1 DEF CacheTypes, CachesTypeOK
<1>6. CacheTypes' /\ OneTester'
  BY <1>1, <1>4, <1>5, CallersAside
<1> QED
  BY <1>4, <1>6, NothingAnswered DEF CachesInv, CacheIsBounded

LEMMA PlainSetKeeps == ASSUME CachesInv, NEW k \in CacheKeys, PlainSet(k) PROVE CachesInv'
<1>1. /\ Noted(k) /\ store' = Put(store, k, TRUE) /\ answer'.result = 0 /\ backend = "plain"
      /\ UNCHANGED <<backend, clock, client, opened, asked, muddled, stats, gets>>
  BY DEF PlainSet, CacheRest
<1> QED
  BY <1>1, StoreKeeps

LEMMA PlainInvalidateKeeps == ASSUME CachesInv, NEW keys, PlainInvalidate(keys) PROVE CachesInv'
<1>1. /\ store' = WithoutKeys(keys) /\ answer'.result = 0
      /\ newest' = [k \in CacheKeys |-> IF k \in keys THEN NoStore ELSE newest[k]]
      /\ UNCHANGED <<backend, clock, client, opened, asked, muddled, stored, stats, gets>>
  BY DEF PlainInvalidate, CacheRest
<1>2. newest' \in [CacheKeys -> [result : 0..MaxStores, at : 0..MaxCacheTime]]
      /\ \A k \in CacheKeys \ keys : newest'[k] = newest[k]
  BY <1>1, NewestForgets DEF CachesInv
<1> QED
  BY <1>1, <1>2, DropKeeps

(* The calls of Redis. *)
LEMMA AskRedisKeeps ==
    ASSUME CachesInv, NEW c \in CacheCallers, NEW k \in CacheKeys,
           NEW what \in {"get", "set", "clear"}, AskRedis(c, what, k)
    PROVE  CachesInv'
<1>1. CacheTypes /\ StoreIsNewest /\ CacheIsBounded /\ AnswerIsFresh /\ OneTester
  BY DEF CachesInv
<1>2. /\ backend = "redis" /\ asked[c] = NotAsking /\ gets' = gets + 1 /\ ~client.failed
      /\ UNCHANGED <<backend, store, clock, stored, stats, answer, newest, muddled>>
  BY DEF AskRedis
<1>3. gets \in Nat /\ asked \in [CacheCallers -> {NotAsking} \cup Question]
      /\ client \in [id : Nat, failed : BOOLEAN, closing : BOOLEAN]
      /\ opened \in [made : Nat, live : SUBSET Nat] /\ opened.live \subseteq 1..opened.made
  BY <1>1 DEF CacheTypes, CachesTypeOK
<1>4. StoreIsNewest' /\ CacheIsBounded' /\ AnswerIsFresh'
  BY <1>1, <1>2 DEF StoreIsNewest, CacheIsBounded, AnswerIsFresh, HitsAreFresh
<1>5. NotAsking.stage = "none"
  BY DEF NotAsking
<1>6. CASE client.id # 0
  <2> DEFINE q == [what |-> what, key |-> k, result |-> 0, stage |-> "asking", via |-> client.id]
  <2>1. asked' = [asked EXCEPT ![c] = q] /\ UNCHANGED <<client, opened>>
    BY <1>6 DEF AskRedis
  <2>2. q \in Question /\ q.stage = "asking"
    BY <1>3 DEF Question
  <2> HIDE DEF q
  <2>3. CacheTypes'
    BY <1>1, <1>2, <1>3, <2>1, <2>2 DEF CacheTypes, CachesTypeOK
  <2>4. Testing' = Testing
    BY <1>2, <1>3, <1>5, <2>1, <2>2 DEF Testing
  <2>5. OneTester'
    BY <1>1, <1>2, <2>1, <2>4 DEF OneTester
  <2> QED
    BY <1>4, <2>3, <2>5 DEF CachesInv
<1>7. CASE client.id = 0
  <2> DEFINE n == opened.made + 1
             q == [what |-> what, key |-> k, result |-> 0, stage |-> "testing", via |-> n]
  <2>1. /\ asked' = [asked EXCEPT ![c] = q] /\ client' = [client EXCEPT !.id = n]
        /\ opened' = [made |-> n, live |-> opened.live \cup {n}]
    BY <1>7 DEF AskRedis
  <2>2. n \in Nat \ {0} /\ opened.live \cup {n} \subseteq 1..n /\ opened.live \cup {n} \in SUBSET Nat
    BY <1>3
  <2>3. q \in Question /\ q.stage = "testing"
    BY <2>2 DEF Question
  <2> HIDE DEF q, n
  <2>4. client' \in [id : Nat, failed : BOOLEAN, closing : BOOLEAN] /\ client'.id = n /\ ~client'.failed
    BY <1>2, <1>3, <2>1, <2>2
  <2>5. opened' \in [made : Nat, live : SUBSET Nat] /\ opened'.live \subseteq 1..opened'.made
    BY <2>1, <2>2
  <2>6. asked' \in [CacheCallers -> {NotAsking} \cup Question]
    BY <1>3, <2>1, <2>3
  <2>7. CacheTypes'
    BY <1>1, <1>2, <1>3, <2>4, <2>5, <2>6 DEF CacheTypes, CachesTypeOK
  <2>8. ~muddled => Testing = {}
    BY <1>1, <1>2, <1>7 DEF OneTester
  <2>9. Testing' = Testing \cup {c}
    BY <1>3, <2>1, <2>3 DEF Testing
  <2>10. ~muddled' => Testing' = {c}
    BY <1>2, <2>8, <2>9
  <2>11. OneTester'
    BY <2>2, <2>4, <2>10 DEF OneTester
  <2> QED
    BY <1>4, <2>7, <2>11 DEF CachesInv
<1> QED
  BY <1>6, <1>7

LEMMA PingReturnsKeeps ==
    ASSUME CachesInv, NEW c \in CacheCallers, NEW ok \in BOOLEAN, PingReturns(c, ok)
    PROVE  CachesInv'
<1>1. CacheTypes /\ StoreIsNewest /\ CacheIsBounded /\ AnswerIsFresh /\ OneTester
  BY DEF CachesInv
<1> DEFINE q == IF ~ok \/ client.id = 0 THEN NotAsking
                ELSE [asked[c] EXCEPT !.stage = "asking", !.via = client.id]
<1>2. /\ asked[c].stage = "testing"
      /\ client' = IF ok THEN client ELSE [client EXCEPT !.id = 0, !.failed = TRUE]
      /\ asked' = [asked EXCEPT ![c] = q]
      /\ UNCHANGED <<backend, store, clock, stored, opened, stats, answer, gets, newest, muddled>>
  BY DEF PingReturns
<1>3. asked \in [CacheCallers -> {NotAsking} \cup Question] /\ client \in [id : Nat, failed : BOOLEAN, closing : BOOLEAN]
      /\ (backend # "redis" => \A d \in CacheCallers : asked[d] = NotAsking)
  BY <1>1 DEF CacheTypes, CachesTypeOK
<1>4. NotAsking.stage = "none"
  BY DEF NotAsking
<1>5. asked[c] \in Question /\ backend = "redis"
  BY <1>2, <1>3, <1>4
<1>6. q \in {NotAsking} \cup Question /\ q.stage # "testing"
  <2>1. CASE ~ok \/ client.id = 0
    BY <1>4, <2>1
  <2>2. CASE ok /\ client.id # 0
    BY <1>3, <1>5, <2>2 DEF Question
  <2> QED
    BY <2>1, <2>2
<1> HIDE DEF q
<1>7. client' \in [id : Nat, failed : BOOLEAN, closing : BOOLEAN] /\ (client'.failed => client'.id = 0)
  BY <1>1, <1>2, <1>3 DEF OneTester
<1>8. asked' \in [CacheCallers -> {NotAsking} \cup Question]
  BY <1>2, <1>3, <1>6
<1>9. CacheTypes'
  BY <1>1, <1>2, <1>5, <1>7, <1>8 DEF CacheTypes, CachesTypeOK
<1>10. StoreIsNewest' /\ CacheIsBounded' /\ AnswerIsFresh'
  BY <1>1, <1>2 DEF StoreIsNewest, CacheIsBounded, AnswerIsFresh, HitsAreFresh
<1>11. Testing' = Testing \ {c} /\ c \in Testing
  BY <1>2, <1>3, <1>6 DEF Testing
<1>12. OneTester'
  BY <1>1, <1>2, <1>7, <1>11 DEF OneTester
<1> QED
  BY <1>9, <1>10, <1>12 DEF CachesInv

(* A caller that has done waiting: it tested nothing. *)
LEMMA DoneAsking ==
    ASSUME CacheTypes, OneTester, NEW c \in CacheCallers, asked[c].stage = "asking",
           asked' = [asked EXCEPT ![c] = NotAsking], UNCHANGED <<backend, client, opened, muddled>>,
           clock' \in 0..MaxCacheTime, stored' \in 0..MaxStores, gets' \in Nat,
           stats' \in [hits : Nat, misses : Nat],
           DOMAIN store' \subseteq CacheKeys, store' \in [DOMAIN store' -> Entry]
    PROVE  CacheTypes' /\ OneTester' /\ backend = "redis" /\ asked[c] \in Question
<1>1. asked \in [CacheCallers -> {NotAsking} \cup Question] /\ NotAsking.stage = "none"
      /\ (backend # "redis" => \A d \in CacheCallers : asked[d] = NotAsking)
  BY DEF CacheTypes, NotAsking
<1>2. asked' \in [CacheCallers -> {NotAsking} \cup Question]
  BY <1>1
<1>3. asked[c] \in Question /\ backend = "redis"
  BY <1>1
<1>4. CacheTypes'
  BY <1>2, <1>3 DEF CacheTypes, CachesTypeOK
<1>5. Testing' = Testing
  BY <1>1 DEF Testing
<1> QED
  BY <1>3, <1>4, <1>5 DEF OneTester

(* The answer leaves the caller's question and does one of three things. *)
LEMMA RedisAnswersKeeps == ASSUME CachesInv, NEW c \in CacheCallers, RedisAnswers(c) PROVE CachesInv'
<1>1. CacheTypes /\ StoreIsNewest /\ CacheIsBounded /\ OneTester
  BY DEF CachesInv
<1> DEFINE v == asked[c]
           hit == Has(v.key) /\ ~IsExpired(store[v.key])
<1>2. /\ v.stage = "asking" /\ asked' = [asked EXCEPT ![c] = NotAsking]
      /\ UNCHANGED <<backend, clock, client, opened, muddled>>
  BY DEF RedisAnswers
<1>3. asked \in [CacheCallers -> {NotAsking} \cup Question] /\ NotAsking.stage = "none"
      /\ (backend # "redis" => \A d \in CacheCallers : asked[d] = NotAsking)
  BY <1>1 DEF CacheTypes, NotAsking
<1>4. v \in Question /\ backend = "redis"
  BY <1>2, <1>3
<1>5. v.what \in {"get", "set", "clear"} /\ v.key \in CacheKeys
  BY <1>4 DEF Question
<1>6. /\ clock' \in 0..MaxCacheTime /\ stored \in 0..MaxStores /\ gets \in Nat
      /\ stats \in [hits : Nat, misses : Nat] /\ DOMAIN store \subseteq CacheKeys
      /\ store \in [DOMAIN store -> Entry]
  BY <1>1, <1>2 DEF CacheTypes, CachesTypeOK
<1>7. CASE v.what = "get"
  <2>1. /\ answer' = [key |-> v.key, result |-> IF hit THEN store[v.key].result ELSE 0]
        /\ stats' = IF hit THEN [stats EXCEPT !.hits = @ + 1] ELSE [stats EXCEPT !.misses = @ + 1]
        /\ UNCHANGED <<store, stored, newest, gets>>
    BY <1>7 DEF RedisAnswers
  <2>2. stats' \in [hits : Nat, misses : Nat]
    BY <1>6, <2>1, CountedStats
  <2>3. AnswerIsFresh'
    BY <1>1, <1>2, <1>4, <1>5, <2>1, GetIsFresh
  <2> HIDE DEF hit, v
  <2>4. CacheTypes' /\ OneTester'
    BY <1>1, <1>2, <1>6, <2>1, <2>2, DoneAsking DEF v
  <2>5. StoreIsNewest' /\ CacheIsBounded'
    BY <1>1, <1>2, <1>4, <2>1 DEF StoreIsNewest, CacheIsBounded
  <2> QED
    BY <2>3, <2>4, <2>5 DEF CachesInv
<1>8. CASE v.what = "set"
  <2>1. /\ Noted(v.key) /\ store' = Put(store, v.key, FALSE) /\ answer'.result = 0
        /\ UNCHANGED <<stats, gets>>
    BY <1>8 DEF RedisAnswers
  <2> HIDE DEF v
  <2>2. store = WithoutKeys({})
    BY <1>6 DEF WithoutKeys
  <2>3. store' = Put(WithoutKeys({}), v.key, FALSE) /\ FALSE \in BOOLEAN
    BY <2>1, <2>2
  <2>4. /\ StoreIsNewest' /\ DOMAIN store' \subseteq CacheKeys /\ store' \in [DOMAIN store' -> Entry]
        /\ stored' \in 0..MaxStores
    BY <1>1, <1>2, <1>5, <2>1, <2>3, StoringKeeps
  <2>5. CacheTypes' /\ OneTester'
    BY <1>1, <1>2, <1>6, <2>1, <2>4, DoneAsking DEF v
  <2>6. CacheIsBounded'
    BY <1>2, <1>4 DEF CacheIsBounded
  <2> QED
    BY <2>1, <2>4, <2>5, <2>6, NothingAnswered DEF CachesInv
<1>9. CASE v.what = "clear"
  <2>1. /\ store' = NoEntries /\ stats' = [hits |-> 0, misses |-> 0]
        /\ newest' = [k \in CacheKeys |-> NoStore] /\ answer'.result = 0
        /\ UNCHANGED <<stored, gets>>
    BY <1>9 DEF RedisAnswers
  <2> HIDE DEF v
  <2>2. store' = WithoutKeys(CacheKeys)
    BY <1>1, <2>1, EmptyStore
  <2>3. newest' \in [CacheKeys -> [result : 0..MaxStores, at : 0..MaxCacheTime]]
        /\ \A j \in CacheKeys \ CacheKeys : newest'[j] = newest[j]
    BY <2>1, CacheLimits DEF NoStore
  <2>4. StoreIsNewest' /\ DOMAIN store' \subseteq CacheKeys /\ store' \in [DOMAIN store' -> Entry]
    BY <1>1, <1>2, <2>2, <2>3, DroppingKeeps
  <2>5. CacheTypes' /\ OneTester'
    BY <1>1, <1>2, <1>6, <2>1, <2>4, DoneAsking DEF v
  <2>6. CacheIsBounded'
    BY <1>2, <1>4 DEF CacheIsBounded
  <2> QED
    BY <2>1, <2>4, <2>5, <2>6, NothingAnswered DEF CachesInv
<1> QED
  BY <1>5, <1>7, <1>8, <1>9

(* A request that failed did nothing, or stored, or dropped everything. *)
LEMMA RedisFailsKeeps == ASSUME CachesInv, NEW c \in CacheCallers, RedisFails(c) PROVE CachesInv'
<1>1. CacheTypes /\ StoreIsNewest /\ CacheIsBounded /\ OneTester
  BY DEF CachesInv
<1> DEFINE v == asked[c]
<1>2. /\ v.stage = "asking" /\ asked' = [asked EXCEPT ![c] = NotAsking] /\ answer'.result = 0
      /\ UNCHANGED <<backend, clock, client, opened, stats, gets, muddled>>
  BY DEF RedisFails
<1>3. asked \in [CacheCallers -> {NotAsking} \cup Question] /\ NotAsking.stage = "none"
      /\ (backend # "redis" => \A d \in CacheCallers : asked[d] = NotAsking)
  BY <1>1 DEF CacheTypes, NotAsking
<1>4. v \in Question /\ backend = "redis"
  BY <1>2, <1>3
<1>5. v.key \in CacheKeys
  BY <1>4 DEF Question
<1>6. /\ clock' \in 0..MaxCacheTime /\ stored \in 0..MaxStores /\ gets' \in Nat
      /\ stats' \in [hits : Nat, misses : Nat] /\ DOMAIN store \subseteq CacheKeys
      /\ store \in [DOMAIN store -> Entry]
  BY <1>1, <1>2 DEF CacheTypes, CachesTypeOK
<1>7. CacheIsBounded'
  BY <1>2, <1>4 DEF CacheIsBounded
<1>8. /\ StoreIsNewest' /\ DOMAIN store' \subseteq CacheKeys /\ store' \in [DOMAIN store' -> Entry]
      /\ stored' \in 0..MaxStores
  <2>1. CASE UNCHANGED <<store, stored, newest>>
    BY <1>1, <1>2, <1>6, <2>1 DEF StoreIsNewest
  <2>2. CASE Noted(v.key) /\ store' = Put(store, v.key, FALSE)
    <3> HIDE DEF v
    <3>1. store = WithoutKeys({})
      BY <1>6 DEF WithoutKeys
    <3>2. store' = Put(WithoutKeys({}), v.key, FALSE) /\ FALSE \in BOOLEAN
      BY <2>2, <3>1
    <3> QED
      BY <1>1, <1>2, <1>5, <2>2, <3>2, StoringKeeps
  <2>3. CASE store' = NoEntries /\ newest' = [k \in CacheKeys |-> NoStore] /\ UNCHANGED stored
    <3>1. store' = WithoutKeys(CacheKeys)
      BY <1>1, <2>3, EmptyStore
    <3>2. newest' \in [CacheKeys -> [result : 0..MaxStores, at : 0..MaxCacheTime]]
          /\ \A j \in CacheKeys \ CacheKeys : newest'[j] = newest[j]
      BY <2>3, CacheLimits DEF NoStore
    <3>3. StoreIsNewest' /\ DOMAIN store' \subseteq CacheKeys /\ store' \in [DOMAIN store' -> Entry]
      BY <1>1, <1>2, <3>1, <3>2, DroppingKeeps
    <3> QED
      BY <1>6, <2>3, <3>3
  <2>4. \/ UNCHANGED <<store, stored, newest>>
        \/ Noted(v.key) /\ store' = Put(store, v.key, FALSE)
        \/ store' = NoEntries /\ newest' = [k \in CacheKeys |-> NoStore] /\ UNCHANGED stored
    BY DEF RedisFails
  <2> QED
    BY <2>1, <2>2, <2>3, <2>4
<1> HIDE DEF v
<1>9. CacheTypes' /\ OneTester'
  BY <1>1, <1>2, <1>6, <1>8, DoneAsking DEF v
<1> QED
  BY <1>2, <1>7, <1>8, <1>9, NothingAnswered DEF CachesInv

LEMMA BeginCloseKeeps == ASSUME CachesInv, BeginClose PROVE CachesInv'
<1>1. CacheTypes /\ StoreIsNewest /\ CacheIsBounded /\ AnswerIsFresh /\ OneTester
  BY DEF CachesInv
<1>2. /\ opened' = [opened EXCEPT !.live = @ \ {client.id}]
      /\ client' = [client EXCEPT !.closing = TRUE]
      /\ UNCHANGED <<backend, store, clock, stored, asked, stats, answer, gets, newest, muddled>>
  BY DEF BeginClose
<1>3. /\ client \in [id : Nat, failed : BOOLEAN, closing : BOOLEAN]
      /\ opened \in [made : Nat, live : SUBSET Nat] /\ opened.live \subseteq 1..opened.made
  BY <1>1 DEF CacheTypes, CachesTypeOK
<1>4. /\ client' \in [id : Nat, failed : BOOLEAN, closing : BOOLEAN]
      /\ client'.id = client.id /\ client'.failed = client.failed
      /\ opened' \in [made : Nat, live : SUBSET Nat] /\ opened'.live \subseteq 1..opened'.made
  BY <1>2, <1>3
<1>5. CacheTypes'
  BY <1>1, <1>2, <1>4 DEF CacheTypes, CachesTypeOK
<1>6. StoreIsNewest' /\ CacheIsBounded' /\ AnswerIsFresh'
  BY <1>1, <1>2 DEF StoreIsNewest, CacheIsBounded, AnswerIsFresh, HitsAreFresh
<1>7. Testing' = Testing
  BY <1>2 DEF Testing
<1>8. OneTester'
  BY <1>1, <1>2, <1>4, <1>7 DEF OneTester
<1> QED
  BY <1>5, <1>6, <1>8 DEF CachesInv

LEMMA EndCloseKeeps == ASSUME CachesInv, EndClose PROVE CachesInv'
<1>1. CacheTypes /\ StoreIsNewest /\ CacheIsBounded /\ AnswerIsFresh /\ OneTester
  BY DEF CachesInv
<1>2. /\ client' = [client EXCEPT !.id = 0, !.closing = FALSE]
      /\ muddled' = (muddled \/ \E c \in CacheCallers : asked[c].stage = "testing")
      /\ UNCHANGED <<backend, store, clock, stored, opened, asked, stats, answer, gets, newest>>
  BY DEF EndClose
<1>3. client \in [id : Nat, failed : BOOLEAN, closing : BOOLEAN] /\ muddled \in BOOLEAN
  BY <1>1 DEF CacheTypes, CachesTypeOK
<1>4. client' \in [id : Nat, failed : BOOLEAN, closing : BOOLEAN] /\ client'.id = 0
  BY <1>2, <1>3
<1>5. muddled' \in BOOLEAN
  BY <1>2, <1>3
<1>6. CacheTypes'
  BY <1>1, <1>2, <1>4, <1>5 DEF CacheTypes, CachesTypeOK
<1>7. StoreIsNewest' /\ CacheIsBounded' /\ AnswerIsFresh'
  BY <1>1, <1>2 DEF StoreIsNewest, CacheIsBounded, AnswerIsFresh, HitsAreFresh
<1>8. ~muddled' => Testing' = {}
  BY <1>2 DEF Testing
<1>9. OneTester'
  BY <1>4, <1>8 DEF OneTester
<1> QED
  BY <1>6, <1>7, <1>9 DEF CachesInv

LEMMA CacheTickKeeps == ASSUME CachesInv, CacheTick PROVE CachesInv'
<1>1. CacheTypes /\ StoreIsNewest /\ CacheIsBounded /\ OneTester
  BY DEF CachesInv
<1>2. /\ clock < MaxCacheTime /\ clock' = clock + 1 /\ answer'.result = 0
      /\ UNCHANGED <<backend, store, stored, client, opened, asked, stats, gets, newest, muddled>>
  BY DEF CacheTick
<1>3. clock' \in 0..MaxCacheTime
  BY <1>1, <1>2, CacheLimits DEF CacheTypes, CachesTypeOK
<1>4. /\ stored' \in 0..MaxStores /\ gets' \in Nat /\ stats' \in [hits : Nat, misses : Nat]
      /\ DOMAIN store' \subseteq CacheKeys /\ store' \in [DOMAIN store' -> Entry]
  BY <1>1, <1>2 DEF CacheTypes, CachesTypeOK
<1>5. CacheTypes' /\ OneTester'
  BY <1>1, <1>2, <1>3, <1>4, CallersAside
<1>6. StoreIsNewest' /\ CacheIsBounded'
  BY <1>1, <1>2 DEF StoreIsNewest, CacheIsBounded
<1> QED
  BY <1>2, <1>5, <1>6, NothingAnswered DEF CachesInv

LEMMA CachesStutter == ASSUME CachesInv, UNCHANGED cacheVars PROVE CachesInv'
<1>1. UNCHANGED <<backend, store, clock, stored, client, opened, asked, stats, answer, gets, newest,
                  muddled>>
  BY DEF cacheVars
<1>2. CacheTypes'
  BY <1>1 DEF CachesInv, CacheTypes, CachesTypeOK
<1>3. StoreIsNewest' /\ CacheIsBounded' /\ AnswerIsFresh'
  BY <1>1 DEF CachesInv, StoreIsNewest, CacheIsBounded, AnswerIsFresh, HitsAreFresh
<1>4. OneTester'
  BY <1>1 DEF CachesInv, OneTester, Testing
<1> QED
  BY <1>2, <1>3, <1>4 DEF CachesInv

LEMMA CachesStep == CachesInv /\ (CachesNext \/ UNCHANGED cacheVars) => CachesInv'
<1> SUFFICES ASSUME CachesInv, CachesNext \/ UNCHANGED cacheVars PROVE CachesInv'
  OBVIOUS
<1>1. CASE UNCHANGED cacheVars
  BY <1>1, CachesStutter
<1>2. CASE \E k \in CacheKeys : MemoryGet(k) \/ MemorySet(k) \/ MemoryDelete(k)
                                \/ PlainGet(k) \/ PlainSet(k)
  BY <1>2, MemoryGetKeeps, MemorySetKeeps, MemoryDeleteKeeps, PlainGetKeeps, PlainSetKeeps
<1>3. CASE MemoryClear \/ (\E keys \in SUBSET CacheKeys : PlainInvalidate(keys))
  BY <1>3, MemoryClearKeeps, PlainInvalidateKeeps
<1>4. CASE \E c \in CacheCallers, k \in CacheKeys, what \in {"get", "set", "clear"} : AskRedis(c, what, k)
  BY <1>4, AskRedisKeeps
<1>5. CASE \E c \in CacheCallers : (\E ok \in BOOLEAN : PingReturns(c, ok)) \/ RedisAnswers(c)
                                   \/ RedisFails(c)
  BY <1>5, PingReturnsKeeps, RedisAnswersKeeps, RedisFailsKeeps
<1>6. CASE BeginClose \/ EndClose \/ CacheTick
  BY <1>6, BeginCloseKeeps, EndCloseKeeps, CacheTickKeeps
<1> QED
  BY <1>1, <1>2, <1>3, <1>4, <1>5, <1>6 DEF CachesNext

LEMMA CachesAreRight == CachesInv => CachesTypeOK /\ CacheIsBounded /\ HitsAreFresh /\ OneRedisClient
<1> SUFFICES ASSUME CachesInv PROVE CachesTypeOK /\ CacheIsBounded /\ HitsAreFresh /\ OneRedisClient
  OBVIOUS
<1>1. CachesTypeOK /\ CacheIsBounded
  BY DEF CachesInv, CacheTypes
<1>2. HitsAreFresh
  BY DEF CachesInv, AnswerIsFresh, HitsAreFresh
<1>3. OneRedisClient
  <2>1. client.failed => client.id = 0
    BY DEF CachesInv, OneTester
  <2>2. ~muddled => ~(Cardinality(Testing) > 1)
    <3>1. SUFFICES ASSUME ~muddled PROVE ~(Cardinality(Testing) > 1)
      OBVIOUS
    <3>2. \A c, d \in Testing : c = d
      BY <3>1 DEF CachesInv, OneTester
    <3>3. CASE Testing = {}
      <4>1. Cardinality({}) = 0
        BY FS_EmptySet
      <4> QED
        BY <3>3, <4>1
    <3>4. CASE \E c \in Testing : TRUE
      <4>1. PICK c \in Testing : TRUE
        BY <3>4
      <4>2. Testing = {c}
        BY <3>2, <4>1
      <4>3. Cardinality({c}) = 1
        BY FS_Singleton
      <4> QED
        BY <4>2, <4>3
    <3> QED
      BY <3>3, <3>4
  <2> QED
    BY <2>1, <2>2 DEF OneRedisClient, Testing
<1> QED
  BY <1>1, <1>2, <1>3
-----------------------------------------------------------------------------
(* Terminal sessions (api/terminal_sessions.py): there are finitely many,   *)
(* and those that are closed stay closed.                                   *)

TermsInv ==
    /\ TerminalTypeOK
    /\ IsFiniteSet({t \in TermIds : terms[t] # NoTerm})
    /\ TerminalLimits

LEMMA TermsStart == TerminalInit => TermsInv
<1> SUFFICES ASSUME TerminalInit PROVE TermsInv
  OBVIOUS
<1>1. /\ terms = [t \in TermIds |-> NoTerm] /\ termLocks = {} /\ gone = {}
      /\ idleFor = [t \in TermIds |-> 0]
  BY DEF TerminalInit
<1>2. /\ "none" \notin TermUsers /\ "none" \notin TermProjects /\ UserLimit \in Nat /\ ProjectLimit \in Nat
      /\ MaxIdle \in Nat
  BY TerminalAssumption
<1>3. TerminalTypeOK
  BY <1>1, <1>2 DEF TerminalTypeOK
<1>4. {t \in TermIds : terms[t] # NoTerm} = {}
  BY <1>1
<1>5. \A u \in TermUsers : TermsOf(u) = {}
  BY <1>1, <1>2 DEF TermsOf, NoTerm
<1>6. \A p \in TermProjects : TermsIn(p) = {}
  BY <1>1, <1>2 DEF TermsIn, NoTerm
<1>7. IsFiniteSet({}) /\ Cardinality({}) = 0
  BY FS_EmptySet
<1>8. TerminalLimits
  <2>1. \A u \in TermUsers : Cardinality(TermsOf(u)) = 0
    BY <1>5, <1>7
  <2>2. \A p \in TermProjects : Cardinality(TermsIn(p)) = 0
    BY <1>6, <1>7
  <2> QED
    BY <1>1, <1>2, <2>1, <2>2 DEF TerminalLimits
<1> QED
  BY <1>3, <1>4, <1>7, <1>8 DEF TermsInv

(* A step that creates no session. *)
LEMMA NoTermIsMade ==
    ASSUME TermsInv, TerminalTypeOK',
           \A t \in TermIds : /\ terms'[t] = NoTerm \/ (/\ terms[t] # NoTerm
                                                        /\ terms'[t].user = terms[t].user
                                                        /\ terms'[t].project = terms[t].project)
                              /\ t \in gone' => terms'[t] = NoTerm
    PROVE  TermsInv'
<1>1. "none" \notin TermUsers /\ "none" \notin TermProjects /\ UserLimit \in Nat /\ ProjectLimit \in Nat
  BY TerminalAssumption
<1>2. IsFiniteSet({t \in TermIds : terms[t] # NoTerm}) /\ TerminalLimits
  BY DEF TermsInv
<1>3. {t \in TermIds : terms'[t] # NoTerm} \subseteq {t \in TermIds : terms[t] # NoTerm}
  OBVIOUS
<1>4. IsFiniteSet({t \in TermIds : terms'[t] # NoTerm})
  BY <1>2, <1>3, FS_Subset
<1>5. ASSUME NEW u \in TermUsers PROVE Cardinality(TermsOf(u)') <= UserLimit
  <2>1. TermsOf(u)' \subseteq TermsOf(u)
    BY <1>1 DEF TermsOf, NoTerm
  <2>2. TermsOf(u) \subseteq {t \in TermIds : terms[t] # NoTerm}
    BY <1>1 DEF TermsOf, NoTerm
  <2>3. IsFiniteSet(TermsOf(u)) /\ Cardinality(TermsOf(u)) <= UserLimit
    BY <1>2, <2>2, FS_Subset DEF TerminalLimits
  <2>4. IsFiniteSet(TermsOf(u)') /\ Cardinality(TermsOf(u)') <= Cardinality(TermsOf(u))
    BY <2>1, <2>3, FS_Subset
  <2>5. Cardinality(TermsOf(u)) \in Nat /\ Cardinality(TermsOf(u)') \in Nat
    BY <2>3, <2>4, FS_CardinalityType
  <2> QED
    BY <1>1, <2>3, <2>4, <2>5
<1>6. ASSUME NEW p \in TermProjects PROVE Cardinality(TermsIn(p)') <= ProjectLimit
  <2>1. TermsIn(p)' \subseteq TermsIn(p)
    BY <1>1 DEF TermsIn, NoTerm
  <2>2. TermsIn(p) \subseteq {t \in TermIds : terms[t] # NoTerm}
    BY <1>1 DEF TermsIn, NoTerm
  <2>3. IsFiniteSet(TermsIn(p)) /\ Cardinality(TermsIn(p)) <= ProjectLimit
    BY <1>2, <2>2, FS_Subset DEF TerminalLimits
  <2>4. IsFiniteSet(TermsIn(p)') /\ Cardinality(TermsIn(p)') <= Cardinality(TermsIn(p))
    BY <2>1, <2>3, FS_Subset
  <2>5. Cardinality(TermsIn(p)) \in Nat /\ Cardinality(TermsIn(p)') \in Nat
    BY <2>3, <2>4, FS_CardinalityType
  <2> QED
    BY <1>1, <2>3, <2>4, <2>5
<1>7. \A t \in gone' : terms'[t] = NoTerm
  BY DEF TerminalTypeOK
<1> QED
  BY <1>4, <1>5, <1>6, <1>7 DEF TermsInv, TerminalLimits

LEMMA CreateTermKeeps ==
    ASSUME TermsInv, NEW t \in TermIds, NEW u \in TermUsers, NEW p \in TermProjects, CreateTerm(t, u, p)
    PROVE  TermsInv'
<1> DEFINE new == [user |-> u, project |-> p, status |-> "created"]
<1>1. "none" \notin TermUsers /\ "none" \notin TermProjects /\ UserLimit \in Nat /\ ProjectLimit \in Nat
      /\ MaxIdle \in Nat
  BY TerminalAssumption
<1>2. TerminalTypeOK /\ IsFiniteSet({x \in TermIds : terms[x] # NoTerm}) /\ TerminalLimits
  BY DEF TermsInv
<1>3. /\ terms[t] = NoTerm /\ t \notin gone /\ terms' = [terms EXCEPT ![t] = new]
      /\ Cardinality(TermsOf(u)) < UserLimit /\ Cardinality(TermsIn(p)) < ProjectLimit
      /\ idleFor' = [idleFor EXCEPT ![t] = 0] /\ UNCHANGED <<termLocks, gone>>
  BY DEF CreateTerm, Active
<1>4. TerminalTypeOK'
  BY <1>1, <1>2, <1>3 DEF TerminalTypeOK
<1>5. new.user = u /\ new.project = p /\ new # NoTerm
  BY <1>1 DEF NoTerm
<1> HIDE DEF new
<1>6. terms'[t] = new /\ \A x \in TermIds : x # t => terms'[x] = terms[x]
  BY <1>2, <1>3 DEF TerminalTypeOK
<1>7. {x \in TermIds : terms'[x] # NoTerm} = {x \in TermIds : terms[x] # NoTerm} \cup {t}
  BY <1>5, <1>6
<1>8. IsFiniteSet({x \in TermIds : terms'[x] # NoTerm})
  BY <1>2, <1>7, FS_AddElement
<1>9. ASSUME NEW v \in TermUsers PROVE Cardinality(TermsOf(v)') <= UserLimit
  <2>1. CASE v # u
    <3>1. TermsOf(v)' = TermsOf(v)
      BY <1>1, <1>3, <1>5, <1>6, <2>1 DEF TermsOf, NoTerm
    <3> QED
      BY <1>2, <3>1 DEF TerminalLimits
  <2>2. CASE v = u
    <3>1. TermsOf(u)' = TermsOf(u) \cup {t} /\ TermsOf(u) \subseteq {x \in TermIds : terms[x] # NoTerm}
      BY <1>1, <1>5, <1>6 DEF TermsOf, NoTerm
    <3>2. IsFiniteSet(TermsOf(u)) /\ t \notin TermsOf(u)
      BY <1>1, <1>2, <1>3, <3>1, FS_Subset DEF TermsOf, NoTerm
    <3>3. Cardinality(TermsOf(u) \cup {t}) = Cardinality(TermsOf(u)) + 1 /\ Cardinality(TermsOf(u)) \in Nat
      BY <3>2, FS_AddElement, FS_CardinalityType
    <3> QED
      BY <1>1, <1>3, <2>2, <3>1, <3>3
  <2> QED
    BY <2>1, <2>2
<1>10. ASSUME NEW q \in TermProjects PROVE Cardinality(TermsIn(q)') <= ProjectLimit
  <2>1. CASE q # p
    <3>1. TermsIn(q)' = TermsIn(q)
      BY <1>1, <1>3, <1>5, <1>6, <2>1 DEF TermsIn, NoTerm
    <3> QED
      BY <1>2, <3>1 DEF TerminalLimits
  <2>2. CASE q = p
    <3>1. TermsIn(p)' = TermsIn(p) \cup {t} /\ TermsIn(p) \subseteq {x \in TermIds : terms[x] # NoTerm}
      BY <1>1, <1>5, <1>6 DEF TermsIn, NoTerm
    <3>2. IsFiniteSet(TermsIn(p)) /\ t \notin TermsIn(p)
      BY <1>1, <1>2, <1>3, <3>1, FS_Subset DEF TermsIn, NoTerm
    <3>3. Cardinality(TermsIn(p) \cup {t}) = Cardinality(TermsIn(p)) + 1 /\ Cardinality(TermsIn(p)) \in Nat
      BY <3>2, FS_AddElement, FS_CardinalityType
    <3> QED
      BY <1>1, <1>3, <2>2, <3>1, <3>3
  <2> QED
    BY <2>1, <2>2
<1>11. \A x \in gone' : terms'[x] = NoTerm
  BY <1>2, <1>3, <1>6 DEF TerminalTypeOK, TerminalLimits
<1> QED
  BY <1>4, <1>8, <1>9, <1>10, <1>11 DEF TermsInv, TerminalLimits

LEMMA TermsStep == TermsInv /\ (TerminalNext \/ UNCHANGED termVars) => TermsInv'
<1> SUFFICES ASSUME TermsInv, TerminalNext \/ UNCHANGED termVars PROVE TermsInv'
  OBVIOUS
<1>1. TerminalTypeOK /\ (\A t \in gone : terms[t] = NoTerm) /\ MaxIdle \in Nat
  BY TerminalAssumption DEF TermsInv, TerminalLimits
<1>2. NoTerm.status = "none"
  BY DEF NoTerm
<1>3. ASSUME NEW t \in TermIds, CloseTerm(t) PROVE TermsInv'
  <2>1. /\ terms' = [terms EXCEPT ![t] = NoTerm] /\ termLocks' = termLocks \ {t} /\ gone' = gone \cup {t}
        /\ UNCHANGED <<idleFor>>
    BY <1>3 DEF CloseTerm
  <2>2. TerminalTypeOK'
    BY <1>1, <2>1 DEF TerminalTypeOK
  <2> QED
    BY <1>1, <2>1, <2>2, NoTermIsMade DEF TerminalTypeOK
<1>4. ASSUME NEW t \in TermIds, Attach(t) \/ Detach(t) \/ UpdateActivity(t) PROVE TermsInv'
  <2>1. CASE /\ terms[t] # NoTerm /\ UNCHANGED <<gone>>
             /\ (SetTerm(t, "attached") \/ SetTerm(t, "detached")) /\ Active(t)
             /\ termLocks' = termLocks \cup {t}
    <3>1. PICK new \in {"attached", "detached"} : terms' = [terms EXCEPT ![t].status = new]
      BY <2>1 DEF SetTerm
    <3>2. terms[t] \in [user : TermUsers, project : TermProjects,
                        status : {"created", "attached", "detached"}]
      BY <1>1, <2>1 DEF TerminalTypeOK
    <3>3. [terms[t] EXCEPT !.status = new] \in
             [user : TermUsers, project : TermProjects, status : {"created", "attached", "detached"}]
      BY <3>2
    <3>4. terms' \in [TermIds -> {NoTerm} \cup [user : TermUsers, project : TermProjects,
                    status : {"created", "attached", "detached"}]]
      BY <1>1, <3>1, <3>3 DEF TerminalTypeOK
    <3>5. idleFor' \in [TermIds -> 0..MaxIdle]
      BY <1>1, <2>1 DEF TerminalTypeOK, Active
    <3>6. TerminalTypeOK'
      BY <1>1, <2>1, <3>4, <3>5 DEF TerminalTypeOK
    <3>7. /\ terms'[t].user = terms[t].user /\ terms'[t].project = terms[t].project
          /\ \A x \in TermIds : x # t => terms'[x] = terms[x]
      BY <1>1, <3>1, <3>2 DEF TerminalTypeOK
    <3> QED
      BY <1>1, <2>1, <3>6, <3>7, NoTermIsMade
  <2>2. CASE UNCHANGED <<terms, gone>> /\ (UNCHANGED idleFor \/ Active(t))
             /\ (UNCHANGED termLocks \/ termLocks' = termLocks \cup {t})
    <3>1. TerminalTypeOK'
      BY <1>1, <2>2 DEF TerminalTypeOK, Active
    <3> QED
      BY <1>1, <2>2, <3>1, NoTermIsMade
  <2>3. Attach(t) => \/ terms[t].status \in {"created", "detached"}
                     \/ ~(terms[t].status \in {"created", "detached"})
    OBVIOUS
  <2>4. terms[t].status \in {"created", "detached"} => terms[t] # NoTerm
    BY <1>2
  <2> QED
    BY <1>4, <2>1, <2>2, <2>4 DEF Attach, Detach, UpdateActivity
<1>5. CASE TermTimePasses \/ UNCHANGED termVars
  <2>1. UNCHANGED <<terms, termLocks, gone>>
    BY <1>5 DEF TermTimePasses, termVars
  <2>2. idleFor' \in [TermIds -> 0..MaxIdle]
    BY <1>1, <1>5 DEF TermTimePasses, termVars, TerminalTypeOK
  <2>4. TerminalTypeOK'
    BY <1>1, <2>1, <2>2 DEF TerminalTypeOK
  <2> QED
    BY <1>1, <2>1, <2>4, NoTermIsMade
<1> QED
  BY <1>3, <1>4, <1>5, CreateTermKeeps DEF TerminalNext, FindExpired

-----------------------------------------------------------------------------
(* Rate limits (auth/): what the limit let through within the last window   *)
(* is still counted.                                                        *)

RatesInv ==
    /\ AuthTypeOK
    /\ IsFiniteSet(allowed) /\ counters \subseteq allowed
    /\ \A e \in allowed : e[1] <= now /\ (e[1] > now - RateWindow => e \in counters)
    /\ NoWindowOverflows

LEMMA AuthNumbers ==
    /\ "none" \notin Accounts /\ SessionTTL \in Nat /\ MaxTime \in Nat
    /\ RateWindow \in Nat \ {0} /\ RateLimit \in Nat \ {0}
BY AuthAssumption

LEMMA AuthTypesStart == AuthInit => AuthTypeOK
BY AuthNumbers DEF AuthInit, AuthTypeOK

LEMMA RatesStart == AuthInit => RatesInv
<1> SUFFICES ASSUME AuthInit PROVE RatesInv
  OBVIOUS
<1>1. allowed = {} /\ counters = {} /\ now = 0
  BY DEF AuthInit
<1>2. IsFiniteSet({}) /\ Cardinality({}) = 0
  BY FS_EmptySet
<1>3. ASSUME NEW start \in 0..MaxTime
      PROVE  Cardinality({e \in allowed : e[1] >= start /\ e[1] < start + RateWindow}) <= RateLimit
  <2>1. {e \in allowed : e[1] >= start /\ e[1] < start + RateWindow} = {}
    BY <1>1
  <2>2. 0 <= RateLimit
    BY AuthNumbers
  <2> QED
    BY <1>2, <2>1, <2>2
<1> QED
  BY <1>1, <1>2, <1>3, AuthTypesStart DEF RatesInv, NoWindowOverflows

LEMMA TimeKeepsTypes == ASSUME AuthTypeOK, TimePasses PROVE AuthTypeOK'
<1>1. now < MaxTime /\ now' = now + 1
      /\ UNCHANGED <<users, sessions, registering, counters, allowed, kept, overtaken>>
  BY DEF TimePasses
<1>2. now' \in 0..MaxTime
  BY <1>1, AuthNumbers DEF AuthTypeOK
<1> QED
  BY <1>1, <1>2 DEF AuthTypeOK

LEMMA RestartKeepsTypes == ASSUME AuthTypeOK, ServerRestarts PROVE AuthTypeOK'
BY DEF AuthTypeOK, ServerRestarts

LEMMA LimitedRequestKeeps == ASSUME RatesInv, LimitedRequest PROVE RatesInv'
<1> DEFINE entry == <<now, Cardinality({e \in allowed : e[1] = now})>>
<1>1. /\ AuthTypeOK /\ IsFiniteSet(allowed) /\ counters \subseteq allowed /\ NoWindowOverflows
      /\ \A e \in allowed : e[1] <= now /\ (e[1] > now - RateWindow => e \in counters)
  BY DEF RatesInv
<1>2. now \in 0..MaxTime /\ allowed \subseteq (0..MaxTime) \X Nat
  BY <1>1 DEF AuthTypeOK
<1>3. /\ UNCHANGED <<now, users, sessions, registering, kept, overtaken>>
      /\ \/ /\ Cardinality(RecentRequests) >= RateLimit
            /\ counters' = RecentRequests /\ UNCHANGED allowed
         \/ /\ ~(Cardinality(RecentRequests) >= RateLimit)
            /\ counters' = RecentRequests \cup {entry} /\ allowed' = allowed \cup {entry}
  BY DEF LimitedRequest
<1>4. Cardinality({e \in allowed : e[1] = now}) \in Nat
  BY <1>1, FS_Subset, FS_CardinalityType
<1>5. entry \in (0..MaxTime) \X Nat /\ entry[1] = now
  BY <1>2, <1>4
<1> HIDE DEF entry
<1>6. RecentRequests \subseteq counters /\ IsFiniteSet(RecentRequests)
      /\ Cardinality(RecentRequests) \in Nat
  BY <1>1, FS_Subset, FS_CardinalityType DEF RecentRequests
<1>7. AuthTypeOK'
  BY <1>1, <1>2, <1>3, <1>5, <1>6 DEF AuthTypeOK
<1>8. IsFiniteSet(allowed') /\ counters' \subseteq allowed'
  BY <1>1, <1>3, <1>6, FS_AddElement
<1>9. \A e \in allowed' : e[1] <= now' /\ (e[1] > now' - RateWindow => e \in counters')
  <2> SUFFICES ASSUME NEW e \in allowed' PROVE e[1] <= now /\ (e[1] > now - RateWindow => e \in counters')
    BY <1>3
  <2>1. CASE e \in allowed
    BY <1>1, <1>3, <2>1 DEF RecentRequests
  <2>2. CASE e \notin allowed
    <3>1. e = entry /\ entry \in counters'
      BY <1>3, <2>2
    <3> QED
      BY <1>2, <1>5, <3>1
  <2> QED
    BY <2>1, <2>2
<1>10. ASSUME NEW start \in 0..MaxTime
       PROVE  Cardinality({e \in allowed' : e[1] >= start /\ e[1] < start + RateWindow}) <= RateLimit
  <2> DEFINE W == {e \in allowed : e[1] >= start /\ e[1] < start + RateWindow}
             W2 == {e \in allowed' : e[1] >= start /\ e[1] < start + RateWindow}
  <2>1. Cardinality(W) <= RateLimit
    BY <1>1 DEF NoWindowOverflows
  <2>2. CASE W2 = W
    BY <2>1, <2>2
  <2>3. CASE W2 # W
    <3>1. /\ ~(Cardinality(RecentRequests) >= RateLimit) /\ allowed' = allowed \cup {entry}
          /\ start <= now /\ now < start + RateWindow
      <4>1. PICK e : ~(e \in W2 <=> e \in W)
        BY <2>3
      <4>2. e \in allowed' /\ e \notin allowed /\ e[1] >= start /\ e[1] < start + RateWindow
        BY <1>3, <4>1
      <4>3. e = entry /\ allowed' = allowed \cup {entry} /\ ~(Cardinality(RecentRequests) >= RateLimit)
        BY <1>3, <4>2
      <4> QED
        BY <1>2, <1>5, <4>2, <4>3
    <3>2. W \subseteq RecentRequests
      <4> SUFFICES ASSUME NEW e \in W PROVE e \in RecentRequests
        OBVIOUS
      <4>1. e \in allowed /\ e[1] >= start /\ e[1] \in Int
        BY <1>2
      <4>2. e[1] > now - RateWindow
        BY <1>2, <3>1, <4>1, AuthNumbers
      <4> QED
        BY <1>1, <4>1, <4>2 DEF RecentRequests
    <3>3. IsFiniteSet(W) /\ Cardinality(W) <= Cardinality(RecentRequests) /\ Cardinality(W) \in Nat
      BY <1>6, <3>2, FS_Subset, FS_CardinalityType
    <3>4. W2 \subseteq W \cup {entry}
      BY <3>1
    <3>5. IsFiniteSet(W \cup {entry}) /\ Cardinality(W \cup {entry}) <= Cardinality(W) + 1
      <4>1. /\ IsFiniteSet(W \cup {entry})
            /\ Cardinality(W \cup {entry}) = IF entry \in W THEN Cardinality(W) ELSE Cardinality(W) + 1
        BY <3>3, FS_AddElement
      <4> QED
        BY <3>3, <4>1
    <3>6. IsFiniteSet(W2) /\ Cardinality(W2) <= Cardinality(W \cup {entry})
          /\ Cardinality(W2) \in Nat /\ Cardinality(W \cup {entry}) \in Nat
      BY <3>4, <3>5, FS_Subset, FS_CardinalityType
    <3> HIDE DEF W, W2
    <3>7. Cardinality(RecentRequests) < RateLimit
      BY <1>6, <3>1, AuthNumbers
    <3>8. Cardinality(W2) <= RateLimit
      BY <1>6, <3>3, <3>5, <3>6, <3>7, AuthNumbers
    <3> QED
      BY <3>8 DEF W2
  <2> QED
    BY <2>2, <2>3
<1> QED
  BY <1>7, <1>8, <1>9, <1>10 DEF RatesInv, NoWindowOverflows

LEMMA RatesStep == RatesInv /\ (RateNext \/ UNCHANGED authVars) => RatesInv'
<1> SUFFICES ASSUME RatesInv, RateNext \/ UNCHANGED authVars PROVE RatesInv'
  OBVIOUS
<1>1. /\ AuthTypeOK /\ IsFiniteSet(allowed) /\ counters \subseteq allowed /\ NoWindowOverflows
      /\ \A e \in allowed : e[1] <= now /\ (e[1] > now - RateWindow => e \in counters)
  BY DEF RatesInv
<1>2. CASE ServerRestarts
  <2>1. counters' = {} /\ allowed' = {}
    BY <1>2 DEF ServerRestarts
  <2>2. IsFiniteSet({}) /\ Cardinality({}) = 0 /\ 0 <= RateLimit
    BY FS_EmptySet, AuthNumbers
  <2>3. \A start : {e \in allowed' : e[1] >= start /\ e[1] < start + RateWindow} = {}
    BY <2>1
  <2>4. NoWindowOverflows'
    BY <2>2, <2>3 DEF NoWindowOverflows
  <2> QED
    BY <1>1, <1>2, <2>1, <2>2, <2>4, RestartKeepsTypes DEF RatesInv
<1>3. CASE TimePasses
  <2>1. now' = now + 1 /\ now \in Nat /\ UNCHANGED <<counters, allowed>>
        /\ allowed \subseteq (0..MaxTime) \X Nat
    BY <1>1, <1>3, AuthNumbers DEF TimePasses, AuthTypeOK
  <2>2. \A e \in allowed : e[1] \in Nat
    BY <2>1
  <2>3. \A e \in allowed : e[1] <= now + 1 /\ (e[1] > (now + 1) - RateWindow => e \in counters)
    BY <1>1, <2>1, <2>2, AuthNumbers
  <2>4. NoWindowOverflows'
    BY <1>1, <2>1 DEF NoWindowOverflows
  <2> QED
    BY <1>1, <1>3, <2>1, <2>3, <2>4, TimeKeepsTypes DEF RatesInv
<1>4. CASE UNCHANGED authVars
  BY <1>1, <1>4 DEF RatesInv, AuthTypeOK, NoWindowOverflows, authVars
<1> QED
  BY <1>2, <1>3, <1>4, LimitedRequestKeeps DEF RateNext

-----------------------------------------------------------------------------
(* Sessions of accounts (auth/): an account has one session unless a delete *)
(* failed or its login overtook its registration, and none before that is   *)
(* over.                                                                    *)

AccountsInv ==
    /\ AuthTypeOK
    /\ \A a \in Accounts : a \in registering \ overtaken => Of(a) = {}
    /\ \A a \in Accounts \ (kept \cup overtaken) : \A s, t \in Of(a) : s = t

LEMMA AccountsStart == AuthInit => AccountsInv
<1> SUFFICES ASSUME AuthInit PROVE AccountsInv
  OBVIOUS
<1>1. registering = {} /\ sessions = [s \in SessionIds |-> NoSession]
  BY DEF AuthInit
<1>2. \A a \in Accounts : Of(a) = {}
  BY <1>1, AuthNumbers DEF Of, NoSession
<1> QED
  BY <1>1, <1>2, AuthTypesStart DEF AccountsInv

LEMMA OfOthers ==
    ASSUME NEW a, \A s \in SessionIds : (sessions'[s].user = a) <=> (sessions[s].user = a)
    PROVE  Of(a)' = Of(a)
BY DEF Of

LEMMA RegisterUserKeeps == ASSUME AccountsInv, NEW b \in Accounts, RegisterUser(b) PROVE AccountsInv'
<1>1. /\ AuthTypeOK
      /\ \A a \in Accounts : a \in registering \ overtaken => Of(a) = {}
      /\ \A a \in Accounts \ (kept \cup overtaken) : \A s, t \in Of(a) : s = t
  BY DEF AccountsInv
<1>2. /\ b \notin users /\ users' = users \cup {b} /\ registering' = registering \cup {b}
      /\ UNCHANGED <<now, sessions, counters, allowed, kept, overtaken>>
  BY DEF RegisterUser
<1>3. sessions \in [SessionIds -> {NoSession} \cup
          [user : users, expires : 0..(MaxTime + SessionTTL), revoked : BOOLEAN]]
  BY <1>1 DEF AuthTypeOK
<1>4. AuthTypeOK'
  BY <1>1, <1>2 DEF AuthTypeOK
<1>5. Of(b) = {}
  <2> SUFFICES ASSUME NEW s \in Of(b) PROVE FALSE
    OBVIOUS
  <2>1. s \in SessionIds /\ sessions[s].user = b
    BY DEF Of
  <2>2. b # NoSession.user
    BY AuthNumbers DEF NoSession
  <2> QED
    BY <1>2, <1>3, <2>1, <2>2
<1>6. \A a : Of(a)' = Of(a)
  BY <1>2 DEF Of
<1> QED
  BY <1>1, <1>2, <1>4, <1>5, <1>6 DEF AccountsInv

LEMMA NewSessionIs ==
    ASSUME AuthTypeOK, NEW a \in users
    PROVE  /\ NewSession(a) \in [user : users, expires : 0..(MaxTime + SessionTTL), revoked : BOOLEAN]
           /\ NewSession(a).user = a
<1>1. now + SessionTTL \in 0..(MaxTime + SessionTTL)
  BY AuthNumbers DEF AuthTypeOK
<1> QED
  BY <1>1 DEF NewSession

LEMMA RegisterSessionKeeps ==
    ASSUME AccountsInv, NEW b \in Accounts, NEW s \in SessionIds, RegisterSession(b, s)
    PROVE  AccountsInv'
<1>1. /\ AuthTypeOK
      /\ \A a \in Accounts : a \in registering \ overtaken => Of(a) = {}
      /\ \A a \in Accounts \ (kept \cup overtaken) : \A x, t \in Of(a) : x = t
  BY DEF AccountsInv
<1>2. /\ b \in registering /\ sessions[s] = NoSession /\ registering' = registering \ {b}
      /\ sessions' = sessions \/ sessions' = [sessions EXCEPT ![s] = NewSession(b)]
      /\ UNCHANGED <<now, users, counters, allowed, kept, overtaken>>
  BY DEF RegisterSession, Unused
<1>3. b \in users
  BY <1>1, <1>2 DEF AuthTypeOK
<1>4. /\ NewSession(b) \in [user : users, expires : 0..(MaxTime + SessionTTL), revoked : BOOLEAN]
      /\ NewSession(b).user = b
  BY <1>1, <1>3, NewSessionIs
<1>5. AuthTypeOK'
  BY <1>1, <1>2, <1>4 DEF AuthTypeOK
<1>6. sessions \in [SessionIds -> {NoSession} \cup
          [user : users, expires : 0..(MaxTime + SessionTTL), revoked : BOOLEAN]]
  BY <1>1 DEF AuthTypeOK
<1>7. NoSession.user = "none"
  BY DEF NoSession
<1>8. \A a \in Accounts \ {b} : Of(a)' = Of(a)
  BY <1>2, <1>4, <1>6, <1>7, AuthNumbers DEF Of
<1>9. Of(b)' \subseteq Of(b) \cup {s}
  BY <1>2, <1>6 DEF Of
<1>10. ASSUME NEW a \in Accounts \ (kept \cup overtaken), NEW x \in Of(a)', NEW y \in Of(a)' PROVE x = y
  <2>1. CASE a # b
    BY <1>1, <1>8, <2>1
  <2>2. CASE a = b
    <3>1. Of(b) = {}
      BY <1>1, <1>2, <2>2
    <3> QED
      BY <1>9, <2>2, <3>1
  <2> QED
    BY <2>1, <2>2
<1> QED
  BY <1>1, <1>2, <1>5, <1>8, <1>10 DEF AccountsInv

LEMMA LoginKeeps ==
    ASSUME AccountsInv, NEW b \in Accounts, NEW s \in SessionIds, Login(b, s)
    PROVE  AccountsInv'
<1>1. /\ AuthTypeOK
      /\ \A a \in Accounts : a \in registering \ overtaken => Of(a) = {}
      /\ \A a \in Accounts \ (kept \cup overtaken) : \A x, t \in Of(a) : x = t
  BY DEF AccountsInv
<1>2. b \in users /\ sessions[s] = NoSession /\ UNCHANGED <<now, users, registering, counters, allowed>>
  BY DEF Login, Unused
<1>3. PICK removed \in {Of(b), {}} :
          /\ sessions' = [x \in SessionIds |->
                CASE x = s -> NewSession(b)
                  [] x \in removed -> NoSession
                  [] OTHER -> sessions[x]]
          /\ kept' = IF removed = Of(b) THEN kept \ {b} ELSE kept \cup {b}
          /\ overtaken' = IF b \in registering THEN overtaken \cup {b}
                          ELSE IF removed = Of(b) THEN overtaken \ {b} ELSE overtaken
  BY DEF Login
<1>4. sessions \in [SessionIds -> {NoSession} \cup
          [user : users, expires : 0..(MaxTime + SessionTTL), revoked : BOOLEAN]]
  BY <1>1 DEF AuthTypeOK
<1>5. NoSession.user = "none" /\ "none" \notin Accounts
  BY AuthNumbers DEF NoSession
<1>6. /\ NewSession(b) \in [user : users, expires : 0..(MaxTime + SessionTTL), revoked : BOOLEAN]
      /\ NewSession(b).user = b
  BY <1>1, <1>2, NewSessionIs
<1>7. /\ sessions'[s] = NewSession(b)
      /\ \A x \in SessionIds : x # s => sessions'[x] = IF x \in removed THEN NoSession ELSE sessions[x]
  <2> DEFINE after(x) == CASE x = s -> NewSession(b)
                        [] x \in removed -> NoSession
                        [] OTHER -> sessions[x]
  <2>0. s \notin removed
    BY <1>2, <1>3, <1>5 DEF Of
  <2>1. after(s) = NewSession(b)
    BY <2>0
  <2>2. \A x : x # s => after(x) = IF x \in removed THEN NoSession ELSE sessions[x]
    OBVIOUS
  <2>3. sessions' = [x \in SessionIds |-> after(x)]
    BY <1>3
  <2> HIDE DEF after
  <2> QED
    BY <2>1, <2>2, <2>3
<1>8. sessions' \in [SessionIds -> {NoSession} \cup
          [user : users, expires : 0..(MaxTime + SessionTTL), revoked : BOOLEAN]]
  <2>1. \A x \in SessionIds : sessions'[x] \in {NoSession} \cup
          [user : users, expires : 0..(MaxTime + SessionTTL), revoked : BOOLEAN]
    BY <1>4, <1>6, <1>7
  <2> QED
    BY <1>3, <2>1
<1>9. kept' \subseteq Accounts /\ overtaken' \subseteq Accounts
  BY <1>1, <1>3 DEF AuthTypeOK
<1>10. AuthTypeOK'
  BY <1>1, <1>2, <1>8, <1>9 DEF AuthTypeOK
<1>11. \A x \in removed : x \in SessionIds /\ sessions[x].user = b
  BY <1>3 DEF Of
<1>12. \A a \in Accounts \ {b} : Of(a)' = Of(a)
  <2> SUFFICES ASSUME NEW a \in Accounts \ {b} PROVE Of(a)' = Of(a)
    OBVIOUS
  <2>1. \A x \in SessionIds : (sessions'[x].user = a) <=> (sessions[x].user = a)
    BY <1>2, <1>5, <1>6, <1>7, <1>11
  <2> QED
    BY <2>1, OfOthers
<1>13. removed = Of(b) => Of(b)' = {s}
  BY <1>2, <1>5, <1>6, <1>7 DEF Of
<1>14. ASSUME NEW a \in Accounts, a \notin kept', a \notin overtaken', NEW x \in Of(a)', NEW y \in Of(a)'
       PROVE  x = y
  <2>1. CASE a # b
    <3>1. a \notin kept /\ a \notin overtaken
      BY <1>3, <1>14, <2>1
    <3> QED
      BY <1>1, <1>12, <1>14, <2>1, <3>1
  <2>2. CASE a = b
    <3>1. removed = Of(b)
      BY <1>3, <1>14, <2>2
    <3> QED
      BY <1>13, <1>14, <2>2, <3>1
  <2> QED
    BY <2>1, <2>2
<1>15. ASSUME NEW a \in Accounts, a \in registering', a \notin overtaken' PROVE Of(a)' = {}
  <2>1. a # b
    BY <1>2, <1>3, <1>15
  <2>2. a \in registering \ overtaken
    BY <1>2, <1>3, <1>15, <2>1
  <2> QED
    BY <1>1, <1>12, <2>1, <2>2
<1> QED
  BY <1>10, <1>14, <1>15 DEF AccountsInv

LEMMA LogoutKeeps == ASSUME AccountsInv, NEW s \in SessionIds, Logout(s) PROVE AccountsInv'
<1>1. /\ AuthTypeOK
      /\ \A a \in Accounts : a \in registering \ overtaken => Of(a) = {}
      /\ \A a \in Accounts \ (kept \cup overtaken) : \A x, t \in Of(a) : x = t
  BY DEF AccountsInv
<1>2. /\ sessions[s] # NoSession /\ sessions' = [sessions EXCEPT ![s].revoked = TRUE]
      /\ UNCHANGED <<now, users, registering, counters, allowed, kept, overtaken>>
  BY DEF Logout, Unused
<1>3. sessions \in [SessionIds -> {NoSession} \cup
          [user : users, expires : 0..(MaxTime + SessionTTL), revoked : BOOLEAN]]
  BY <1>1 DEF AuthTypeOK
<1>4. sessions[s] \in [user : users, expires : 0..(MaxTime + SessionTTL), revoked : BOOLEAN]
  BY <1>2, <1>3
<1>5. /\ [sessions[s] EXCEPT !.revoked = TRUE] \in
            [user : users, expires : 0..(MaxTime + SessionTTL), revoked : BOOLEAN]
      /\ [sessions[s] EXCEPT !.revoked = TRUE].user = sessions[s].user
  BY <1>4
<1>6. AuthTypeOK'
  BY <1>1, <1>2, <1>3, <1>5 DEF AuthTypeOK
<1>7. \A a : Of(a)' = Of(a)
  BY <1>2, <1>3, <1>5 DEF Of
<1> QED
  BY <1>1, <1>2, <1>6, <1>7 DEF AccountsInv

LEMMA AccountsStep == AccountsInv /\ (AccountsNext \/ UNCHANGED authVars) => AccountsInv'
<1> SUFFICES ASSUME AccountsInv, AccountsNext \/ UNCHANGED authVars PROVE AccountsInv'
  OBVIOUS
<1>1. /\ AuthTypeOK
      /\ \A a \in Accounts : a \in registering \ overtaken => Of(a) = {}
      /\ \A a \in Accounts \ (kept \cup overtaken) : \A x, t \in Of(a) : x = t
  BY DEF AccountsInv
<1>2. ASSUME AuthTypeOK', UNCHANGED <<sessions, kept, overtaken>>, registering' \subseteq registering
      PROVE  AccountsInv'
  <2>1. \A a : Of(a)' = Of(a)
    BY <1>2 DEF Of
  <2> QED
    BY <1>1, <1>2, <2>1 DEF AccountsInv
<1>3. CASE TimePasses
  BY <1>1, <1>2, <1>3, TimeKeepsTypes DEF TimePasses
<1>4. CASE ServerRestarts
  BY <1>1, <1>2, <1>4, RestartKeepsTypes DEF ServerRestarts
<1>5. CASE UNCHANGED authVars
  BY <1>1, <1>2, <1>5 DEF authVars, AuthTypeOK
<1> QED
  BY <1>3, <1>4, <1>5, RegisterUserKeeps, RegisterSessionKeeps, LoginKeeps, LogoutKeeps DEF AccountsNext

LEMMA AccountsAreRight == AccountsInv => OneActiveSession
<1> SUFFICES ASSUME AccountsInv, NEW a \in Accounts \ (kept \cup overtaken)
             PROVE  Cardinality({s \in Of(a) : Authenticates(s)}) <= 1
  BY DEF OneActiveSession
<1> DEFINE A == {s \in Of(a) : Authenticates(s)}
<1>1. \A s, t \in A : s = t
  BY DEF AccountsInv
<1> HIDE DEF A
<1>2. CASE A = {}
  <2>1. Cardinality({}) = 0
    BY FS_EmptySet
  <2> QED
    BY <1>2, <2>1 DEF A
<1>3. CASE A # {}
  <2>1. PICK s \in A : TRUE
    BY <1>3
  <2>2. A = {s}
    BY <1>1, <2>1
  <2>3. Cardinality({s}) = 1
    BY FS_Singleton
  <2> QED
    BY <2>2, <2>3 DEF A
<1> QED
  BY <1>2, <1>3

-----------------------------------------------------------------------------
(* Routes that reach a model (api/server.py): whoever awaits a model chose  *)
(* one that can be used, and what a stream was told is what it awaits.      *)

AnswerModes == {"none", "dry_run", "conversation_only", "text_only", "error", "gone", "complete"}
Calls == [at : {"nothing", "model", "goal", "starting", "tokens"}, mode : AnswerModes,
          provider : ModelProviders \cup {"none"}, named : BOOLEAN]
RouteAnswers == [status : {0, 200, 403, 500}, mode : AnswerModes, success : BOOLEAN,
                 provider : ModelProviders \cup {"none"}, named : BOOLEAN,
                 tokens : 0..MaxTokens, sentId : BOOLEAN]

WaitingForGoal == {c \in ApiClients : awaited[c].at = "goal"}

ApiTypes ==
    /\ configured \in ModelProviders
    /\ awaited \in [ApiClients -> Calls]
    /\ lastAnswer \in [ApiClients -> RouteAnswers]
    /\ activeAgent \in ApiClients \cup {"none"}
    /\ namedBefore \subseteq ModelProviders
    /\ apiCalls \in 0..MaxApiCalls /\ streamsBegun \in Nat
    /\ IsFiniteSet(WaitingForGoal)
    /\ streamsBegun + Cardinality(WaitingForGoal) <= apiCalls

ChosenWell(c) ==
    /\ awaited[c].provider \in UsableProviders \cup {"none"}
    /\ ~awaited[c].named => awaited[c].provider \in {DefaultProvider, "none"} \cup namedBefore
    /\ awaited[c].at \in {"starting", "tokens"} =>
         awaited[c].provider \in UsableProviders /\ ~awaited[c].named /\ activeAgent # "none"
    /\ awaited[c].at = "tokens" => lastAnswer[c].provider = awaited[c].provider
    /\ awaited[c].at \in {"goal", "starting", "tokens"} =>
         ~awaited[c].named /\ lastAnswer[c].status = 0 /\ ~lastAnswer[c].sentId

AnsweredWell(c) ==
    /\ ~lastAnswer[c].named => lastAnswer[c].provider \in {DefaultProvider, "none"} \cup namedBefore
    /\ lastAnswer[c].status = 500 => lastAnswer[c].provider \in ModelProviders \ UsableProviders
    /\ lastAnswer[c].sentId => lastAnswer[c].provider \in UsableProviders /\ activeAgent # "none"

ApiInv ==
    /\ ApiTypes
    /\ configured \in {DefaultProvider} \cup namedBefore
    /\ streamsBegun > 0 <=> activeAgent # "none"
    /\ \A c \in ApiClients : ChosenWell(c) /\ AnsweredWell(c)

LEMMA ApiFacts ==
    /\ UsableProviders \subseteq ModelProviders /\ DefaultProvider \in ModelProviders
    /\ "none" \notin ModelProviders /\ "none" \notin ApiClients
    /\ MaxApiCalls \in Nat /\ MaxTokens \in Nat /\ NoCall \in Calls /\ NoAnswer \in RouteAnswers
BY ApiAssumption DEF NoCall, NoAnswer, Calls, RouteAnswers, AnswerModes

LEMMA ApiStart == ApiInit => ApiInv
<1> SUFFICES ASSUME ApiInit PROVE ApiInv
  OBVIOUS
<1>1. /\ configured = DefaultProvider /\ awaited = [c \in ApiClients |-> NoCall] /\ activeAgent = "none"
      /\ lastAnswer = [c \in ApiClients |-> NoAnswer] /\ namedBefore = {} /\ streamsBegun = 0 /\ apiCalls = 0
  BY DEF ApiInit
<1>2. WaitingForGoal = {}
  BY <1>1 DEF WaitingForGoal, NoCall
<1>3. IsFiniteSet({}) /\ Cardinality({}) = 0
  BY FS_EmptySet
<1>4. ApiTypes
  BY <1>1, <1>2, <1>3, ApiFacts DEF ApiTypes
<1>5. \A c \in ApiClients : awaited[c] = NoCall /\ lastAnswer[c] = NoAnswer
  BY <1>1
<1>6. \A c \in ApiClients : ChosenWell(c) /\ AnsweredWell(c)
  BY <1>5 DEF ChosenWell, AnsweredWell, NoCall, NoAnswer
<1> QED
  BY <1>1, <1>4, <1>6 DEF ApiInv

(* What happens to one client leaves the others as well off: more names were
   given, and an agent that is held is not let go. *)
LEMMA OthersAreServed ==
    ASSUME NEW d, ChosenWell(d), AnsweredWell(d), awaited'[d] = awaited[d], lastAnswer'[d] = lastAnswer[d],
           namedBefore \subseteq namedBefore', activeAgent # "none" => activeAgent' # "none"
    PROVE  ChosenWell(d)' /\ AnsweredWell(d)'
BY DEF ChosenWell, AnsweredWell

(* What a route answers. *)
Answer(code, mode, ok, provider, named) ==
    [status |-> code, mode |-> mode, success |-> ok, provider |-> provider, named |-> named,
     tokens |-> 0, sentId |-> FALSE]

LEMMA AnswerIs ==
    ASSUME NEW code \in {0, 200, 403, 500}, NEW mode \in AnswerModes, NEW ok \in BOOLEAN,
           NEW provider \in ModelProviders \cup {"none"}, NEW named \in BOOLEAN
    PROVE  LET a == Answer(code, mode, ok, provider, named)
           IN  /\ a \in RouteAnswers /\ a.status = code /\ a.provider = provider
               /\ a.named = named /\ ~a.sentId
BY ApiFacts DEF Answer, RouteAnswers

(* What ends a stream changes how it ended, not what was answered for whom. *)
LEMMA AnswerFields ==
    ASSUME NEW r \in RouteAnswers, NEW mode \in AnswerModes, NEW ok \in BOOLEAN,
           NEW sent \in BOOLEAN
    PROVE  LET a == [r EXCEPT !.mode = mode, !.success = ok, !.sentId = sent]
           IN  /\ a \in RouteAnswers /\ a.provider = r.provider /\ a.named = r.named
               /\ a.status = r.status /\ a.sentId = sent
<1>1. PICK a : a = [r EXCEPT !.mode = mode, !.success = ok, !.sentId = sent]
  OBVIOUS
<1>2. /\ r.status \in {0, 200, 403, 500} /\ r.provider \in ModelProviders \cup {"none"}
      /\ r.named \in BOOLEAN /\ r.tokens \in 0..MaxTokens
  BY DEF RouteAnswers
<1>3. a = [status |-> r.status, mode |-> mode, success |-> ok, provider |-> r.provider,
           named |-> r.named, tokens |-> r.tokens, sentId |-> sent]
  BY <1>1 DEF RouteAnswers
<1>4. /\ a.provider = r.provider /\ a.named = r.named /\ a.status = r.status /\ a.sentId = sent
  BY <1>3
<1>5. a \in RouteAnswers
  BY <1>2, <1>3 DEF RouteAnswers
<1> QED
  BY Zenon, <1>1, <1>4, <1>5

LEMMA AnswerRetold ==
    ASSUME NEW r \in RouteAnswers, NEW mode \in AnswerModes, NEW ok \in BOOLEAN
    PROVE  [r EXCEPT !.mode = mode, !.success = ok] \in RouteAnswers
<1>0. PICK sent \in BOOLEAN : sent = r.sentId
  BY DEF RouteAnswers
<1>1. PICK a : a = [r EXCEPT !.mode = mode, !.success = ok]
  OBVIOUS
<1>2. PICK b : b = [r EXCEPT !.mode = mode, !.success = ok, !.sentId = sent]
  OBVIOUS
<1>3. a = b
  BY <1>0, <1>1, <1>2 DEF RouteAnswers
<1>4. b \in RouteAnswers
  BY Zenon, <1>2, AnswerFields
<1> QED
  BY Zenon, <1>1, <1>3, <1>4

LEMMA AnswerCompleted ==
    ASSUME NEW r \in RouteAnswers
    PROVE  LET a == [r EXCEPT !.mode = "complete", !.success = TRUE, !.sentId = TRUE]
           IN  /\ a \in RouteAnswers /\ a.provider = r.provider /\ a.named = r.named
               /\ a.status = r.status
<1>1. "complete" \in AnswerModes
  BY DEF AnswerModes
<1> QED
  BY Zenon, <1>1, AnswerFields

(* A step of one client, of which only its own goal counts. *)
LEMMA OneClientMoves ==
    ASSUME ApiTypes, NEW c \in ApiClients, NEW q \in Calls, NEW a \in RouteAnswers,
           awaited' = [awaited EXCEPT ![c] = q], lastAnswer' = [lastAnswer EXCEPT ![c] = a],
           \A d \in ApiClients : ChosenWell(d) /\ AnsweredWell(d),
           namedBefore \subseteq namedBefore', activeAgent # "none" => activeAgent' # "none",
           ChosenWell(c)', AnsweredWell(c)'
    PROVE  /\ awaited' \in [ApiClients -> Calls] /\ lastAnswer' \in [ApiClients -> RouteAnswers]
           /\ \A d \in ApiClients : ChosenWell(d)' /\ AnsweredWell(d)'
           /\ IsFiniteSet(WaitingForGoal') /\ Cardinality(WaitingForGoal') \in Nat
           /\ Cardinality(WaitingForGoal) \in Nat
           /\ Cardinality(WaitingForGoal') <= Cardinality(WaitingForGoal) + 1
           /\ q.at # "goal" => Cardinality(WaitingForGoal') <= Cardinality(WaitingForGoal)
           /\ q.at # "goal" /\ awaited[c].at = "goal" =>
                Cardinality(WaitingForGoal') = Cardinality(WaitingForGoal) - 1
<1>1. awaited \in [ApiClients -> Calls] /\ lastAnswer \in [ApiClients -> RouteAnswers]
      /\ IsFiniteSet(WaitingForGoal)
  BY DEF ApiTypes
<1>2. \A d \in ApiClients : d # c => awaited'[d] = awaited[d] /\ lastAnswer'[d] = lastAnswer[d]
  BY <1>1
<1>3. \A d \in ApiClients : ChosenWell(d)' /\ AnsweredWell(d)'
  BY <1>2, OthersAreServed
<1>4. CASE q.at = "goal"
  <2>1. WaitingForGoal' = WaitingForGoal \cup {c}
    BY <1>1, <1>4 DEF WaitingForGoal
  <2>2. /\ IsFiniteSet(WaitingForGoal \cup {c})
        /\ Cardinality(WaitingForGoal \cup {c})
             = IF c \in WaitingForGoal THEN Cardinality(WaitingForGoal) ELSE Cardinality(WaitingForGoal) + 1
    BY <1>1, FS_AddElement
  <2>3. Cardinality(WaitingForGoal) \in Nat
    BY <1>1, FS_CardinalityType
  <2> QED
    BY <1>1, <1>3, <1>4, <2>1, <2>2, <2>3
<1>5. CASE q.at # "goal"
  <2>1. WaitingForGoal' = WaitingForGoal \ {c} /\ (c \in WaitingForGoal <=> awaited[c].at = "goal")
    BY <1>1, <1>5 DEF WaitingForGoal
  <2>2. /\ IsFiniteSet(WaitingForGoal \ {c})
        /\ Cardinality(WaitingForGoal \ {c})
             = IF c \in WaitingForGoal THEN Cardinality(WaitingForGoal) - 1 ELSE Cardinality(WaitingForGoal)
    BY <1>1, FS_RemoveElement
  <2>3. Cardinality(WaitingForGoal) \in Nat /\ Cardinality(WaitingForGoal \ {c}) \in Nat
    BY <1>1, <2>2, FS_CardinalityType
  <2> QED
    BY <1>1, <1>3, <1>5, <2>1, <2>2, <2>3
<1> QED
  BY <1>4, <1>5

(* A step of one client after its call began: its call and its answer change. *)
LEMMA MovesOn ==
    ASSUME ApiInv, NEW c \in ApiClients, NEW q \in Calls, NEW a \in RouteAnswers,
           awaited' = [awaited EXCEPT ![c] = q], lastAnswer' = [lastAnswer EXCEPT ![c] = a],
           ChosenWell(c)', AnsweredWell(c)',
           namedBefore \subseteq namedBefore', namedBefore' \subseteq ModelProviders,
           configured' \in ModelProviders, configured' \in {DefaultProvider} \cup namedBefore',
           activeAgent' \in ApiClients \cup {"none"}, apiCalls' \in 0..MaxApiCalls,
           \/ /\ UNCHANGED <<activeAgent, streamsBegun>>
              /\ \/ apiCalls' = apiCalls + 1
                 \/ apiCalls' = apiCalls /\ q.at # "goal"
           \/ /\ activeAgent' # "none" /\ streamsBegun' = streamsBegun + 1 /\ apiCalls' = apiCalls
              /\ awaited[c].at = "goal" /\ q.at # "goal"
    PROVE  ApiInv'
<1>1. /\ ApiTypes /\ (streamsBegun > 0 <=> activeAgent # "none")
      /\ \A d \in ApiClients : ChosenWell(d) /\ AnsweredWell(d)
  BY DEF ApiInv
<1>2. /\ awaited' \in [ApiClients -> Calls] /\ lastAnswer' \in [ApiClients -> RouteAnswers]
      /\ \A d \in ApiClients : ChosenWell(d)' /\ AnsweredWell(d)'
      /\ IsFiniteSet(WaitingForGoal') /\ Cardinality(WaitingForGoal') \in Nat
      /\ Cardinality(WaitingForGoal) \in Nat
      /\ Cardinality(WaitingForGoal') <= Cardinality(WaitingForGoal) + 1
      /\ q.at # "goal" => Cardinality(WaitingForGoal') <= Cardinality(WaitingForGoal)
      /\ q.at # "goal" /\ awaited[c].at = "goal" =>
           Cardinality(WaitingForGoal') = Cardinality(WaitingForGoal) - 1
  <2>1. activeAgent # "none" => activeAgent' # "none"
    OBVIOUS
  <2> QED
    BY <1>1, <2>1, OneClientMoves
<1>3. /\ streamsBegun \in Nat /\ apiCalls \in 0..MaxApiCalls
      /\ streamsBegun + Cardinality(WaitingForGoal) <= apiCalls
  BY <1>1 DEF ApiTypes
<1>4. streamsBegun' \in Nat /\ streamsBegun' + Cardinality(WaitingForGoal') <= apiCalls'
  BY <1>2, <1>3
<1>5. ApiTypes'
  BY <1>2, <1>4 DEF ApiTypes
<1>6. streamsBegun' > 0 <=> activeAgent' # "none"
  BY <1>1, <1>3
<1> QED
  BY <1>2, <1>5, <1>6 DEF ApiInv

LEMMA ClientFacts ==
    ASSUME ApiInv, NEW c \in ApiClients
    PROVE  /\ awaited[c] \in Calls /\ lastAnswer[c] \in RouteAnswers
           /\ ChosenWell(c) /\ AnsweredWell(c)
           /\ configured \in ModelProviders /\ configured \in {DefaultProvider} \cup namedBefore
           /\ namedBefore \subseteq ModelProviders /\ activeAgent \in ApiClients \cup {"none"}
           /\ apiCalls \in 0..MaxApiCalls
           /\ \A q, a : awaited' = [awaited EXCEPT ![c] = q] => awaited'[c] = q
           /\ \A a : lastAnswer' = [lastAnswer EXCEPT ![c] = a] => lastAnswer'[c] = a
BY DEF ApiInv, ApiTypes

(* Answers that need no model. *)
LEMMA AnswerAtOnce ==
    ASSUME ApiInv, NEW c \in ApiClients, DryRun(c) \/ RefuseTools(c)
    PROVE  ApiInv'
<1> DEFINE codes == {200, 403}
<1>1. PICK fine \in codes, refused \in codes : fine = 200 /\ refused = 403
  OBVIOUS
<1> HIDE DEF codes
<1>2. PICK code \in codes, mode \in AnswerModes, ok \in BOOLEAN :
          /\ Begin(c) /\ Answers(c, code, mode, ok, "none", FALSE)
          /\ UNCHANGED <<configured, awaited, activeAgent, namedBefore, streamsBegun>>
  <2>1. CASE DryRun(c)
    <3>1. "dry_run" \in AnswerModes
      BY DEF AnswerModes
    <3>2. /\ Begin(c) /\ Answers(c, fine, "dry_run", TRUE, "none", FALSE)
          /\ UNCHANGED <<configured, awaited, activeAgent, namedBefore, streamsBegun>>
      BY <1>1, <2>1 DEF DryRun
    <3> QED
      BY Zenon, <3>1, <3>2
  <2>2. CASE RefuseTools(c)
    <3>1. "none" \in AnswerModes
      BY DEF AnswerModes
    <3>2. /\ Begin(c) /\ Answers(c, refused, "none", FALSE, "none", FALSE)
          /\ UNCHANGED <<configured, awaited, activeAgent, namedBefore, streamsBegun>>
      BY <1>1, <2>2 DEF RefuseTools
    <3> QED
      BY Zenon, <3>1, <3>2
  <2> QED
    BY <2>1, <2>2
<1> DEFINE a == Answer(code, mode, ok, "none", FALSE)
<1>3. /\ configured \in ModelProviders /\ configured \in {DefaultProvider} \cup namedBefore
      /\ namedBefore \subseteq ModelProviders /\ activeAgent \in ApiClients \cup {"none"}
      /\ apiCalls \in 0..MaxApiCalls
  BY ClientFacts
<1>4. lastAnswer' = [lastAnswer EXCEPT ![c] = a]
  BY <1>2 DEF Answers, Answer
<1>5. awaited[c] = NoCall /\ apiCalls' = apiCalls + 1 /\ apiCalls' \in 0..MaxApiCalls
  BY <1>2, <1>3, ApiFacts DEF Begin
<1>6. a \in RouteAnswers /\ a.status # 500 /\ ~a.sentId /\ ~a.named /\ a.provider = "none"
  <2>1. code \in {0, 200, 403, 500} /\ code # 500
    BY DEF codes
  <2>2. "none" \in ModelProviders \cup {"none"} /\ 0 \in 0..MaxTokens
    BY ApiFacts
  <2> QED
    BY <2>1, <2>2 DEF Answer, RouteAnswers
<1> HIDE DEF a
<1>7. lastAnswer'[c] = a /\ awaited'[c] = NoCall /\ awaited' = [awaited EXCEPT ![c] = NoCall]
  BY <1>2, <1>4, <1>5, ClientFacts DEF ApiInv, ApiTypes
<1>8. ChosenWell(c)' /\ AnsweredWell(c)' /\ NoCall \in Calls
  BY <1>6, <1>7, ApiFacts DEF ChosenWell, AnsweredWell, NoCall
<1>9. UNCHANGED <<activeAgent, streamsBegun>> /\ configured' = configured /\ namedBefore' = namedBefore
  BY <1>2
<1>10. /\ namedBefore \subseteq namedBefore' /\ namedBefore' \subseteq ModelProviders
       /\ configured' \in ModelProviders /\ configured' \in {DefaultProvider} \cup namedBefore'
       /\ activeAgent' \in ApiClients \cup {"none"}
  BY <1>3, <1>9
<1>11. a \in RouteAnswers /\ NoCall \in Calls /\ ChosenWell(c)' /\ AnsweredWell(c)'
  BY <1>6, <1>8
<1> QED
  BY <1>4, <1>5, <1>7, <1>9, <1>10, <1>11, MovesOn

LEMMA ExecuteTaskKeeps ==
    ASSUME ApiInv, NEW c \in ApiClients, NEW mode \in {"conversation_only", "text_only"},
           NEW named \in ModelProviders \cup {"none"}, ExecuteTask(c, mode, named)
    PROVE  ApiInv'
<1>1. /\ awaited[c] \in Calls /\ lastAnswer[c] \in RouteAnswers
      /\ configured \in ModelProviders /\ configured \in {DefaultProvider} \cup namedBefore
      /\ namedBefore \subseteq ModelProviders /\ activeAgent \in ApiClients \cup {"none"}
      /\ apiCalls \in 0..MaxApiCalls
  BY ClientFacts
<1>2. /\ awaited[c] = NoCall /\ apiCalls < MaxApiCalls /\ apiCalls' = apiCalls + 1
      /\ configured' = Chooses(named) /\ namedBefore' = namedBefore \cup ({named} \ {"none"})
      /\ UNCHANGED <<activeAgent, streamsBegun>>
  BY DEF ExecuteTask, Begin, Configure
<1>3. /\ Chooses(named) \in ModelProviders /\ Chooses(named) \in {DefaultProvider} \cup namedBefore'
      /\ (named # "none" => Chooses(named) = named)
      /\ namedBefore \subseteq namedBefore' /\ namedBefore' \subseteq ModelProviders
      /\ apiCalls' \in 0..MaxApiCalls
  BY <1>1, <1>2, ApiFacts DEF Chooses
<1>4. CASE Chooses(named) \in UsableProviders
  <2> DEFINE q == [at |-> "model", mode |-> mode, provider |-> Chooses(named), named |-> named # "none"]
  <2>1. awaited' = [awaited EXCEPT ![c] = q] /\ lastAnswer' = [lastAnswer EXCEPT ![c] = NoAnswer]
    BY <1>4 DEF ExecuteTask
  <2>2. q \in Calls /\ NoAnswer \in RouteAnswers
    BY <1>3, ApiFacts DEF Calls, AnswerModes
  <2>3. q.at = "model" /\ q.provider = Chooses(named) /\ (~q.named => named = "none")
    OBVIOUS
  <2> HIDE DEF q
  <2>4. awaited'[c] = q /\ lastAnswer'[c] = NoAnswer
    BY <2>1, ClientFacts
  <2>5. ChosenWell(c)'
    BY <1>3, <1>4, <2>3, <2>4 DEF ChosenWell
  <2>6. AnsweredWell(c)'
    BY <2>4 DEF AnsweredWell, NoAnswer
  <2> QED
    BY <1>1, <1>2, <1>3, <2>1, <2>2, <2>3, <2>5, <2>6, MovesOn
<1>5. CASE Chooses(named) \notin UsableProviders
  <2> DEFINE given == named # "none"
             a == Answer(500, mode, FALSE, Chooses(named), given)
  <2>1. lastAnswer' = [lastAnswer EXCEPT ![c] = a] /\ UNCHANGED awaited
    BY <1>5 DEF ExecuteTask, Answers, Answer
  <2>2. mode \in AnswerModes /\ Chooses(named) \in ModelProviders \cup {"none"}
    BY <1>3 DEF AnswerModes
  <2>9. given \in BOOLEAN /\ (~given => named = "none")
    OBVIOUS
  <2> HIDE DEF given
  <2>11. 500 \in {0, 200, 403, 500} /\ FALSE \in BOOLEAN
    OBVIOUS
  <2>10. a \in RouteAnswers /\ a.provider = Chooses(named) /\ a.named = given /\ ~a.sentId
    BY <2>2, <2>9, <2>11, ApiFacts DEF Answer, RouteAnswers
  <2> HIDE DEF a
  <2>3. a \in RouteAnswers /\ a.provider = Chooses(named) /\ (~a.named => named = "none") /\ ~a.sentId
    BY Zenon, <2>9, <2>10
  <2>4. awaited'[c] = NoCall /\ lastAnswer'[c] = a /\ awaited' = [awaited EXCEPT ![c] = NoCall]
    BY <1>2, <2>1, ClientFacts DEF ApiInv, ApiTypes
  <2>5. ChosenWell(c)'
    BY <2>4 DEF ChosenWell, NoCall
  <2>6. Chooses(named) \in ModelProviders \ UsableProviders
    BY Zenon, <1>3, <1>5
  <2>7. AnsweredWell(c)'
    <3>1. /\ lastAnswer'[c].provider \in ModelProviders \ UsableProviders
          /\ ~lastAnswer'[c].named => lastAnswer'[c].provider \in {DefaultProvider, "none"} \cup namedBefore'
          /\ ~lastAnswer'[c].sentId
      BY Zenon, <1>3, <2>3, <2>4, <2>6
    <3> QED
      BY Zenon, <3>1 DEF AnsweredWell
  <2>8. NoCall \in Calls
    BY ApiFacts
  <2> QED
    BY <1>1, <1>2, <1>3, <2>1, <2>3, <2>4, <2>5, <2>7, <2>8, MovesOn
<1> QED
  BY <1>4, <1>5

LEMMA CompletionEndsKeeps ==
    ASSUME ApiInv, NEW c \in ApiClients, NEW ok \in BOOLEAN, CompletionEnds(c, ok)
    PROVE  ApiInv'
<1>1. /\ awaited[c] \in Calls /\ ChosenWell(c)
      /\ configured \in ModelProviders /\ configured \in {DefaultProvider} \cup namedBefore
      /\ namedBefore \subseteq ModelProviders /\ activeAgent \in ApiClients \cup {"none"}
      /\ apiCalls \in 0..MaxApiCalls
  BY ClientFacts
<1> DEFINE a == Answer(200, awaited[c].mode, ok, awaited[c].provider, awaited[c].named)
<1>2. /\ lastAnswer' = [lastAnswer EXCEPT ![c] = a] /\ awaited' = [awaited EXCEPT ![c] = NoCall]
      /\ UNCHANGED <<configured, activeAgent, namedBefore, streamsBegun, apiCalls>>
  BY DEF CompletionEnds, Answers, Answer
<1>3. awaited[c].mode \in AnswerModes /\ awaited[c].named \in BOOLEAN
      /\ awaited[c].provider \in ModelProviders \cup {"none"}
  BY <1>1 DEF Calls
<1>4. a \in RouteAnswers /\ a.provider = awaited[c].provider /\ a.named = awaited[c].named
      /\ ~a.sentId /\ a.status # 500
  BY <1>3, AnswerIs
<1> HIDE DEF a
<1>5. awaited'[c] = NoCall /\ lastAnswer'[c] = a /\ NoCall \in Calls /\ NoCall.at = "nothing"
  BY <1>2, ClientFacts, ApiFacts DEF NoCall
<1>6. ChosenWell(c)'
  BY <1>5 DEF ChosenWell, NoCall
<1>7. AnsweredWell(c)'
  BY <1>1, <1>2, <1>4, <1>5 DEF AnsweredWell, ChosenWell
<1>8. /\ namedBefore \subseteq namedBefore' /\ namedBefore' \subseteq ModelProviders
      /\ configured' \in ModelProviders /\ configured' \in {DefaultProvider} \cup namedBefore'
      /\ activeAgent' \in ApiClients \cup {"none"} /\ apiCalls' \in 0..MaxApiCalls
  BY <1>1, <1>2
<1>9. NoCall.at # "goal"
  BY <1>5
<1> QED
  BY <1>2, <1>4, <1>5, <1>6, <1>7, <1>8, <1>9, MovesOn

LEMMA StreamOpensKeeps == ASSUME ApiInv, NEW c \in ApiClients, StreamOpens(c) PROVE ApiInv'
<1>1. /\ configured \in ModelProviders /\ configured \in {DefaultProvider} \cup namedBefore
      /\ namedBefore \subseteq ModelProviders /\ activeAgent \in ApiClients \cup {"none"}
      /\ apiCalls \in 0..MaxApiCalls
  BY ClientFacts
<1> DEFINE q == [NoCall EXCEPT !.at = "goal"]
<1>2. /\ apiCalls < MaxApiCalls /\ apiCalls' = apiCalls + 1
      /\ awaited' = [awaited EXCEPT ![c] = q] /\ lastAnswer' = [lastAnswer EXCEPT ![c] = NoAnswer]
      /\ UNCHANGED <<configured, activeAgent, namedBefore, streamsBegun>>
  BY DEF StreamOpens, Begin
<1>3. q \in Calls /\ NoAnswer \in RouteAnswers
  BY ApiFacts DEF Calls, NoCall
<1>4. q.at = "goal" /\ q.provider = "none" /\ ~q.named
  BY DEF NoCall
<1> HIDE DEF q
<1>5. awaited'[c] = q /\ lastAnswer'[c] = NoAnswer
  BY <1>2, ClientFacts
<1>6. ChosenWell(c)' /\ AnsweredWell(c)'
  BY <1>4, <1>5 DEF ChosenWell, AnsweredWell, NoAnswer
<1>7. apiCalls' \in 0..MaxApiCalls
  BY <1>1, <1>2, ApiFacts
<1> QED
  BY <1>1, <1>2, <1>3, <1>6, <1>7, MovesOn

(* The ways a stream ends. *)
LEMMA StreamEndsKeeps ==
    ASSUME ApiInv, NEW c \in ApiClients, NEW mode \in AnswerModes, NEW ok \in BOOLEAN,
           awaited[c].at \in {"goal", "starting", "tokens"},
           StreamEnds(c, mode, ok), UNCHANGED <<configured, activeAgent, namedBefore, streamsBegun, apiCalls>>
    PROVE  ApiInv'
<1>1. /\ awaited[c] \in Calls /\ lastAnswer[c] \in RouteAnswers /\ ChosenWell(c) /\ AnsweredWell(c)
      /\ configured \in ModelProviders /\ configured \in {DefaultProvider} \cup namedBefore
      /\ namedBefore \subseteq ModelProviders /\ activeAgent \in ApiClients \cup {"none"}
      /\ apiCalls \in 0..MaxApiCalls
  BY ClientFacts
<1> DEFINE a == [lastAnswer[c] EXCEPT !.mode = mode, !.success = ok]
<1>2. awaited' = [awaited EXCEPT ![c] = NoCall]
  BY DEF StreamEnds
<1>3. lastAnswer' = [lastAnswer EXCEPT ![c] = a]
  BY DEF StreamEnds, ApiInv, ApiTypes
<1>4. a \in RouteAnswers
  BY Zenon, <1>1, AnswerRetold
<1>5. a.provider = lastAnswer[c].provider /\ a.named = lastAnswer[c].named
      /\ a.sentId = lastAnswer[c].sentId /\ a.status = lastAnswer[c].status
  BY <1>1 DEF RouteAnswers
<1> HIDE DEF a
<1>6. awaited'[c] = NoCall /\ lastAnswer'[c] = a /\ NoCall \in Calls /\ NoCall.at = "nothing"
  BY <1>2, <1>3, ClientFacts, ApiFacts DEF NoCall
<1>7. ChosenWell(c)'
  BY <1>6 DEF ChosenWell, NoCall
<1>8. AnsweredWell(c)'
  BY <1>1, <1>5, <1>6 DEF AnsweredWell
<1> QED
  BY <1>1, <1>2, <1>3, <1>4, <1>6, <1>7, <1>8, MovesOn

LEMMA GoalArrivesKeeps == ASSUME ApiInv, NEW c \in ApiClients, GoalArrives(c) PROVE ApiInv'
<1>1. /\ awaited[c] \in Calls /\ lastAnswer[c] \in RouteAnswers /\ ChosenWell(c) /\ AnsweredWell(c)
      /\ configured \in ModelProviders /\ configured \in {DefaultProvider} \cup namedBefore
      /\ namedBefore \subseteq ModelProviders /\ apiCalls \in 0..MaxApiCalls
  BY ClientFacts
<1>2. awaited[c].at = "goal" /\ UNCHANGED <<configured, namedBefore, apiCalls>>
  BY DEF GoalArrives
<1>3. CASE configured \notin UsableProviders
  <2>1. StreamEnds(c, "error", FALSE) /\ UNCHANGED <<activeAgent, streamsBegun>>
    BY <1>3 DEF GoalArrives
  <2>2. "error" \in AnswerModes /\ FALSE \in BOOLEAN
    BY DEF AnswerModes
  <2> QED
    BY <1>2, <2>1, <2>2, StreamEndsKeeps
<1>4. CASE configured \in UsableProviders
  <2> DEFINE q == [awaited[c] EXCEPT !.at = "starting", !.provider = configured]
  <2>1. /\ awaited' = [awaited EXCEPT ![c].at = "starting", ![c].provider = configured]
        /\ activeAgent' = c /\ streamsBegun' = streamsBegun + 1 /\ UNCHANGED lastAnswer
    BY <1>4 DEF GoalArrives
  <2>2. awaited' = [awaited EXCEPT ![c] = q] /\ lastAnswer' = [lastAnswer EXCEPT ![c] = lastAnswer[c]]
    BY <2>1 DEF ApiInv, ApiTypes
  <2>3. q \in Calls
    BY <1>1 DEF Calls
  <2>4. q.at = "starting" /\ q.provider = configured /\ q.named = awaited[c].named
    BY <1>1 DEF Calls
  <2> HIDE DEF q
  <2>5. awaited'[c] = q /\ lastAnswer'[c] = lastAnswer[c] /\ c # "none"
    BY <2>2, ClientFacts, ApiFacts
  <2>6. lastAnswer[c].status = 0 /\ ~lastAnswer[c].sentId
    BY <1>1, <1>2 DEF ChosenWell
  <2>7. AnsweredWell(c)'
    BY <1>1, <1>2, <2>5, <2>6 DEF AnsweredWell
  <2>8. ChosenWell(c)'
    BY <1>1, <1>2, <1>4, <2>1, <2>4, <2>5, <2>6 DEF ChosenWell
  <2> QED
    BY <1>1, <1>2, <2>1, <2>2, <2>3, <2>4, <2>5, <2>7, <2>8, MovesOn
<1> QED
  BY <1>3, <1>4

LEMMA SessionStartedKeeps == ASSUME ApiInv, NEW c \in ApiClients, SessionStarted(c) PROVE ApiInv'
<1>1. /\ awaited[c] \in Calls /\ lastAnswer[c] \in RouteAnswers /\ ChosenWell(c) /\ AnsweredWell(c)
      /\ configured \in ModelProviders /\ configured \in {DefaultProvider} \cup namedBefore
      /\ namedBefore \subseteq ModelProviders /\ activeAgent \in ApiClients \cup {"none"}
      /\ apiCalls \in 0..MaxApiCalls
  BY ClientFacts
<1> DEFINE q == [awaited[c] EXCEPT !.at = "tokens"]
           a == [lastAnswer[c] EXCEPT !.provider = awaited[c].provider]
<1>2. /\ awaited[c].at = "starting"
      /\ UNCHANGED <<configured, activeAgent, namedBefore, streamsBegun, apiCalls>>
  BY DEF SessionStarted
<1>3. awaited' = [awaited EXCEPT ![c] = q] /\ lastAnswer' = [lastAnswer EXCEPT ![c] = a]
  BY DEF SessionStarted, ApiInv, ApiTypes
<1>4. q \in Calls /\ q.at = "tokens" /\ q.provider = awaited[c].provider /\ q.named = awaited[c].named
  BY <1>1 DEF Calls
<1>5. /\ a \in RouteAnswers /\ a.provider = awaited[c].provider
      /\ a.status = lastAnswer[c].status /\ a.sentId = lastAnswer[c].sentId
  <2>1. awaited[c].provider \in ModelProviders \cup {"none"}
    BY <1>1 DEF Calls
  <2> QED
    BY <1>1, <2>1 DEF RouteAnswers
<1> HIDE DEF q, a
<1>6. awaited'[c] = q /\ lastAnswer'[c] = a
  BY <1>3, ClientFacts
<1>7. ChosenWell(c)'
  BY <1>1, <1>2, <1>4, <1>5, <1>6 DEF ChosenWell
<1>8. AnsweredWell(c)'
  BY <1>1, <1>2, <1>5, <1>6 DEF AnsweredWell, ChosenWell
<1> QED
  BY <1>1, <1>2, <1>3, <1>4, <1>5, <1>7, <1>8, MovesOn

LEMMA TokenArrivesKeeps == ASSUME ApiInv, NEW c \in ApiClients, TokenArrives(c) PROVE ApiInv'
<1>1. /\ awaited[c] \in Calls /\ lastAnswer[c] \in RouteAnswers /\ ChosenWell(c) /\ AnsweredWell(c)
      /\ configured \in ModelProviders /\ configured \in {DefaultProvider} \cup namedBefore
      /\ namedBefore \subseteq ModelProviders /\ activeAgent \in ApiClients \cup {"none"}
      /\ apiCalls \in 0..MaxApiCalls
  BY ClientFacts
<1> DEFINE a == [lastAnswer[c] EXCEPT !.tokens = @ + 1]
<1>2. /\ awaited[c].at = "tokens" /\ lastAnswer[c].tokens < MaxTokens
      /\ UNCHANGED <<configured, awaited, activeAgent, namedBefore, streamsBegun, apiCalls>>
  BY DEF TokenArrives
<1>3. lastAnswer' = [lastAnswer EXCEPT ![c] = a] /\ awaited' = [awaited EXCEPT ![c] = awaited[c]]
  BY DEF TokenArrives, ApiInv, ApiTypes
<1>4. lastAnswer[c].tokens + 1 \in 0..MaxTokens
  BY <1>1, <1>2, ApiFacts DEF RouteAnswers
<1>5. /\ a \in RouteAnswers /\ a.provider = lastAnswer[c].provider /\ a.named = lastAnswer[c].named
      /\ a.status = lastAnswer[c].status /\ a.sentId = lastAnswer[c].sentId
  BY <1>1, <1>4 DEF RouteAnswers
<1> HIDE DEF a
<1>6. awaited'[c] = awaited[c] /\ lastAnswer'[c] = a
  BY <1>3, ClientFacts
<1>7. ChosenWell(c)'
  BY <1>1, <1>2, <1>5, <1>6 DEF ChosenWell
<1>8. AnsweredWell(c)'
  BY <1>1, <1>2, <1>5, <1>6 DEF AnsweredWell
<1> QED
  BY <1>1, <1>2, <1>3, <1>5, <1>7, <1>8, MovesOn

LEMMA StreamCompletesKeeps == ASSUME ApiInv, NEW c \in ApiClients, StreamCompletes(c) PROVE ApiInv'
<1>1. /\ awaited[c] \in Calls /\ lastAnswer[c] \in RouteAnswers /\ ChosenWell(c) /\ AnsweredWell(c)
      /\ configured \in ModelProviders /\ configured \in {DefaultProvider} \cup namedBefore
      /\ namedBefore \subseteq ModelProviders /\ activeAgent \in ApiClients \cup {"none"}
      /\ apiCalls \in 0..MaxApiCalls
  BY ClientFacts
<1> DEFINE a == [lastAnswer[c] EXCEPT !.mode = "complete", !.success = TRUE, !.sentId = TRUE]
<1>2. /\ awaited[c].at = "tokens" /\ awaited' = [awaited EXCEPT ![c] = NoCall]
      /\ UNCHANGED <<configured, activeAgent, namedBefore, streamsBegun, apiCalls>>
  BY DEF StreamCompletes
<1>3. lastAnswer' = [lastAnswer EXCEPT ![c] = a]
  BY DEF StreamCompletes, ApiInv, ApiTypes
<1>4. "complete" \in AnswerModes /\ NoCall \in Calls /\ NoCall.at = "nothing"
  BY ApiFacts DEF AnswerModes, NoCall
<1>5. /\ a \in RouteAnswers /\ a.provider = lastAnswer[c].provider /\ a.named = lastAnswer[c].named
      /\ a.status = lastAnswer[c].status
  BY Zenon, <1>1, AnswerCompleted
<1> HIDE DEF a
<1>6. awaited'[c] = NoCall /\ lastAnswer'[c] = a
  BY <1>2, <1>3, ClientFacts
<1>7. ChosenWell(c)'
  BY <1>6 DEF ChosenWell, NoCall
<1>8. AnsweredWell(c)'
  BY <1>1, <1>2, <1>5, <1>6 DEF AnsweredWell, ChosenWell
<1> QED
  BY <1>1, <1>2, <1>3, <1>4, <1>5, <1>7, <1>8, MovesOn

LEMMA ApiStep == ApiInv /\ (ApiNext \/ UNCHANGED apiVars) => ApiInv'
<1> SUFFICES ASSUME ApiInv, ApiNext \/ UNCHANGED apiVars PROVE ApiInv'
  OBVIOUS
<1>1. CASE UNCHANGED apiVars
  BY <1>1 DEF apiVars, ApiInv, ApiTypes, ChosenWell, AnsweredWell, WaitingForGoal
<1>2. ASSUME NEW c \in ApiClients, NoGoal(c) \/ StreamFails(c) \/ StreamPeerLeaves(c) PROVE ApiInv'
  <2>1. "error" \in AnswerModes /\ "gone" \in AnswerModes /\ FALSE \in BOOLEAN
    BY DEF AnswerModes
  <2>2. /\ awaited[c].at \in {"goal", "starting", "tokens"}
        /\ StreamEnds(c, "error", FALSE) \/ StreamEnds(c, "gone", FALSE)
        /\ UNCHANGED <<configured, activeAgent, namedBefore, streamsBegun, apiCalls>>
    BY <1>2 DEF NoGoal, StreamFails, StreamPeerLeaves
  <2> QED
    BY <2>1, <2>2, StreamEndsKeeps
<1>3. CASE ApiNext
  <2>1. PICK c \in ApiClients :
          \/ DryRun(c) \/ RefuseTools(c)
          \/ \E mode \in {"conversation_only", "text_only"}, named \in ModelProviders \cup {"none"} :
               ExecuteTask(c, mode, named)
          \/ \E ok \in BOOLEAN : CompletionEnds(c, ok)
          \/ StreamOpens(c) \/ NoGoal(c) \/ GoalArrives(c) \/ SessionStarted(c)
          \/ TokenArrives(c) \/ StreamCompletes(c) \/ StreamFails(c) \/ StreamPeerLeaves(c)
    BY <1>3 DEF ApiNext
  <2> QED
    BY <1>2, <2>1, AnswerAtOnce, ExecuteTaskKeeps, CompletionEndsKeeps, StreamOpensKeeps,
       GoalArrivesKeeps, SessionStartedKeeps, TokenArrivesKeeps, StreamCompletesKeeps
<1> QED
  BY <1>1, <1>3

LEMMA ApiIsRight == ApiInv => RoutesAreServed /\ ApiTypeOK
<1> SUFFICES ASSUME ApiInv PROVE RoutesAreServed /\ ApiTypeOK
  OBVIOUS
<1>1. RoutesAreServed
  BY ApiFacts DEF ApiInv, RoutesAreServed, ChosenWell, AnsweredWell
<1>2. \A c \in ApiClients : awaited[c] \in Calls /\ lastAnswer[c] \in RouteAnswers
  BY DEF ApiInv, ApiTypes
<1>3. streamsBegun \in 0..MaxApiCalls
  <2>1. Cardinality(WaitingForGoal) \in Nat
    BY FS_CardinalityType DEF ApiInv, ApiTypes
  <2> QED
    BY <2>1, ApiFacts DEF ApiInv, ApiTypes
<1>4. ApiTypeOK
  BY <1>2, <1>3 DEF ApiInv, ApiTypes, ApiTypeOK, Calls, RouteAnswers
<1> QED
  BY <1>1, <1>4

-----------------------------------------------------------------------------
(* Agent sessions (api/agent_sessions.py): what a socket is in the middle of  *)
(* says whether it is listed.                                                 *)

Handlings == {NotConnected} \cup [does : Stages, session : AgentSessionIds]

SocketFits(s, l, h) ==
    /\ \A i \in AgentSessionIds : s \in l[i] <=> h.does \in {"closing", "gone"} /\ h.session = i
    /\ h.does # "nothing" => h.session \in AgentSessionIds

AgentsInv ==
    /\ AgentTypeOK
    /\ \A s \in AgentSockets :
          /\ SocketFits(s, listed, handler[s])
          /\ handler[s].does \in {"gone", "refused"} => s \notin peers

LEMMA AgentsStart == AgentSessionsInit => AgentsInv
  BY DEF AgentSessionsInit, AgentsInv, AgentTypeOK, SocketFits, NotConnected

(* One socket goes on: the lists may gain it, and no other. *)
LEMMA OneSocketMoves ==
    ASSUME AgentsInv, NEW s \in AgentSockets, NEW h \in Handlings,
           handler' = [handler EXCEPT ![s] = h],
           listed' \in [AgentSessionIds -> SUBSET AgentSockets],
           \A t \in AgentSockets \ {s} : \A i \in AgentSessionIds : t \in listed'[i] <=> t \in listed[i],
           SocketFits(s, listed', h), peers' \subseteq AgentSockets,
           \A t \in AgentSockets \ {s} : t \in peers' => t \in peers,
           h.does \in {"gone", "refused"} => s \notin peers',
           UNCHANGED <<sessionsMade, sessionsOpen>>
    PROVE  AgentsInv'
<1>1. handler \in [AgentSockets -> Handlings] /\ AgentTypeOK
  BY DEF AgentsInv, AgentTypeOK, Handlings
<1>2. handler' \in [AgentSockets -> Handlings]
      /\ handler'[s] = h /\ \A t \in AgentSockets \ {s} : handler'[t] = handler[t]
  BY <1>1
<1>3. AgentTypeOK'
  BY <1>1, <1>2 DEF AgentTypeOK, Handlings
<1>4. \A t \in AgentSockets : SocketFits(t, listed', handler'[t])
  <2> SUFFICES ASSUME NEW t \in AgentSockets PROVE SocketFits(t, listed', handler'[t])
    OBVIOUS
  <2>1. CASE t = s
    BY Zenon, <1>2, <2>1
  <2>2. CASE t # s
    <3>1. SocketFits(t, listed, handler[t]) /\ handler'[t] = handler[t]
      BY <1>2, <2>2 DEF AgentsInv
    <3>2. \A i \in AgentSessionIds : t \in listed'[i] <=> t \in listed[i]
      BY <2>2
    <3> QED
      BY Zenon, <3>1, <3>2 DEF SocketFits
  <2> QED
    BY <2>1, <2>2
<1>5. \A t \in AgentSockets : handler'[t].does \in {"gone", "refused"} => t \notin peers'
  BY <1>2 DEF AgentsInv
<1> QED
  BY Zenon, <1>3, <1>4, <1>5 DEF AgentsInv

(* What is known of a socket. *)
LEMMA SocketIs ==
    ASSUME AgentsInv, NEW s \in AgentSockets
    PROVE  /\ handler[s] \in Handlings /\ SocketFits(s, listed, handler[s])
           /\ listed \in [AgentSessionIds -> SUBSET AgentSockets] /\ peers \subseteq AgentSockets
           /\ handler = [t \in AgentSockets |-> handler[t]]
           /\ NotConnected.does = "nothing"
           /\ handler[s].does # "nothing" => handler[s] \in [does : Stages, session : AgentSessionIds]
  BY DEF AgentsInv, AgentTypeOK, Handlings, NotConnected

LEMMA ConnectSocketKeeps ==
    ASSUME AgentsInv, NEW s \in AgentSockets, NEW i \in AgentSessionIds, ConnectSocket(s, i)
    PROVE  AgentsInv'
<1>1. PICK h : h = [does |-> "accepting", session |-> i]
  OBVIOUS
<1>2. h \in Handlings /\ h.does = "accepting" /\ h.session = i
  BY <1>1 DEF Handlings, Stages
<1>3. /\ handler[s] = NotConnected /\ peers' = peers \cup {s} /\ handler' = [handler EXCEPT ![s] = h]
      /\ listed' = listed /\ UNCHANGED <<sessionsMade, sessionsOpen>>
  BY <1>1 DEF ConnectSocket
<1>4. SocketFits(s, listed', h)
  BY <1>2, <1>3, SocketIs DEF SocketFits
<1> QED
  BY <1>2, <1>3, <1>4, SocketIs, OneSocketMoves

(* The handler of a socket that is connected goes on. *)
LEMMA HandlerMoves ==
    ASSUME AgentsInv, NEW s \in AgentSockets, handler[s].does # "nothing", NEW stage \in Stages,
           handler' = [handler EXCEPT ![s].does = stage]
    PROVE  \E h \in Handlings : /\ handler' = [handler EXCEPT ![s] = h]
                                /\ h.does = stage /\ h.session = handler[s].session
<1>1. PICK h : h = [handler[s] EXCEPT !.does = stage]
  OBVIOUS
<1>2. handler[s] \in [does : Stages, session : AgentSessionIds] /\ handler = [t \in AgentSockets |-> handler[t]]
  BY SocketIs
<1>3. h \in Handlings /\ h.does = stage /\ h.session = handler[s].session
  BY <1>1, <1>2 DEF Handlings
<1>4. handler' = [handler EXCEPT ![s] = h]
  BY <1>1, <1>2
<1> QED
  BY Zenon, <1>3, <1>4

LEMMA ListenRaisesKeeps ==
    ASSUME AgentsInv, NEW s \in AgentSockets, ListenRaises(s)
    PROVE  AgentsInv'
<1>1. /\ handler[s].does = "accepting" /\ listed' = [listed EXCEPT ![handler[s].session] = @ \cup {s}]
      /\ handler' = [handler EXCEPT ![s].does = "closing"] /\ peers' = peers
      /\ UNCHANGED <<sessionsMade, sessionsOpen>>
  BY DEF ListenRaises
<1>2. "closing" \in Stages /\ handler[s].does # "nothing"
  BY <1>1 DEF Stages
<1>3. PICK h \in Handlings : /\ handler' = [handler EXCEPT ![s] = h]
                             /\ h.does = "closing" /\ h.session = handler[s].session
  BY <1>1, <1>2, HandlerMoves
<1>4. PICK i : i = handler[s].session
  OBVIOUS
<1>5. /\ i \in AgentSessionIds /\ SocketFits(s, listed, handler[s])
      /\ listed \in [AgentSessionIds -> SUBSET AgentSockets] /\ peers \subseteq AgentSockets
  BY <1>2, <1>4, SocketIs DEF SocketFits
<1>6. /\ listed' \in [AgentSessionIds -> SUBSET AgentSockets]
      /\ \A j \in AgentSessionIds : listed'[j] = IF j = i THEN listed[j] \cup {s} ELSE listed[j]
  BY <1>1, <1>4, <1>5
<1>7. \A t \in AgentSockets \ {s} : \A j \in AgentSessionIds : t \in listed'[j] <=> t \in listed[j]
  BY <1>6
<1>8. SocketFits(s, listed', h)
  BY <1>1, <1>3, <1>4, <1>5, <1>6 DEF SocketFits
<1>9. h.does \notin {"gone", "refused"}
  BY <1>3
<1> QED
  BY <1>1, <1>3, <1>5, <1>6, <1>7, <1>8, <1>9, OneSocketMoves

LEMMA HandlerEndsKeeps ==
    ASSUME AgentsInv, NEW s \in AgentSockets, AcceptRaises(s) \/ SocketClosed(s)
    PROVE  AgentsInv'
<1>1. PICK stage \in {"gone", "refused"} :
         /\ handler[s].does = IF stage = "gone" THEN "closing" ELSE "accepting"
         /\ handler' = [handler EXCEPT ![s].does = stage] /\ s \notin peers' /\ peers' \subseteq peers
         /\ listed' = listed /\ UNCHANGED <<sessionsMade, sessionsOpen>>
  BY DEF AcceptRaises, SocketClosed
<1>2. stage \in Stages /\ handler[s].does # "nothing"
  BY <1>1 DEF Stages
<1>3. PICK h \in Handlings : /\ handler' = [handler EXCEPT ![s] = h]
                             /\ h.does = stage /\ h.session = handler[s].session
  BY <1>1, <1>2, HandlerMoves
<1>4. /\ SocketFits(s, listed, handler[s])
      /\ listed \in [AgentSessionIds -> SUBSET AgentSockets] /\ peers \subseteq AgentSockets
  BY SocketIs
<1>5. SocketFits(s, listed', h)
  BY <1>1, <1>2, <1>3, <1>4 DEF SocketFits
<1> QED
  BY <1>1, <1>3, <1>4, <1>5, OneSocketMoves

LEMMA AgentsStep == AgentsInv /\ (AgentSessionsNext \/ UNCHANGED agentVars) => AgentsInv'
<1> SUFFICES ASSUME AgentsInv, AgentSessionsNext \/ UNCHANGED agentVars PROVE AgentsInv'
  OBVIOUS
<1>1. ASSUME UNCHANGED <<listed, handler>>, peers' \subseteq peers,
             sessionsMade' \subseteq AgentSessionIds, sessionsOpen' \subseteq sessionsMade'
      PROVE  AgentsInv'
  BY <1>1 DEF AgentsInv, AgentTypeOK, SocketFits
<1>2. sessionsMade \subseteq AgentSessionIds /\ sessionsOpen \subseteq sessionsMade
  BY DEF AgentsInv, AgentTypeOK
<1>3. CASE UNCHANGED agentVars
  BY <1>1, <1>2, <1>3 DEF agentVars
<1>4. ASSUME NEW i \in AgentSessionIds, CreateAgentSession(i) \/ CloseAgentSession(i) PROVE AgentsInv'
  BY <1>1, <1>2, <1>4 DEF CreateAgentSession, CloseAgentSession
<1>5. ASSUME NEW s \in AgentSockets, PeerVanishes(s) PROVE AgentsInv'
  BY <1>1, <1>2, <1>5 DEF PeerVanishes
<1> QED
  BY <1>3, <1>4, <1>5, ConnectSocketKeeps, ListenRaisesKeeps, HandlerEndsKeeps DEF AgentSessionsNext

LEMMA AgentsAreRight == AgentsInv => SocketsAreDropped /\ AgentTypeOK
<1> SUFFICES ASSUME AgentsInv PROVE SocketsAreDropped
  BY DEF AgentsInv
<1> SUFFICES ASSUME NEW s \in AgentSockets
             PROVE  {i \in AgentSessionIds : s \in listed[i]} =
                    IF handler[s].does \in {"closing", "gone"} THEN {handler[s].session} ELSE {}
  BY DEF SocketsAreDropped, AgentsInv
<1>1. SocketFits(s, listed, handler[s])
  BY SocketIs
<1> QED
  BY <1>1 DEF SocketFits

-----------------------------------------------------------------------------
(* The gateway to chat platforms (gateway/messaging_gateway.py): the table   *)
(* holds each platform once, each handler belongs to one entry, and a call   *)
(* holds the handler of its platform unless the platform was disturbed.      *)

Entries == [platform : Platforms, handler : Nat, connected : BOOLEAN]
VisitRecords == [call : {"none", "one", "start", "stop", "broadcast"}, platform : Platforms \cup {"none"},
                 handler : Nat, rest : Seq(Platforms),
                 what : {"none", "connect", "disconnect", "reconnect", "send"}]

(* A call under way visits a platform that is registered, holds a handler that
   is no other platform's, and goes on to registered ones. *)
VisitFits(v) ==
    v.what # "none" =>
       /\ v.call # "none" /\ v.platform \in Registered /\ v.handler \in 1..made
       /\ \A q \in Registered : q # v.platform => v.handler # HandlerOf(q)
       /\ v.platform \notin unsettled => v.handler = HandlerOf(v.platform)
       /\ \A k \in DOMAIN v.rest : v.rest[k] \in Registered

TableFits ==
    /\ gateway \in Seq(Entries) /\ made \in 0..MaxHandlers /\ online \subseteq 1..made
    /\ \A k \in DOMAIN gateway : gateway[k].handler \in 1..made
    /\ \A j, k \in DOMAIN gateway : gateway[j].platform = gateway[k].platform => j = k
    /\ \A j, k \in DOMAIN gateway : gateway[j].handler = gateway[k].handler => j = k

GatewayInv ==
    /\ TableFits
    /\ visits \in [GatewayCallers -> VisitRecords]
    /\ \A c \in GatewayCallers : VisitFits(visits[c])
    /\ unsettled \subseteq Platforms
    /\ GatewayIsHonest

LEMMA GatewayStart == GatewayInit => GatewayInv
<1> SUFFICES ASSUME GatewayInit PROVE GatewayInv
  OBVIOUS
<1>1. /\ gateway = <<>> /\ made = 0 /\ online = {} /\ unsettled = {}
      /\ visits = [c \in GatewayCallers |-> NoVisit]
  BY DEF GatewayInit
<1>2. NoVisit \in VisitRecords /\ NoVisit.what = "none"
  BY DEF NoVisit, VisitRecords
<1>3. Registered = {}
  BY <1>1 DEF Registered
<1>4. TableFits /\ GatewayIsHonest
  BY <1>1, <1>3, GatewayAssumption DEF TableFits, GatewayIsHonest
<1>5. \A c \in GatewayCallers : VisitFits(visits[c])
  BY <1>1, <1>2 DEF VisitFits
<1> QED
  BY <1>1, <1>2, <1>4, <1>5 DEF GatewayInv

(* The slot of a platform is where it is. *)
LEMMA SlotIs ==
    ASSUME TableFits
    PROVE  /\ DOMAIN gateway = 1..Len(gateway) /\ Len(gateway) \in Nat
           /\ \A k \in DOMAIN gateway : gateway[k] \in Entries
           /\ \A k \in DOMAIN gateway : Slot(gateway[k].platform) = k /\ gateway[k].platform \in Registered
           /\ \A p \in Registered : /\ Slot(p) \in DOMAIN gateway /\ gateway[Slot(p)].platform = p
                                    /\ p \in Platforms /\ HandlerOf(p) \in 1..made
                                    /\ (Flag(p) <=> gateway[Slot(p)].connected)
           /\ \A p, q \in Registered : HandlerOf(p) = HandlerOf(q) => p = q
<1>1. DOMAIN gateway = 1..Len(gateway) /\ Len(gateway) \in Nat /\ \A k \in DOMAIN gateway : gateway[k] \in Entries
  BY DEF TableFits
<1>2. \A k \in DOMAIN gateway : Slot(gateway[k].platform) = k /\ gateway[k].platform \in Registered
  <2> SUFFICES ASSUME NEW k \in DOMAIN gateway
               PROVE  Slot(gateway[k].platform) = k /\ gateway[k].platform \in Registered
    OBVIOUS
  <2>1. \A j \in DOMAIN gateway : gateway[j].platform = gateway[k].platform => j = k
    BY DEF TableFits
  <2> QED
    BY <2>1 DEF Slot, Registered
<1>3. ASSUME NEW p \in Registered
      PROVE  /\ Slot(p) \in DOMAIN gateway /\ gateway[Slot(p)].platform = p /\ p \in Platforms
             /\ HandlerOf(p) \in 1..made /\ (Flag(p) <=> gateway[Slot(p)].connected)
  <2>1. PICK k \in DOMAIN gateway : gateway[k].platform = p
    BY DEF Registered
  <2>2. Slot(p) = k
    BY <1>2, <2>1
  <2>3. p \in Platforms
    BY <1>1, <2>1 DEF Entries
  <2>4. HandlerOf(p) \in 1..made
    BY <2>1, <2>2 DEF HandlerOf, TableFits
  <2>5. \A j \in DOMAIN gateway : gateway[j].platform = p => j = k
    BY <2>1 DEF TableFits
  <2>6. Flag(p) <=> gateway[k].connected
    BY <2>1, <2>5 DEF Flag
  <2> QED
    BY <2>1, <2>2, <2>3, <2>4, <2>6
<1>4. ASSUME NEW p \in Registered, NEW q \in Registered, HandlerOf(p) = HandlerOf(q) PROVE p = q
  <2>1. Slot(p) = Slot(q)
    BY <1>3, <1>4 DEF HandlerOf, TableFits
  <2> QED
    BY <1>3, <2>1
<1> QED
  BY <1>1, <1>2, <1>3, <1>4

(* A call that turns to a registered platform fits the table. *)
LEMMA VisitToFits ==
    ASSUME TableFits, NEW call \in {"one", "start", "stop", "broadcast"},
           NEW what \in {"connect", "disconnect", "reconnect", "send"},
           NEW p \in Registered, NEW rest \in Seq(Platforms),
           \A k \in DOMAIN rest : rest[k] \in Registered
    PROVE  VisitTo(call, what, p, rest) \in VisitRecords /\ VisitFits(VisitTo(call, what, p, rest))
<1>1. p \in Platforms /\ HandlerOf(p) \in 1..made /\ HandlerOf(p) \in Nat
  BY SlotIs DEF TableFits
<1>2. \A q \in Registered : q # p => HandlerOf(p) # HandlerOf(q)
  BY SlotIs
<1> DEFINE does == IF what = "send" /\ ~Flag(p) THEN "reconnect" ELSE what
           v == [call |-> call, platform |-> p, handler |-> HandlerOf(p), rest |-> rest, what |-> does]
<1>3. does \in {"connect", "disconnect", "reconnect", "send"}
  OBVIOUS
<1>4. VisitTo(call, what, p, rest) = v
  BY DEF VisitTo
<1> HIDE DEF does
<1>5. v \in VisitRecords
  BY <1>1, <1>3 DEF VisitRecords
<1>6. v.platform = p /\ v.handler = HandlerOf(p) /\ v.rest = rest /\ v.call # "none"
  OBVIOUS
<1> HIDE DEF v
<1>7. VisitFits(v)
  BY <1>1, <1>2, <1>6 DEF VisitFits
<1> QED
  BY <1>4, <1>5, <1>7

(* Where a call goes on. *)
LEMMA ContinueFits ==
    ASSUME GatewayInv, NEW c \in GatewayCallers, visits[c].what # "none"
    PROVE  Continue(c) \in VisitRecords /\ VisitFits(Continue(c))
<1>1. TableFits /\ visits[c] \in VisitRecords /\ VisitFits(visits[c])
  BY DEF GatewayInv
<1>2. /\ visits[c].rest \in Seq(Platforms) /\ visits[c].call \in {"one", "start", "stop", "broadcast"}
      /\ visits[c].what \in {"connect", "disconnect", "reconnect", "send"}
  BY <1>1 DEF VisitRecords, VisitFits
<1>3. \A k \in DOMAIN visits[c].rest : visits[c].rest[k] \in Registered
  BY <1>1 DEF VisitFits
<1>4. CASE Continue(c) = NoVisit
  BY <1>4 DEF NoVisit, VisitRecords, VisitFits
<1>5. CASE Continue(c) # NoVisit
  <2>1. visits[c].rest # <<>>
    BY <1>5 DEF Continue
  <2>2. /\ Head(visits[c].rest) \in Registered /\ Tail(visits[c].rest) \in Seq(Platforms)
        /\ \A k \in DOMAIN Tail(visits[c].rest) : Tail(visits[c].rest)[k] \in Registered
    BY <1>2, <1>3, <2>1
  <2>3. PICK what \in {"connect", "disconnect", "reconnect", "send"} :
          Continue(c) = VisitTo(visits[c].call, what, Head(visits[c].rest), Tail(visits[c].rest))
    BY <1>2, <1>5 DEF Continue
  <2>4. PICK p \in Registered, rest \in Seq(Platforms),
             call \in {"one", "start", "stop", "broadcast"} :
          /\ p = Head(visits[c].rest) /\ rest = Tail(visits[c].rest) /\ call = visits[c].call
          /\ \A k \in DOMAIN rest : rest[k] \in Registered
    BY Zenon, <1>2, <2>2
  <2>5. Continue(c) = VisitTo(call, what, p, rest)
    BY Zenon, <2>3, <2>4
  <2>6. VisitTo(call, what, p, rest) \in VisitRecords /\ VisitFits(VisitTo(call, what, p, rest))
    BY <1>1, <2>4, VisitToFits
  <2> QED
    BY Zenon, <2>5, <2>6
<1> QED
  BY <1>4, <1>5

(* Setting a flag moves no platform and no handler. *)
LEMMA FlagMoves ==
    ASSUME TableFits, NEW p \in Registered, NEW value \in BOOLEAN,
           gateway' = Flagged(p, value), UNCHANGED made, online' \subseteq 1..made
    PROVE  /\ TableFits' /\ Registered' = Registered
           /\ \A q \in Registered : HandlerOf(q)' = HandlerOf(q)
           /\ \A q \in Registered : Flag(q)' <=> IF q = p THEN value ELSE Flag(q)
<1>1. /\ DOMAIN gateway = 1..Len(gateway) /\ Len(gateway) \in Nat
      /\ \A k \in DOMAIN gateway : gateway[k] \in Entries
      /\ \A k \in DOMAIN gateway : Slot(gateway[k].platform) = k /\ gateway[k].platform \in Registered
      /\ \A q \in Registered : /\ Slot(q) \in DOMAIN gateway /\ gateway[Slot(q)].platform = q
                               /\ (Flag(q) <=> gateway[Slot(q)].connected)
  BY SlotIs
<1>2. gateway' = [gateway EXCEPT ![Slot(p)] = [gateway[Slot(p)] EXCEPT !.connected = value]]
  BY <1>1 DEF Flagged
<1> DEFINE e(k) == IF k = Slot(p) THEN [gateway[k] EXCEPT !.connected = value] ELSE gateway[k]
<1>3. DOMAIN gateway' = DOMAIN gateway /\ \A k \in DOMAIN gateway : gateway'[k] = e(k)
  BY <1>1, <1>2
<1>4. \A k \in DOMAIN gateway :
        /\ e(k) \in Entries /\ e(k).platform = gateway[k].platform /\ e(k).handler = gateway[k].handler
        /\ e(k).connected = IF k = Slot(p) THEN value ELSE gateway[k].connected
  BY <1>1 DEF Entries
<1> HIDE DEF e
<1>5. gateway' \in Seq(Entries) /\ Len(gateway') = Len(gateway)
  <2>1. gateway' = [k \in 1..Len(gateway) |-> gateway'[k]]
    BY <1>1, <1>2
  <2>2. gateway' \in [1..Len(gateway) -> Entries]
    BY <1>1, <1>3, <1>4, <2>1
  <2> QED
    BY <1>1, <2>2
<1>6. Registered' = Registered
  BY <1>3, <1>4 DEF Registered
<1>7. TableFits'
  BY <1>3, <1>4, <1>5 DEF TableFits
<1>8. ASSUME NEW q \in Registered PROVE Slot(q)' = Slot(q)
  <2>1. \A k \in DOMAIN gateway : gateway[k].platform = q <=> gateway'[k].platform = q
    BY <1>3, <1>4
  <2>2. \A k \in DOMAIN gateway : gateway[k].platform = q <=> k = Slot(q)
    BY <1>1
  <2>3. (CHOOSE k \in DOMAIN gateway' : gateway'[k].platform = q) = Slot(q)
    BY <1>1, <1>3, <2>1, <2>2
  <2> QED
    BY <2>3 DEF Slot
<1>9. ASSUME NEW q \in Registered
      PROVE  HandlerOf(q)' = HandlerOf(q) /\ (Flag(q)' <=> IF q = p THEN value ELSE Flag(q))
  <2>1. Slot(q)' = Slot(q) /\ Slot(q) \in DOMAIN gateway
    BY <1>1, <1>8
  <2>2. HandlerOf(q)' = gateway'[Slot(q)].handler
    BY <2>1 DEF HandlerOf
  <2>3. HandlerOf(q)' = HandlerOf(q)
    BY <1>3, <1>4, <2>1, <2>2 DEF HandlerOf
  <2>4. \A k \in DOMAIN gateway : gateway'[k].platform = q <=> k = Slot(q)
    BY <1>1, <1>3, <1>4
  <2>5. Flag(q)' <=> gateway'[Slot(q)].connected
    BY <1>3, <2>1, <2>4 DEF Flag
  <2>6. gateway'[Slot(q)].connected = IF q = p THEN value ELSE gateway[Slot(q)].connected
    BY <1>1, <1>3, <1>4, <2>1
  <2> QED
    BY <1>1, <2>3, <2>5, <2>6
<1> QED
  BY <1>6, <1>7, <1>9

(* One caller goes on: the table names the same platforms with the same
   handlers, and what it tells of them stays true where nobody disturbed it. *)
LEMMA CallerMoves ==
    ASSUME GatewayInv, NEW c \in GatewayCallers, NEW v \in VisitRecords, VisitFits(v),
           visits' = [visits EXCEPT ![c] = v], TableFits', Registered' = Registered,
           UNCHANGED <<made, unsettled>>, \A q \in Registered : HandlerOf(q)' = HandlerOf(q),
           \A q \in Registered \ unsettled : Flag(q)' <=> HandlerOf(q) \in online'
    PROVE  GatewayInv'
<1>1. visits \in [GatewayCallers -> VisitRecords] /\ unsettled \subseteq Platforms
  BY DEF GatewayInv
<1>2. visits' \in [GatewayCallers -> VisitRecords] /\ visits'[c] = v
      /\ \A d \in GatewayCallers : d # c => visits'[d] = visits[d]
  BY <1>1
<1>3. \A d \in GatewayCallers : VisitFits(visits'[d])
  <2>1. \A d \in GatewayCallers : VisitFits(visits[d])
    BY DEF GatewayInv
  <2> QED
    BY <1>2, <2>1
<1>4. \A d \in GatewayCallers : VisitFits(visits[d])'
  BY <1>3 DEF VisitFits
<1>5. GatewayIsHonest'
  BY DEF GatewayIsHonest
<1> QED
  BY <1>1, <1>2, <1>4, <1>5 DEF GatewayInv

LEMMA ConnectReturnsKeeps ==
    ASSUME GatewayInv, NEW c \in GatewayCallers, NEW ok \in BOOLEAN, ConnectReturns(c, ok)
    PROVE  GatewayInv'
<1>1. /\ TableFits /\ visits[c] \in VisitRecords /\ VisitFits(visits[c]) /\ GatewayIsHonest
      /\ visits \in [GatewayCallers -> VisitRecords]
  BY DEF GatewayInv
<1>2. PICK p : p = visits[c].platform
  OBVIOUS
<1>3. PICK h : h = visits[c].handler
  OBVIOUS
<1>4. /\ visits[c].what \in {"connect", "reconnect"} /\ UNCHANGED <<made, served, gatewayOn, unsettled>>
      /\ online' = (IF ok THEN online \cup {h} ELSE online)
      /\ gateway' = (IF ok THEN Flagged(p, TRUE) ELSE gateway)
  BY <1>2, <1>3 DEF ConnectReturns
<1>5. /\ p \in Registered /\ h \in 1..made /\ (p \notin unsettled => h = HandlerOf(p))
      /\ \A q \in Registered : q # p => h # HandlerOf(q)
  BY <1>1, <1>2, <1>3, <1>4 DEF VisitFits
<1>6. PICK v \in VisitRecords : VisitFits(v) /\ visits' = [visits EXCEPT ![c] = v]
  <2>1. CASE visits[c].what = "connect"
    <3>1. visits' = [visits EXCEPT ![c] = Continue(c)]
      BY <2>1 DEF ConnectReturns
    <3>2. Continue(c) \in VisitRecords /\ VisitFits(Continue(c))
      BY <2>1, ContinueFits
    <3> QED
      BY <3>1, <3>2
  <2>2. CASE visits[c].what = "reconnect"
    <3> DEFINE v == [visits[c] EXCEPT !.what = "send", !.handler = HandlerOf(p)]
    <3>1. visits' = [visits EXCEPT ![c] = v]
      BY <1>1, <1>2, <2>2 DEF ConnectReturns
    <3>2. HandlerOf(p) \in 1..made /\ HandlerOf(p) \in Nat
          /\ \A q \in Registered : q # p => HandlerOf(p) # HandlerOf(q)
      BY <1>1, <1>5, SlotIs DEF TableFits
    <3>3. /\ v \in VisitRecords /\ v.what = "send" /\ v.handler = HandlerOf(p) /\ v.platform = p
          /\ v.rest = visits[c].rest /\ v.call = visits[c].call
      BY <1>1, <1>2, <3>2 DEF VisitRecords
    <3> HIDE DEF v
    <3>4. /\ visits[c].call # "none" /\ \A k \in DOMAIN visits[c].rest : visits[c].rest[k] \in Registered
      BY <1>1, <2>2 DEF VisitFits
    <3>5. VisitFits(v)
      BY <1>5, <3>2, <3>3, <3>4 DEF VisitFits
    <3> QED
      BY <3>1, <3>3, <3>5
  <2> QED
    BY <1>4, <2>1, <2>2
<1>7. CASE ~ok
  <2>1. UNCHANGED <<gateway, online, made, unsettled>>
    BY <1>4, <1>7
  <2>2. /\ TableFits' /\ Registered' = Registered /\ \A q \in Registered : HandlerOf(q)' = HandlerOf(q)
        /\ \A q \in Registered \ unsettled : Flag(q)' <=> HandlerOf(q) \in online'
    BY <1>1, <2>1 DEF TableFits, Registered, HandlerOf, Slot, Flag, GatewayIsHonest
  <2> QED
    BY <1>6, <2>1, <2>2, CallerMoves
<1>8. CASE ok
  <2>1. gateway' = Flagged(p, TRUE) /\ online' = online \cup {h}
    BY <1>4, <1>8
  <2>2. online' \subseteq 1..made
    BY <1>1, <1>5, <2>1 DEF TableFits
  <2>3. /\ TableFits' /\ Registered' = Registered /\ \A q \in Registered : HandlerOf(q)' = HandlerOf(q)
        /\ \A q \in Registered : Flag(q)' <=> IF q = p THEN TRUE ELSE Flag(q)
    BY <1>1, <1>4, <1>5, <2>1, <2>2, FlagMoves
  <2>4. \A q \in Registered \ unsettled : Flag(q)' <=> HandlerOf(q) \in online'
    BY <1>1, <1>5, <2>1, <2>3 DEF GatewayIsHonest
  <2>5. UNCHANGED <<made, unsettled>>
    BY <1>4
  <2> QED
    BY <1>6, <2>3, <2>4, <2>5, CallerMoves
<1> QED
  BY <1>7, <1>8

LEMMA DisconnectReturnsKeeps ==
    ASSUME GatewayInv, NEW c \in GatewayCallers, NEW ok \in BOOLEAN, DisconnectReturns(c, ok)
    PROVE  GatewayInv'
<1>1. /\ TableFits /\ visits[c] \in VisitRecords /\ VisitFits(visits[c]) /\ GatewayIsHonest
  BY DEF GatewayInv
<1>2. PICK p : p = visits[c].platform
  OBVIOUS
<1>3. PICK h : h = visits[c].handler
  OBVIOUS
<1>4. /\ visits[c].what = "disconnect" /\ UNCHANGED <<made, served, gatewayOn, unsettled>>
      /\ online' = (IF ok THEN online \ {h} ELSE online)
      /\ gateway' = (IF ok THEN Flagged(p, FALSE) ELSE gateway)
      /\ visits' = [visits EXCEPT ![c] = Continue(c)]
  BY <1>2, <1>3 DEF DisconnectReturns
<1>5. /\ p \in Registered /\ h \in 1..made /\ (p \notin unsettled => h = HandlerOf(p))
      /\ \A q \in Registered : q # p => h # HandlerOf(q)
  BY <1>1, <1>2, <1>3, <1>4 DEF VisitFits
<1>6. Continue(c) \in VisitRecords /\ VisitFits(Continue(c))
  BY <1>4, ContinueFits
<1>9. PICK v \in VisitRecords : VisitFits(v) /\ visits' = [visits EXCEPT ![c] = v]
  BY <1>4, <1>6
<1>7. CASE ~ok
  <2>1. UNCHANGED <<gateway, online, made, unsettled>>
    BY <1>4, <1>7
  <2>2. /\ TableFits' /\ Registered' = Registered /\ \A q \in Registered : HandlerOf(q)' = HandlerOf(q)
        /\ \A q \in Registered \ unsettled : Flag(q)' <=> HandlerOf(q) \in online'
    BY <1>1, <2>1 DEF TableFits, Registered, HandlerOf, Slot, Flag, GatewayIsHonest
  <2> QED
    BY <1>9, <2>1, <2>2, CallerMoves
<1>8. CASE ok
  <2>1. gateway' = Flagged(p, FALSE) /\ online' = online \ {h}
    BY <1>4, <1>8
  <2>2. online' \subseteq 1..made
    BY <1>1, <1>5, <2>1 DEF TableFits
  <2>3. /\ TableFits' /\ Registered' = Registered /\ \A q \in Registered : HandlerOf(q)' = HandlerOf(q)
        /\ \A q \in Registered : Flag(q)' <=> IF q = p THEN FALSE ELSE Flag(q)
    BY <1>1, <1>4, <1>5, <2>1, <2>2, FlagMoves
  <2>4. \A q \in Registered \ unsettled : Flag(q)' <=> HandlerOf(q) \in online'
    BY <1>1, <1>5, <2>1, <2>3 DEF GatewayIsHonest
  <2>5. UNCHANGED <<made, unsettled>>
    BY <1>4
  <2> QED
    BY <1>9, <2>3, <2>4, <2>5, CallerMoves
<1> QED
  BY <1>7, <1>8

(* A step that leaves the table and the connections alone. *)
LEMMA TableStays ==
    ASSUME GatewayInv, UNCHANGED <<gateway, online, made, unsettled>>
    PROVE  /\ TableFits' /\ Registered' = Registered /\ \A q \in Registered : HandlerOf(q)' = HandlerOf(q)
           /\ \A q \in Registered \ unsettled : Flag(q)' <=> HandlerOf(q) \in online'
BY DEF GatewayInv, TableFits, Registered, HandlerOf, Slot, Flag, GatewayIsHonest

LEMMA SendReturnsKeeps ==
    ASSUME GatewayInv, NEW c \in GatewayCallers, SendReturns(c) PROVE GatewayInv'
<1>1. /\ visits[c].what = "send" /\ visits' = [visits EXCEPT ![c] = Continue(c)]
      /\ UNCHANGED <<gateway, online, made, unsettled>>
  BY DEF SendReturns
<1>2. Continue(c) \in VisitRecords /\ VisitFits(Continue(c))
  BY <1>1, ContinueFits
<1>3. PICK v \in VisitRecords : VisitFits(v) /\ visits' = [visits EXCEPT ![c] = v]
  BY <1>1, <1>2
<1>4. /\ TableFits' /\ Registered' = Registered /\ \A q \in Registered : HandlerOf(q)' = HandlerOf(q)
      /\ \A q \in Registered \ unsettled : Flag(q)' <=> HandlerOf(q) \in online'
  BY <1>1, TableStays
<1> QED
  BY <1>1, <1>3, <1>4, CallerMoves

LEMMA CallPlatformKeeps ==
    ASSUME GatewayInv, NEW c \in GatewayCallers, NEW what \in {"connect", "disconnect", "send"},
           NEW p \in Platforms, CallPlatform(c, what, p)
    PROVE  GatewayInv'
<1>1. /\ p \in Registered /\ visits' = [visits EXCEPT ![c] = VisitTo("one", what, p, <<>>)]
      /\ UNCHANGED <<gateway, online, made, unsettled>>
  BY DEF CallPlatform
<1>2. VisitTo("one", what, p, <<>>) \in VisitRecords /\ VisitFits(VisitTo("one", what, p, <<>>))
  <2>1. /\ TableFits /\ "one" \in {"one", "start", "stop", "broadcast"}
        /\ what \in {"connect", "disconnect", "reconnect", "send"}
        /\ <<>> \in Seq(Platforms) /\ \A k \in DOMAIN <<>> : <<>>[k] \in Registered
    BY DEF GatewayInv
  <2> QED
    BY <1>1, <2>1, VisitToFits
<1>3. PICK v \in VisitRecords : VisitFits(v) /\ visits' = [visits EXCEPT ![c] = v]
  BY <1>1, <1>2
<1>4. /\ TableFits' /\ Registered' = Registered /\ \A q \in Registered : HandlerOf(q)' = HandlerOf(q)
      /\ \A q \in Registered \ unsettled : Flag(q)' <=> HandlerOf(q) \in online'
  BY <1>1, TableStays
<1> QED
  BY <1>1, <1>3, <1>4, CallerMoves

LEMMA CallAllKeeps ==
    ASSUME GatewayInv, NEW c \in GatewayCallers, NEW call \in {"start", "stop", "broadcast"}, CallAll(c, call)
    PROVE  GatewayInv'
<1>1. TableFits /\ visits[c] \in VisitRecords /\ VisitFits(visits[c]) /\ visits \in [GatewayCallers -> VisitRecords]
  BY DEF GatewayInv
<1>2. UNCHANGED <<gateway, online, made, unsettled>>
  BY DEF CallAll
<1>3. PICK v \in VisitRecords : VisitFits(v) /\ visits' = [visits EXCEPT ![c] = v]
  <2>1. CASE gateway = <<>>
    <3>1. visits' = [visits EXCEPT ![c] = visits[c]]
      BY <1>1, <2>1 DEF CallAll
    <3> QED
      BY <1>1, <3>1
  <2>2. CASE gateway # <<>>
    <3> DEFINE what == CASE call = "start" -> "connect" [] call = "stop" -> "disconnect" [] OTHER -> "send"
    <3>1. visits' = [visits EXCEPT ![c] = VisitTo(call, what, Head(Order), Tail(Order))]
      BY <2>2 DEF CallAll
    <3>2. what \in {"connect", "disconnect", "reconnect", "send"} /\ call \in {"one", "start", "stop", "broadcast"}
      OBVIOUS
    <3> HIDE DEF what
    <3>3. /\ DOMAIN gateway = 1..Len(gateway) /\ Len(gateway) \in Nat
          /\ \A k \in DOMAIN gateway : gateway[k].platform \in Registered /\ gateway[k].platform \in Platforms
      BY <1>1, SlotIs
    <3>4. Order \in Seq(Platforms) /\ Len(Order) = Len(gateway)
      <4>1. Order \in [1..Len(gateway) -> Platforms]
        BY <3>3 DEF Order
      <4> QED
        BY <3>3, <4>1
    <3>5. \A k \in DOMAIN Order : Order[k] \in Registered
      BY <3>3 DEF Order
    <3>6. Order # <<>>
      <4>1. Len(gateway) # 0
        BY <1>1, <2>2 DEF TableFits
      <4> QED
        BY <3>4, <4>1
    <3>7. /\ Head(Order) \in Registered /\ Tail(Order) \in Seq(Platforms)
          /\ \A k \in DOMAIN Tail(Order) : Tail(Order)[k] \in Registered
      BY <3>4, <3>5, <3>6
    <3>8. /\ VisitTo(call, what, Head(Order), Tail(Order)) \in VisitRecords
          /\ VisitFits(VisitTo(call, what, Head(Order), Tail(Order)))
      BY <1>1, <3>2, <3>7, VisitToFits
    <3> QED
      BY <3>1, <3>8
  <2> QED
    BY <2>1, <2>2
<1>4. /\ TableFits' /\ Registered' = Registered /\ \A q \in Registered : HandlerOf(q)' = HandlerOf(q)
      /\ \A q \in Registered \ unsettled : Flag(q)' <=> HandlerOf(q) \in online'
  BY <1>2, TableStays
<1> QED
  BY <1>2, <1>3, <1>4, CallerMoves

LEMMA ConnectionBreaksKeeps ==
    ASSUME GatewayInv, NEW p \in Platforms, ConnectionBreaks(p) PROVE GatewayInv'
<1>1. TableFits /\ GatewayIsHonest /\ unsettled \subseteq Platforms
  BY DEF GatewayInv
<1>2. /\ p \in Registered /\ online' = online \ {HandlerOf(p)} /\ unsettled' = unsettled \cup {p}
      /\ UNCHANGED <<gateway, made, visits>>
  BY DEF ConnectionBreaks
<1>3. TableFits' /\ Registered' = Registered
      /\ \A q \in Registered : HandlerOf(q)' = HandlerOf(q) /\ (Flag(q)' <=> Flag(q))
  BY <1>1, <1>2 DEF TableFits, Registered, HandlerOf, Slot, Flag
<1>4. \A q \in Registered : q # p => HandlerOf(q) # HandlerOf(p)
  BY <1>1, <1>2, SlotIs
<1>5. GatewayIsHonest'
  BY <1>1, <1>2, <1>3, <1>4 DEF GatewayIsHonest
<1>6. \A c \in GatewayCallers : VisitFits(visits[c])'
  BY <1>2, <1>3 DEF VisitFits, GatewayInv
<1> QED
  BY <1>1, <1>2, <1>3, <1>5, <1>6 DEF GatewayInv

(* A handler is registered: it is new, and its platform's old one is forgotten. *)
LEMMA RegisterPlatformKeeps ==
    ASSUME GatewayInv, NEW p \in Platforms, RegisterPlatform(p) PROVE GatewayInv'
<1>1. /\ TableFits /\ GatewayIsHonest /\ unsettled \subseteq Platforms
      /\ visits \in [GatewayCallers -> VisitRecords]
  BY DEF GatewayInv
<1>2. PICK entry : entry = [platform |-> p, handler |-> made + 1, connected |-> FALSE]
  OBVIOUS
<1>3. PICK slot : slot = IF p \in Registered THEN Slot(p) ELSE Len(gateway) + 1
  OBVIOUS
<1>4. /\ made < MaxHandlers /\ made' = made + 1 /\ UNCHANGED <<online, visits>>
      /\ gateway' = (IF p \in Registered THEN [gateway EXCEPT ![Slot(p)] = entry] ELSE Append(gateway, entry))
  BY <1>2 DEF RegisterPlatform
<1>5. made \in Nat /\ made' \in 0..MaxHandlers /\ entry \in Entries
      /\ entry.platform = p /\ entry.handler = made + 1 /\ ~entry.connected
  BY <1>1, <1>2, <1>4, GatewayAssumption DEF TableFits, Entries
<1>6. /\ DOMAIN gateway = 1..Len(gateway) /\ Len(gateway) \in Nat
      /\ \A k \in DOMAIN gateway : gateway[k] \in Entries
      /\ \A k \in DOMAIN gateway : Slot(gateway[k].platform) = k /\ gateway[k].platform \in Registered
      /\ \A q \in Registered : /\ Slot(q) \in DOMAIN gateway /\ gateway[Slot(q)].platform = q
                               /\ (Flag(q) <=> gateway[Slot(q)].connected)
  BY <1>1, SlotIs
<1>7. /\ gateway' \in Seq(Entries) /\ DOMAIN gateway' = DOMAIN gateway \cup {slot}
      /\ gateway'[slot] = entry /\ \A k \in DOMAIN gateway : k # slot => gateway'[k] = gateway[k]
  <2>1. CASE p \in Registered
    <3>1. gateway \in [1..Len(gateway) -> Entries] /\ slot \in 1..Len(gateway)
          /\ gateway' = [gateway EXCEPT ![slot] = entry]
      BY <1>1, <1>3, <1>4, <1>6, <2>1 DEF TableFits
    <3>2. gateway' \in [1..Len(gateway) -> Entries]
      BY <1>5, <3>1
    <3> QED
      BY <1>6, <3>1, <3>2
  <2>2. CASE p \notin Registered
    BY <1>1, <1>3, <1>4, <1>5, <1>6, <2>2 DEF TableFits
  <2> QED
    BY <2>1, <2>2
<1>8. \A k \in DOMAIN gateway : k # slot => gateway[k].platform # p
  BY <1>3, <1>6
<1>9. slot \in DOMAIN gateway => gateway[slot].platform = p
  BY <1>3, <1>6
<1>10. Registered' = Registered \cup {p}
  BY <1>5, <1>7, <1>9 DEF Registered
<1>11. \A k \in DOMAIN gateway : gateway[k].handler \in 1..made /\ gateway[k].handler # made + 1
  BY <1>1, <1>5 DEF TableFits
<1>12. TableFits'
  <2>1. online' \subseteq 1..made'
    BY <1>1, <1>4, <1>5 DEF TableFits
  <2>2. \A k \in DOMAIN gateway' : gateway'[k].handler \in 1..made'
    BY <1>4, <1>5, <1>7, <1>11
  <2>3. \A j, k \in DOMAIN gateway' : gateway'[j].platform = gateway'[k].platform => j = k
    BY <1>1, <1>5, <1>7, <1>8 DEF TableFits
  <2>4. \A j, k \in DOMAIN gateway' : gateway'[j].handler = gateway'[k].handler => j = k
    BY <1>1, <1>5, <1>7, <1>11 DEF TableFits
  <2> QED
    BY <1>5, <1>7, <2>1, <2>2, <2>3, <2>4 DEF TableFits
<1>13. ASSUME NEW q \in Registered, q # p
       PROVE  HandlerOf(q)' = HandlerOf(q) /\ (Flag(q)' <=> Flag(q))
  <2>1. Slot(q) \in DOMAIN gateway /\ Slot(q) # slot /\ gateway'[Slot(q)] = gateway[Slot(q)]
    BY <1>6, <1>7, <1>9, <1>13
  <2>2. \A k \in DOMAIN gateway' : gateway'[k].platform = q <=> k = Slot(q)
    BY <1>5, <1>6, <1>7, <1>13, <2>1
  <2>3. (CHOOSE k \in DOMAIN gateway' : gateway'[k].platform = q) = Slot(q)
    BY <1>7, <2>1, <2>2
  <2>4. HandlerOf(q)' = HandlerOf(q)
    BY <2>1, <2>3 DEF HandlerOf, Slot
  <2>5. Flag(q)' <=> gateway'[Slot(q)].connected
    BY <1>7, <2>1, <2>2 DEF Flag
  <2> QED
    BY <1>6, <2>1, <2>4, <2>5
<1>14. HandlerOf(p)' = made + 1 /\ ~Flag(p)'
  <2>1. \A k \in DOMAIN gateway' : gateway'[k].platform = p <=> k = slot
    BY <1>5, <1>7, <1>8
  <2>2. (CHOOSE k \in DOMAIN gateway' : gateway'[k].platform = p) = slot
    BY <1>7, <2>1
  <2>3. HandlerOf(p)' = gateway'[slot].handler
    BY <2>2 DEF HandlerOf, Slot
  <2>4. ~Flag(p)'
    BY <1>5, <1>7, <2>1 DEF Flag
  <2> QED
    BY <1>5, <1>7, <2>3, <2>4
<1>15. /\ unsettled \subseteq unsettled' /\ unsettled' \subseteq Platforms
       /\ (\E c \in GatewayCallers : visits[c].platform = p) => p \in unsettled'
  BY <1>1 DEF RegisterPlatform
<1>16. GatewayIsHonest'
  <2>1. made + 1 \notin online
    BY <1>1, <1>5 DEF TableFits
  <2> QED
    BY <1>1, <1>4, <1>10, <1>13, <1>14, <1>15, <2>1 DEF GatewayIsHonest
<1>17. ASSUME NEW c \in GatewayCallers PROVE VisitFits(visits[c])'
  <2>1. VisitFits(visits[c]) /\ visits'[c] = visits[c]
    BY <1>4 DEF GatewayInv
  <2>4. PICK v : v = visits[c]
    OBVIOUS
  <2>2. CASE visits[c].what = "none"
    BY <2>1, <2>2 DEF VisitFits
  <2>3. CASE visits[c].what # "none"
    <3>5. visits'[c] = v
      BY <2>1, <2>4
    <3>1. /\ v.call # "none" /\ v.platform \in Registered /\ v.handler \in 1..made
          /\ \A q \in Registered : q # v.platform => v.handler # HandlerOf(q)
          /\ v.platform \notin unsettled => v.handler = HandlerOf(v.platform)
          /\ \A k \in DOMAIN v.rest : v.rest[k] \in Registered
      BY <2>1, <2>3, <2>4 DEF VisitFits
    <3>2. v.handler \in 1..made' /\ v.handler # made + 1
      BY <1>4, <1>5, <3>1
    <3>3. ASSUME NEW q \in Registered', q # v.platform PROVE v.handler # HandlerOf(q)'
      <4>1. CASE q = p
        BY <1>14, <3>2, <4>1
      <4>2. CASE q # p
        <5>1. q \in Registered
          BY <1>10, <4>2
        <5>2. HandlerOf(q)' = HandlerOf(q) /\ v.handler # HandlerOf(q)
          BY <1>13, <3>1, <3>3, <4>2, <5>1
        <5> QED
          BY <5>2
      <4> QED
        BY <4>1, <4>2
    <3>4. v.platform \notin unsettled' => v.handler = HandlerOf(v.platform)'
      <4>1. v.platform = p => p \in unsettled'
        BY <1>15, <2>4
      <4>2. v.platform # p => HandlerOf(v.platform)' = HandlerOf(v.platform)
        BY <1>13, <3>1
      <4>3. v.platform \notin unsettled' => v.platform # p /\ v.handler = HandlerOf(v.platform)
        BY <1>15, <3>1, <4>1
      <4> QED
        BY <4>2, <4>3
    <3> QED
      BY <1>10, <3>5, <3>1, <3>2, <3>3, <3>4 DEF VisitFits
  <2> QED
    BY <2>2, <2>3
<1> QED
  BY <1>1, <1>4, <1>12, <1>15, <1>16, <1>17 DEF GatewayInv

LEMMA GatewayStep ==
    ASSUME GatewayInv, GatewayNext \/ UNCHANGED gatewayVars PROVE GatewayInv'
<1>1. CASE UNCHANGED gatewayVars
  <2>1. UNCHANGED <<gateway, online, made, unsettled, visits>>
    BY <1>1 DEF gatewayVars
  <2>2. TableFits' /\ GatewayIsHonest'
    BY <2>1 DEF GatewayInv, TableFits, GatewayIsHonest, Registered, Slot, Flag, HandlerOf
  <2>3. \A c \in GatewayCallers : VisitFits(visits[c])'
    <3>1. Registered' = Registered /\ \A q \in Registered : HandlerOf(q)' = HandlerOf(q)
      BY <2>1 DEF Registered, HandlerOf, Slot
    <3>2. \A c \in GatewayCallers : VisitFits(visits[c])
      BY DEF GatewayInv
    <3> QED
      BY <2>1, <3>1, <3>2 DEF VisitFits
  <2> QED
    BY <2>1, <2>2, <2>3 DEF GatewayInv
<1>2. CASE GatewayNext
  BY <1>2, ConnectReturnsKeeps, DisconnectReturnsKeeps, SendReturnsKeeps, CallPlatformKeeps, CallAllKeeps,
     RegisterPlatformKeeps, ConnectionBreaksKeeps DEF GatewayNext
<1> QED
  BY <1>1, <1>2

-----------------------------------------------------------------------------
(* The PTY (tools/real_terminal.py): as long as every read ended at the     *)
(* prompt of what was written, one thing runs at a time, and what is not    *)
(* read yet is its output alone.                                            *)

EndsInPrompt(s) ==
    /\ s # <<>> /\ s[Len(s)] = Prompt
    /\ \A i \in DOMAIN s : i # Len(s) => s[i] # Prompt

(* What was written still runs, ended unread, or was read to its prompt. *)
OutputAwaited ==
    \/ input = <<command>> /\ ~looked.prompt /\ \A i \in DOMAIN tty : tty[i] # Prompt
    \/ /\ input = <<>> /\ status = truth[command]
       /\ \/ ~looked.prompt /\ EndsInPrompt(tty)
          \/ looked.prompt /\ tty = <<>>

CodeAwaited ==
    \/ /\ input = <<ProbeExitCode>> /\ looked = Nothing /\ status = truth[command]
       /\ \A i \in DOMAIN tty : tty[i] = "echo"
    \/ /\ input = <<>> /\ truth[command] \in Codes
       /\ \A i \in DOMAIN tty : tty[i] # "lookalike" /\ (tty[i] \in Codes => tty[i] = truth[command])
       /\ \/ looked.code = truth[command]
          \/ looked.code = Unknown /\ \E i \in DOMAIN tty : tty[i] \in Codes
       /\ \/ ~looked.prompt /\ EndsInPrompt(tty)
          \/ looked.prompt /\ tty = <<>>

PtyTypes ==
    /\ bash \in {"none", "alive", "dead"}
    /\ tty \in Seq(Tokens)
    /\ status \in Codes
    /\ phase \in {"idle", "output", "code"}
    /\ command \in 0..MaxCommands
    /\ looked \in [prompt : BOOLEAN, code : Codes \cup {Unknown}]
    /\ truth \in [Commands -> Codes \cup {Unknown}]
    /\ results \in [Commands -> Codes \cup {Unknown}]
    /\ mixed \in BOOLEAN

OneAtATime ==
    /\ bash # "dead" /\ (phase # "idle" => bash = "alive" /\ command \in Commands)
    /\ phase = "idle" => input = <<>> /\ tty = <<>>
    /\ phase = "output" => OutputAwaited
    /\ phase = "code" => CodeAwaited
    /\ \A c \in Commands :
          /\ results[c] = Unknown \/ results[c] = truth[c]
          /\ c > command \/ (c = command /\ phase # "idle") => results[c] = Unknown

PtyInv == PtyTypes /\ (~mixed => OneAtATime)

LEMMA PtyNumbers ==
    /\ MaxCommands \in Nat
    /\ \A c : c \in Commands <=> c \in Nat /\ 1 <= c /\ c <= MaxCommands
    /\ ProbeExitCode = 0 /\ 0 \notin Commands
    /\ "ok" \in Codes /\ "bad" \in Codes /\ Unknown \notin Codes
    /\ Codes \subseteq Tokens /\ Prompt \in Tokens /\ "echo" \in Tokens /\ "lookalike" \in Tokens
    /\ Prompt \notin Codes /\ "echo" \notin Codes /\ "echo" # Prompt /\ "lookalike" # Prompt
    /\ "lookalike" \notin Codes
  BY PtyAssumption DEF Commands, ProbeExitCode, Codes, Unknown, Tokens, Prompt

LEMMA NothingIs ==
    /\ Nothing \in [prompt : BOOLEAN, code : Codes \cup {Unknown}]
    /\ Nothing.prompt = FALSE /\ Nothing.code = Unknown
  BY DEF Nothing

LEMMA LengthIs ==
    ASSUME NEW S, NEW s \in Seq(S)
    PROVE  /\ DOMAIN s = 1..Len(s) /\ Len(s) \in Nat
           /\ Len(s) = 0 <=> s = <<>>
  OBVIOUS

(* The first n pieces, and the rest. *)
LEMMA FirstPieces ==
    ASSUME NEW S, NEW s \in Seq(S), NEW n \in 1..Len(s)
    PROVE  /\ SubSeq(s, 1, n) \in Seq(S) /\ Len(SubSeq(s, 1, n)) = n
           /\ DOMAIN SubSeq(s, 1, n) = 1..n
           /\ \A i \in 1..n : i \in DOMAIN s /\ SubSeq(s, 1, n)[i] = s[i]
<1>1. Len(s) \in Nat /\ n \in Nat /\ n <= Len(s) /\ DOMAIN s = 1..Len(s)
  OBVIOUS
<1> QED
  BY <1>1

LEMMA PiecesFrom ==
    ASSUME NEW S, NEW s \in Seq(S), NEW m \in 1..(Len(s) + 1)
    PROVE  /\ SubSeq(s, m, Len(s)) \in Seq(S)
           /\ Len(SubSeq(s, m, Len(s))) = Len(s) + 1 - m
           /\ \A i \in 1..(Len(s) + 1 - m) :
                 m + i - 1 \in DOMAIN s /\ SubSeq(s, m, Len(s))[i] = s[m + i - 1]
<1>1. /\ SubSeq(s, m, Len(s)) \in Seq(S)
      /\ Len(SubSeq(s, m, Len(s))) = IF m <= Len(s) THEN Len(s) - m + 1 ELSE 0
  OBVIOUS
<1>2. \A i \in 1..(Len(s) - m + 1) : SubSeq(s, m, Len(s))[i] = s[m + i - 1]
  OBVIOUS
<1>3. Len(s) \in Nat /\ m \in Nat /\ 1 <= m /\ m <= Len(s) + 1 /\ DOMAIN s = 1..Len(s)
  OBVIOUS
<1> QED
  BY <1>1, <1>2, <1>3

LEMMA RestOfPieces ==
    ASSUME NEW S, NEW s \in Seq(S), NEW n \in 1..Len(s), NEW rest, rest = SubSeq(s, n + 1, Len(s))
    PROVE  /\ rest \in Seq(S) /\ DOMAIN rest = 1..Len(rest) /\ Len(rest) = Len(s) - n
           /\ \A i \in DOMAIN rest : n + i \in DOMAIN s /\ rest[i] = s[n + i]
           /\ n = Len(s) <=> rest = <<>>
<1>1. Len(s) \in Nat /\ n \in Nat /\ 1 <= n /\ n <= Len(s)
  OBVIOUS
<1>2. PICK m \in 1..(Len(s) + 1) : m = n + 1
  BY <1>1
<1>3. rest = SubSeq(s, m, Len(s))
  BY <1>2
<1>4. rest \in Seq(S) /\ Len(rest) = Len(s) + 1 - m
  BY Zenon, <1>3, PiecesFrom
<1>5. \A i \in 1..(Len(s) + 1 - m) : m + i - 1 \in DOMAIN s /\ rest[i] = s[m + i - 1]
  <2>1. \A i \in 1..(Len(s) + 1 - m) :
            m + i - 1 \in DOMAIN s /\ SubSeq(s, m, Len(s))[i] = s[m + i - 1]
    BY PiecesFrom
  <2> QED
    BY Zenon, <1>3, <2>1
<1>6. Len(s) + 1 - m = Len(s) - n /\ \A i \in Nat : m + i - 1 = n + i
  BY <1>1, <1>2
<1>7. DOMAIN rest = 1..Len(rest) /\ (Len(rest) = 0 <=> rest = <<>>)
  BY Zenon, <1>4, LengthIs
<1>8. n = Len(s) <=> Len(s) - n = 0
  BY <1>1
<1>9. \A i \in 1..(Len(s) - n) : i \in Nat
  OBVIOUS
<1>10. Len(rest) = Len(s) - n
  BY Zenon, <1>4, <1>6
<1>11. \A i \in DOMAIN rest : n + i \in DOMAIN s /\ rest[i] = s[n + i]
  BY Zenon, <1>5, <1>6, <1>7, <1>9, <1>10
<1> QED
  BY Zenon, <1>4, <1>7, <1>8, <1>10, <1>11

LEMMA PtyStart == PtyInit => PtyInv
<1> SUFFICES ASSUME PtyInit PROVE PtyInv
  OBVIOUS
<1>1. tty = <<>> /\ <<>> \in Seq(Tokens)
  BY DEF PtyInit
<1>2. PtyTypes
  <2>1. /\ truth \in [Commands -> Codes \cup {Unknown}] /\ results \in [Commands -> Codes \cup {Unknown}]
        /\ command \in 0..MaxCommands /\ status \in Codes
    BY PtyNumbers DEF PtyInit
  <2>2. looked \in [prompt : BOOLEAN, code : Codes \cup {Unknown}]
    BY NothingIs DEF PtyInit
  <2> QED
    BY <1>1, <2>1, <2>2 DEF PtyInit, PtyTypes
<1>3. OneAtATime
  BY DEF PtyInit, OneAtATime
<1> QED
  BY <1>2, <1>3 DEF PtyInv

LEMMA NextCommand ==
    ASSUME PtyTypes, command < MaxCommands
    PROVE  /\ command + 1 \in Commands /\ command + 1 \in 0..MaxCommands /\ command \in Nat
           /\ \A c \in Commands : c > command + 1 => c > command /\ c # command + 1
<1>1. command \in 0..MaxCommands
  BY DEF PtyTypes
<1>2. MaxCommands \in Nat /\ \A c \in Commands : c \in Nat
  BY PtyNumbers
<1>3. command \in Nat /\ command + 1 \in Nat /\ 1 <= command + 1 /\ command + 1 <= MaxCommands
  BY <1>1, <1>2
<1>4. command + 1 \in Commands /\ command + 1 \in 0..MaxCommands
  BY <1>2, <1>3, PtyNumbers
<1>5. ASSUME NEW c \in Commands, c > command + 1 PROVE c > command /\ c # command + 1
  BY <1>2, <1>3, <1>5
<1> QED
  BY <1>3, <1>4, <1>5

(* What bash and the reader do to an output that is not read to its end. *)
LEMMA MorePrompt ==
    ASSUME NEW s \in Seq(Tokens), \A i \in DOMAIN s : s[i] # Prompt
    PROVE  Append(s, Prompt) \in Seq(Tokens) /\ EndsInPrompt(Append(s, Prompt))
<1>1. PICK t : t = Append(s, Prompt)
  OBVIOUS
<1>2. /\ t \in Seq(Tokens) /\ Len(t) = Len(s) + 1 /\ t[Len(s) + 1] = Prompt
      /\ t # <<>> /\ Len(s) \in Nat /\ DOMAIN t = 1..(Len(s) + 1)
      /\ \A i \in 1..Len(s) : i \in DOMAIN s /\ t[i] = s[i]
  BY <1>1, PtyNumbers
<1>3. \A i \in DOMAIN t : i # Len(t) => i \in 1..Len(s)
  BY <1>2
<1> QED
  BY <1>1, <1>2, <1>3 DEF EndsInPrompt

LEMMA MoreAppended ==
    ASSUME NEW s \in Seq(Tokens), NEW x \in Tokens, NEW P, P \subseteq Tokens, x \in P,
           \A i \in DOMAIN s : s[i] \in P
    PROVE  /\ Append(s, x) \in Seq(Tokens)
           /\ \A i \in DOMAIN Append(s, x) : Append(s, x)[i] \in P
  OBVIOUS

LEMMA LeastPosition ==
    ASSUME NEW read \in Seq(Tokens), NEW C, \E i \in DOMAIN read : read[i] \in C
    PROVE  \E i \in DOMAIN read : read[i] \in C /\ \A j \in 1..(i - 1) : read[j] \notin C
<1>1. PICK S : S = {i \in DOMAIN read : read[i] \in C}
  OBVIOUS
<1>2. S \in SUBSET Nat /\ S # {} /\ DOMAIN read = 1..Len(read) /\ Len(read) \in Nat
  BY <1>1, LengthIs
<1>3. PICK i \in S : \A m \in S : i <= m
  BY <1>2, LeastNatural
<1>4. i \in Nat /\ 1 <= i /\ i <= Len(read) /\ \A j \in 1..(i - 1) : j \in DOMAIN read /\ ~(i <= j)
  BY <1>1, <1>2
<1> QED
  BY <1>1, <1>3, <1>4

LEMMA FirstCodeIs ==
    ASSUME NEW read \in Seq(Tokens)
    PROVE  /\ FirstCode(read) \in Codes \cup {Unknown}
           /\ (\A i \in DOMAIN read : read[i] \notin Codes) => FirstCode(read) = Unknown
           /\ (\E i \in DOMAIN read : read[i] \in Codes) =>
                 \E i \in DOMAIN read : read[i] \in Codes /\ FirstCode(read) = read[i]
<1>1. CASE \E i \in DOMAIN read : read[i] \in Codes
  <2> DEFINE First(i) == read[i] \in Codes /\ \A j \in 1..(i - 1) : read[j] \notin Codes
  <2>1. \E i \in DOMAIN read : First(i)
    BY <1>1, LeastPosition
  <2>2. PICK k : k = CHOOSE i \in DOMAIN read : First(i)
    OBVIOUS
  <2>3. k \in DOMAIN read /\ First(k)
    BY Zenon, <2>1, <2>2
  <2>4. FirstCode(read) = read[k]
    BY Zenon, <1>1, <2>2 DEF FirstCode
  <2> QED
    BY <1>1, <2>3, <2>4
<1>2. CASE ~\E i \in DOMAIN read : read[i] \in Codes
  BY <1>2 DEF FirstCode
<1> QED
  BY <1>1, <1>2

LEMMA ExecuteOneShotKeeps ==
    ASSUME PtyInv, NEW shell, NEW code \in Codes, ExecuteOneShot(shell, code)
    PROVE  PtyInv'
<1>1. /\ phase = "idle" /\ command < MaxCommands /\ command' = command + 1
      /\ UNCHANGED <<bash, input, status, tty, phase, looked, mixed>>
  BY DEF ExecuteOneShot
<1>2. PICK end \in {"ends", "expires", "cannot start"} :
          /\ truth' = [truth EXCEPT ![command + 1] = IF end = "ends" THEN code ELSE "bad"]
          /\ results' = [results EXCEPT ![command + 1] =
                IF end = "ends" /\ code = "ok" THEN "ok" ELSE "bad"]
  BY DEF ExecuteOneShot
<1>3. PICK real \in Codes : real = (IF end = "ends" THEN code ELSE "bad")
                         /\ real = (IF end = "ends" /\ code = "ok" THEN "ok" ELSE "bad")
  BY DEF Codes
<1>4. /\ truth' = [truth EXCEPT ![command + 1] = real]
      /\ results' = [results EXCEPT ![command + 1] = real]
  BY <1>2, <1>3
<1>5. PtyTypes
  BY DEF PtyInv
<1>6. command + 1 \in Commands /\ command \in Nat /\ command' \in 0..MaxCommands
  BY <1>1, <1>5, NextCommand
<1>7. PtyTypes'
  BY <1>1, <1>4, <1>5, <1>6 DEF PtyTypes
<1>8. ASSUME ~mixed' PROVE OneAtATime'
  <2>1. OneAtATime
    BY <1>1, <1>8 DEF PtyInv
  <2>2. ASSUME NEW c \in Commands
        PROVE  /\ results'[c] = Unknown \/ results'[c] = truth'[c]
               /\ c > command' \/ (c = command' /\ phase' # "idle") => results'[c] = Unknown
    <3>1. c > command' => c > command /\ c # command + 1
      BY <1>1, <1>5, NextCommand
    <3> QED
      BY <2>1, <3>1, <1>1, <1>4, <1>5 DEF OneAtATime, PtyTypes
  <2> QED
    BY <2>1, <2>2, <1>1 DEF OneAtATime
<1> QED
  BY <1>7, <1>8 DEF PtyInv

LEMMA PtyExecuteKeeps ==
    ASSUME PtyInv, NEW shell, PtyExecute(shell)
    PROVE  PtyInv'
<1>1. /\ phase = "idle" /\ command < MaxCommands /\ command' = command + 1
      /\ phase' = "output" /\ looked' = Nothing /\ bash' = "alive"
      /\ UNCHANGED <<truth, results, mixed>>
      /\ status' = status \/ status' = "ok"
      /\ \/ input' = Append(input, command + 1) /\ tty' = Append(tty, "echo")
         \/ input' = <<command + 1>> /\ tty' = <<"echo">>
  BY DEF PtyExecute, Write
<1>2. PtyTypes
  BY DEF PtyInv
<1>3. command + 1 \in Commands /\ command \in Nat /\ command' \in 0..MaxCommands
  BY <1>1, <1>2, NextCommand
<1>4. tty' \in Seq(Tokens)
  <2>1. tty \in Seq(Tokens) /\ "echo" \in Tokens
    BY <1>2, PtyNumbers DEF PtyTypes
  <2>2. Append(tty, "echo") \in Seq(Tokens) /\ <<"echo">> \in Seq(Tokens)
    BY <2>1
  <2> QED
    BY Zenon, <1>1, <2>2
<1>5. PtyTypes'
  BY <1>1, <1>2, <1>3, <1>4, NothingIs, PtyNumbers DEF PtyTypes
<1>6. ASSUME ~mixed' PROVE OneAtATime'
  <2>1. OneAtATime
    BY <1>1, <1>6 DEF PtyInv
  <2>2. input = <<>> /\ tty = <<>>
    BY <2>1, <1>1 DEF OneAtATime
  <2>3. Append(<<>>, command + 1) = <<command + 1>> /\ Append(<<>>, "echo") = <<"echo">>
    OBVIOUS
  <2>4. input' = <<command'>> /\ tty' = <<"echo">>
    BY Zenon, <1>1, <2>2, <2>3
  <2>5. \A i \in DOMAIN tty' : tty'[i] = "echo"
    BY <2>4
  <2>6. OutputAwaited'
    BY <1>1, <2>4, <2>5, NothingIs, PtyNumbers DEF OutputAwaited
  <2>7. ASSUME NEW c \in Commands
        PROVE  /\ results[c] = Unknown \/ results[c] = truth[c]
               /\ c > command' \/ c = command' => results[c] = Unknown
    <3>1. c > command' \/ c = command' => c > command
      BY <1>1, <1>3, PtyNumbers
    <3> QED
      BY <3>1, <2>1 DEF OneAtATime
  <2> QED
    BY <1>1, <1>3, <2>6, <2>7 DEF OneAtATime
<1> QED
  BY <1>5, <1>6 DEF PtyInv

LEMMA PrintsLookalikeKeeps == ASSUME PtyInv, PrintsLookalike PROVE PtyInv'
<1>1. /\ bash = "alive" /\ input # <<>> /\ Head(input) # ProbeExitCode
      /\ tty' = Append(tty, "lookalike")
      /\ UNCHANGED <<bash, input, status, phase, command, looked, truth, results, mixed>>
  BY DEF PrintsLookalike
<1>2. PtyTypes /\ tty \in Seq(Tokens)
  BY DEF PtyInv, PtyTypes
<1>3. tty' \in Seq(Tokens)
  BY <1>1, <1>2, PtyNumbers
<1>4. PtyTypes'
  BY <1>1, <1>2, <1>3 DEF PtyTypes
<1>5. ASSUME ~mixed' PROVE OneAtATime'
  <2>1. OneAtATime
    BY <1>1, <1>5 DEF PtyInv
  <2>2. phase = "output"
    <3>1. Head(<<ProbeExitCode>>) = ProbeExitCode
      OBVIOUS
    <3>2. phase # "code"
      BY Zenon, <3>1, <2>1, <1>1 DEF OneAtATime, CodeAwaited
    <3> QED
      BY <3>2, <2>1, <1>1, <1>2 DEF OneAtATime, PtyTypes
  <2>3. input = <<command>> /\ ~looked.prompt /\ \A i \in DOMAIN tty : tty[i] # Prompt
    BY <2>1, <2>2, <1>1 DEF OneAtATime, OutputAwaited
  <2>4. \A i \in DOMAIN tty' : tty'[i] # Prompt
    BY <2>3, <1>1, <1>2, PtyNumbers
  <2>5. OutputAwaited'
    BY <2>3, <2>4, <1>1 DEF OutputAwaited
  <2> QED
    BY <2>1, <2>2, <2>5, <1>1 DEF OneAtATime
<1> QED
  BY <1>4, <1>5 DEF PtyInv

LEMMA CommandEndsKeeps ==
    ASSUME PtyInv, NEW code \in Codes, CommandEnds(code)
    PROVE  PtyInv'
<1>1. /\ bash = "alive" /\ input # <<>> /\ input' = Tail(input)
      /\ UNCHANGED <<bash, phase, command, looked, results, mixed>>
  BY DEF CommandEnds
<1>2. PtyTypes /\ tty \in Seq(Tokens) /\ status \in Codes
  BY DEF PtyInv, PtyTypes
<1>3. \/ /\ Head(input) = ProbeExitCode /\ tty' = tty \o <<status, Prompt>>
         /\ status' = "ok" /\ truth' = truth
      \/ /\ Head(input) # ProbeExitCode /\ tty' = Append(tty, Prompt) /\ status' = code
         /\ truth' = [truth EXCEPT ![Head(input)] = code]
  BY DEF CommandEnds
<1>4. tty' \in Seq(Tokens)
  <2>1. <<status, Prompt>> \in Seq(Tokens)
    BY <1>2, PtyNumbers
  <2>2. CASE tty' = tty \o <<status, Prompt>>
    BY <2>1, <2>2, <1>2
  <2>3. CASE tty' = Append(tty, Prompt)
    BY <2>3, <1>2, PtyNumbers
  <2> QED
    BY <1>3, <2>2, <2>3
<1>5. truth' \in [Commands -> Codes \cup {Unknown}] /\ status' \in Codes
  <2>1. truth \in [Commands -> Codes \cup {Unknown}] /\ "ok" \in Codes
    BY PtyNumbers, <1>2 DEF PtyTypes
  <2> QED
    BY <1>3, <2>1
<1>6. PtyTypes'
  BY <1>1, <1>2, <1>4, <1>5 DEF PtyTypes
<1>7. ASSUME ~mixed' PROVE OneAtATime'
  <2>1. OneAtATime /\ phase # "idle" /\ command \in Commands
    BY <1>1, <1>7 DEF PtyInv, OneAtATime
  <2>2. CASE phase = "output"
    <3>1. input = <<command>> /\ ~looked.prompt /\ \A i \in DOMAIN tty : tty[i] # Prompt
      BY <2>1, <2>2, <1>1 DEF OneAtATime, OutputAwaited
    <3>2. Head(<<command>>) = command /\ Tail(<<command>>) = <<>>
      OBVIOUS
    <3>3. Head(input) = command /\ input' = <<>> /\ command # ProbeExitCode
      BY <3>1, <3>2, <2>1, <1>1, PtyNumbers
    <3>4. /\ tty' = Append(tty, Prompt) /\ status' = code
          /\ truth' = [truth EXCEPT ![command] = code]
      BY <3>3, <1>3
    <3>5. EndsInPrompt(tty')
      BY <3>1, <3>4, <1>2, MorePrompt
    <3>6. truth'[command] = code /\ \A c \in Commands : c # command => truth'[c] = truth[c]
      BY <3>4, <2>1, <1>2 DEF PtyTypes
    <3>7. OutputAwaited'
      BY <3>1, <3>3, <3>4, <3>5, <3>6, <1>1 DEF OutputAwaited, EndsInPrompt
    <3>8. \A c \in Commands :
              /\ results[c] = Unknown \/ results[c] = truth'[c]
              /\ c > command \/ c = command => results[c] = Unknown
      BY <3>6, <2>1 DEF OneAtATime
    <3> QED
      BY <2>1, <2>2, <3>7, <3>8, <1>1 DEF OneAtATime
  <2>3. CASE phase = "code"
    <3>1. /\ input = <<ProbeExitCode>> /\ looked = Nothing /\ status = truth[command]
          /\ \A i \in DOMAIN tty : tty[i] = "echo"
      BY <2>1, <2>3, <1>1 DEF OneAtATime, CodeAwaited
    <3>2. Head(<<ProbeExitCode>>) = ProbeExitCode /\ Tail(<<ProbeExitCode>>) = <<>>
      OBVIOUS
    <3>3. Head(input) = ProbeExitCode /\ input' = <<>>
      BY <3>1, <3>2, <1>1
    <3>4. tty' = tty \o <<status, Prompt>> /\ truth' = truth
      BY <3>3, <1>3
    <3>5. PICK n \in Nat : n = Len(tty) /\ DOMAIN tty = 1..n
      BY <1>2
    <3>6. /\ Len(tty') = n + 2 /\ DOMAIN tty' = 1..(n + 2)
          /\ tty'[n + 1] = status /\ tty'[n + 2] = Prompt
          /\ \A i \in 1..n : tty'[i] = tty[i]
      BY <3>4, <3>5, <1>2
    <3>7. \A i \in DOMAIN tty' : i \in 1..n \/ i = n + 1 \/ i = n + 2
      BY <3>5, <3>6
    <3>8. \A i \in DOMAIN tty' : tty'[i] # "lookalike" /\ (tty'[i] \in Codes => tty'[i] = status)
      BY <3>1, <3>5, <3>6, <3>7, <1>2, PtyNumbers
    <3>9. EndsInPrompt(tty')
      <4>1. tty' # <<>> /\ tty'[Len(tty')] = Prompt
        BY <3>5, <3>6
      <4>2. \A i \in DOMAIN tty' : i # Len(tty') => tty'[i] # Prompt
        BY <3>1, <3>5, <3>6, <3>7, <1>2, PtyNumbers
      <4> QED
        BY <4>1, <4>2 DEF EndsInPrompt
    <3>10. \E i \in DOMAIN tty' : tty'[i] \in Codes
      <4>1. n + 1 \in DOMAIN tty'
        BY <3>5, <3>6
      <4> QED
        BY <4>1, <3>6, <1>2
    <3>11. CodeAwaited'
      <4>1. truth'[command'] \in Codes /\ truth'[command'] = status
        BY <3>1, <3>4, <1>1, <1>2
      <4>2. looked'.code = Unknown /\ ~looked'.prompt
        BY <3>1, <1>1, NothingIs
      <4>3. \A i \in DOMAIN tty' : tty'[i] # "lookalike" /\ (tty'[i] \in Codes => tty'[i] = truth'[command'])
        BY <3>8, <4>1
      <4> QED
        BY <3>3, <3>9, <3>10, <4>1, <4>2, <4>3 DEF CodeAwaited, EndsInPrompt
    <3> QED
      BY <2>1, <2>3, <3>4, <3>11, <1>1 DEF OneAtATime
  <2> QED
    BY <2>1, <2>2, <2>3, <1>2 DEF PtyTypes
<1> QED
  BY <1>6, <1>7 DEF PtyInv

LEMMA ReadChunkKeeps == ASSUME PtyInv, NEW n \in 1..Len(tty), ReadChunk(n) PROVE PtyInv'
<1>1. PICK read : read = SubSeq(tty, 1, n)
  OBVIOUS
<1>2. /\ phase # "idle" /\ ~looked.prompt
      /\ tty' = SubSeq(tty, n + 1, Len(tty))
      /\ looked' = [prompt |-> LooksLikePrompt(read),
                    code |-> IF looked.code = Unknown THEN FirstCode(read) ELSE looked.code]
      /\ mixed' = (mixed \/ \E i \in DOMAIN read : read[i] = "lookalike")
      /\ UNCHANGED <<bash, input, status, phase, command, truth, results>>
  BY Zenon, <1>1 DEF ReadChunk
<1>3. PtyTypes /\ tty \in Seq(Tokens) /\ looked.code \in Codes \cup {Unknown}
  BY DEF PtyInv, PtyTypes
<1>4. /\ read \in Seq(Tokens) /\ Len(read) = n /\ DOMAIN read = 1..n
      /\ \A i \in 1..n : i \in DOMAIN tty /\ read[i] = tty[i]
  BY <1>1, <1>3, FirstPieces
<1>5. /\ tty' \in Seq(Tokens) /\ DOMAIN tty' = 1..Len(tty') /\ Len(tty') = Len(tty) - n
      /\ \A i \in DOMAIN tty' : n + i \in DOMAIN tty /\ tty'[i] = tty[n + i]
      /\ n = Len(tty) <=> tty' = <<>>
  <2>1. tty' = SubSeq(tty, n + 1, Len(tty)) /\ tty \in Seq(Tokens)
    BY <1>2, <1>3
  <2>2. PICK rest : rest = SubSeq(tty, n + 1, Len(tty))
    OBVIOUS
  <2>3. rest \in Seq(Tokens) /\ DOMAIN rest = 1..Len(rest) /\ Len(rest) = Len(tty) - n
    BY <2>1, <2>2, RestOfPieces
  <2>4. \A i \in DOMAIN rest : n + i \in DOMAIN tty /\ rest[i] = tty[n + i]
    BY <2>1, <2>2, RestOfPieces
  <2>5. n = Len(tty) <=> rest = <<>>
    BY <2>1, <2>2, RestOfPieces
  <2>6. tty' = rest
    BY <2>1, <2>2
  <2> QED
    BY Zenon, <2>3, <2>4, <2>5, <2>6
<1>6. Len(tty) \in Nat /\ n \in Nat /\ 1 <= n /\ n <= Len(tty) /\ DOMAIN tty = 1..Len(tty)
  BY <1>3
<1>7. looked'.code \in Codes \cup {Unknown}
  BY <1>2, <1>3, <1>4, FirstCodeIs
<1>8. looked' \in [prompt : BOOLEAN, code : Codes \cup {Unknown}]
  BY <1>2, <1>7 DEF LooksLikePrompt
<1>9. PtyTypes'
  BY <1>2, <1>3, <1>5, <1>8 DEF PtyTypes
<1>10. ASSUME ~mixed' PROVE OneAtATime'
  <2>1. OneAtATime /\ \A i \in 1..n : read[i] # "lookalike"
    BY <1>2, <1>4, <1>10 DEF PtyInv
  <2>2. looked'.prompt <=> tty[n] = Prompt
    <3>1. LooksLikePrompt(read) <=> read[Len(read)] = Prompt
      BY <2>1, <1>4 DEF LooksLikePrompt
    <3>2. read[Len(read)] = tty[n]
      BY <1>4, <1>6
    <3> QED
      BY <3>1, <3>2, <1>2
  (* A prompt that is the last thing unread is read with the last piece. *)
  <2>3. ASSUME EndsInPrompt(tty)
        PROVE  \/ ~looked'.prompt /\ EndsInPrompt(tty')
               \/ looked'.prompt /\ tty' = <<>>
    <3>1. CASE n = Len(tty)
      BY <3>1, <2>2, <2>3, <1>5 DEF EndsInPrompt
    <3>2. CASE n # Len(tty)
      <4>1. ~looked'.prompt
        BY <3>2, <2>2, <2>3, <1>6 DEF EndsInPrompt
      <4>2. /\ tty' # <<>> /\ Len(tty') \in DOMAIN tty' /\ n + Len(tty') = Len(tty)
        BY <3>2, <1>5, <1>6
      <4>3. tty'[Len(tty')] = Prompt
        BY <4>2, <2>3, <1>5 DEF EndsInPrompt
      <4>4. ASSUME NEW i \in DOMAIN tty', i # Len(tty') PROVE tty'[i] # Prompt
        <5>1. n + i # Len(tty) /\ n + i \in DOMAIN tty /\ tty'[i] = tty[n + i]
          <6>1. i \in Nat /\ Len(tty') \in Nat
            BY <1>5, <1>6
          <6>2. n + i # Len(tty)
            BY <6>1, <4>2, <4>4, <1>6
          <6> QED
            BY <6>2, <1>5
        <5> QED
          BY <5>1, <2>3 DEF EndsInPrompt
      <4> QED
        BY <4>1, <4>2, <4>3, <4>4 DEF EndsInPrompt
    <3> QED
      BY <3>1, <3>2
  <2>4. CASE phase = "output"
    <3>1. OutputAwaited
      BY <2>1, <2>4 DEF OneAtATime
    <3>2. CASE input = <<command>> /\ \A i \in DOMAIN tty : tty[i] # Prompt
      <4>1. ~looked'.prompt /\ \A i \in DOMAIN tty' : tty'[i] # Prompt
        BY <3>2, <2>2, <1>4, <1>5, <1>6
      <4> QED
        BY <4>1, <3>2, <2>1, <2>4, <1>2 DEF OneAtATime, OutputAwaited
    <3>3. CASE input = <<>> /\ status = truth[command] /\ EndsInPrompt(tty)
      <4>1. OutputAwaited'
        BY <3>3, <2>3, <1>2 DEF OutputAwaited, EndsInPrompt
      <4> QED
        BY <4>1, <2>1, <2>4, <1>2 DEF OneAtATime
    <3> QED
      BY <3>1, <3>2, <3>3, <1>2 DEF OutputAwaited
  <2>5. CASE phase = "code"
    <3>1. CodeAwaited
      BY <2>1, <2>5 DEF OneAtATime
    <3>2. CASE /\ input = <<ProbeExitCode>> /\ looked = Nothing /\ status = truth[command]
               /\ \A i \in DOMAIN tty : tty[i] = "echo"
      <4>1. \A i \in DOMAIN tty' : tty'[i] = "echo"
        BY <3>2, <1>5
      <4>2. looked'.prompt = FALSE /\ FirstCode(read) = Unknown
        <5>1. \A i \in DOMAIN read : read[i] \notin Codes
          BY <3>2, <1>4, PtyNumbers
        <5>2. LooksLikePrompt(read) = FALSE
          BY <3>2, <2>1, <1>4, <1>6, PtyNumbers DEF LooksLikePrompt
        <5> QED
          BY <5>1, <5>2, <1>2, <1>4, FirstCodeIs
      <4>3. looked' = Nothing
        BY <4>2, <3>2, <1>2 DEF Nothing
      <4>4. CodeAwaited'
        BY <4>1, <4>3, <3>2, <1>2 DEF CodeAwaited
      <4> QED
        BY <4>4, <2>1, <2>5, <1>2 DEF OneAtATime
    <3>3. CASE /\ input = <<>> /\ truth[command] \in Codes
               /\ \A i \in DOMAIN tty : tty[i] # "lookalike" /\ (tty[i] \in Codes => tty[i] = truth[command])
               /\ \/ looked.code = truth[command]
                  \/ looked.code = Unknown /\ \E i \in DOMAIN tty : tty[i] \in Codes
               /\ EndsInPrompt(tty)
      <4>1. \A i \in DOMAIN tty' : tty'[i] # "lookalike" /\ (tty'[i] \in Codes => tty'[i] = truth[command])
        BY <3>3, <1>5
      <4>2. \/ looked'.code = truth[command]
            \/ looked'.code = Unknown /\ \E i \in DOMAIN tty' : tty'[i] \in Codes
        <5>1. CASE looked.code = truth[command]
          BY <5>1, <3>3, <1>2, PtyNumbers
        <5>2. CASE looked.code = Unknown /\ \E i \in DOMAIN read : read[i] \in Codes
          <6>1. PICK i \in DOMAIN read : read[i] \in Codes /\ FirstCode(read) = read[i]
            BY <5>2, <1>4, FirstCodeIs
          <6>2. read[i] = truth[command]
            BY <6>1, <3>3, <1>4
          <6> QED
            BY <5>2, <6>1, <6>2, <1>2
        <5>3. CASE /\ looked.code = Unknown /\ ~(\E i \in DOMAIN read : read[i] \in Codes)
                   /\ \E i \in DOMAIN tty : tty[i] \in Codes
          <6>1. PICK i \in DOMAIN tty : tty[i] \in Codes
            BY <5>3
          <6>2. ~(i \in 1..n)
            BY <6>1, <5>3, <1>4
          <6>3. i - n \in DOMAIN tty' /\ n + (i - n) = i
            BY <6>2, <1>5, <1>6
          <6>4. tty'[i - n] = tty[i]
            BY <6>3, <1>5
          <6>5. looked'.code = Unknown
            BY <5>3, <1>2, <1>4, FirstCodeIs
          <6> QED
            BY <6>1, <6>3, <6>4, <6>5
        <5> QED
          BY <5>1, <5>2, <5>3, <3>3
      <4>3. CodeAwaited'
        BY <4>1, <4>2, <3>3, <2>3, <1>2 DEF CodeAwaited, EndsInPrompt
      <4> QED
        BY <4>3, <2>1, <2>5, <1>2 DEF OneAtATime
    <3> QED
      BY <3>1, <3>2, <3>3, <1>2 DEF CodeAwaited
  <2> QED
    BY <2>4, <2>5, <1>2, <1>3 DEF PtyTypes
<1> QED
  BY <1>9, <1>10 DEF PtyInv

LEMMA AskForCodeKeeps == ASSUME PtyInv, AskForCode PROVE PtyInv'
<1>1. /\ phase = "output" /\ phase' = "code" /\ looked' = Nothing
      /\ mixed' = (mixed \/ ~looked.prompt)
      /\ bash = "alive" => input' = Append(input, ProbeExitCode) /\ tty' = Append(tty, "echo")
      /\ bash # "alive" => tty' = tty
      /\ UNCHANGED <<bash, status, command, truth, results>>
  BY DEF AskForCode, Write
<1>2. PtyTypes /\ tty \in Seq(Tokens)
  BY DEF PtyInv, PtyTypes
<1>3. tty' \in Seq(Tokens)
  BY <1>1, <1>2, PtyNumbers
<1>4. PtyTypes'
  BY <1>1, <1>2, <1>3, NothingIs DEF PtyTypes
<1>5. ASSUME ~mixed' PROVE OneAtATime'
  <2>1. OneAtATime /\ looked.prompt
    BY <1>1, <1>5 DEF PtyInv
  <2>2. bash = "alive" /\ input = <<>> /\ tty = <<>> /\ status = truth[command]
    BY <2>1, <1>1 DEF OneAtATime, OutputAwaited
  <2>3. Append(<<>>, ProbeExitCode) = <<ProbeExitCode>> /\ Append(<<>>, "echo") = <<"echo">>
    OBVIOUS
  <2>4. input' = <<ProbeExitCode>> /\ tty' = <<"echo">>
    BY Zenon, <1>1, <2>2, <2>3
  <2>5. \A i \in DOMAIN tty' : tty'[i] = "echo"
    BY <2>4
  <2>6. CodeAwaited'
    BY <2>2, <2>4, <2>5, <1>1 DEF CodeAwaited
  <2> QED
    BY <2>1, <2>6, <1>1 DEF OneAtATime
<1> QED
  BY <1>4, <1>5 DEF PtyInv

LEMMA PtyReturnsKeeps == ASSUME PtyInv, PtyReturns PROVE PtyInv'
<1>1. /\ phase = "code" /\ phase' = "idle"
      /\ mixed' = (mixed \/ ~looked.prompt)
      /\ results' = [results EXCEPT ![command] = IF looked.code = Unknown THEN "ok" ELSE looked.code]
      /\ UNCHANGED <<bash, input, status, tty, command, looked, truth>>
  BY DEF PtyReturns
<1>2. PtyTypes /\ looked.code \in Codes \cup {Unknown}
  BY DEF PtyInv, PtyTypes
<1>3. results' \in [Commands -> Codes \cup {Unknown}]
  BY <1>1, <1>2, PtyNumbers DEF PtyTypes
<1>4. PtyTypes'
  BY <1>1, <1>2, <1>3 DEF PtyTypes
<1>5. ASSUME ~mixed' PROVE OneAtATime'
  <2>1. OneAtATime /\ looked.prompt
    BY <1>1, <1>5 DEF PtyInv
  <2>2. /\ input = <<>> /\ tty = <<>> /\ looked.code = truth[command] /\ truth[command] \in Codes
    BY <2>1, <1>1, NothingIs DEF OneAtATime, CodeAwaited
  <2>3. results' = [results EXCEPT ![command] = truth[command]]
    BY <1>1, <2>2, PtyNumbers
  <2>4. ASSUME NEW c \in Commands
        PROVE  /\ results'[c] = Unknown \/ results'[c] = truth[c]
               /\ c > command => results'[c] = Unknown
    <3>1. CASE c = command
      <4>1. c \in Nat
        BY PtyNumbers
      <4>2. ~(c > command)
        BY <3>1, <4>1
      <4>3. results'[c] = truth[c]
        BY <3>1, <2>3, <1>2 DEF PtyTypes
      <4> QED
        BY <4>2, <4>3
    <3>2. CASE c # command
      BY <3>2, <2>1, <2>3, <1>2 DEF PtyTypes, OneAtATime
    <3> QED
      BY <3>1, <3>2
  <2> QED
    BY <2>1, <2>2, <2>4, <1>1 DEF OneAtATime
<1> QED
  BY <1>4, <1>5 DEF PtyInv

(* Whatever ends bash mixes the outputs. *)
LEMMA BashEndsKeeps ==
    ASSUME PtyInv, BashDies \/ ClosePty \/ ExecuteRaises
    PROVE  PtyInv'
<1>1. PtyTypes /\ command \in 0..MaxCommands
  BY DEF PtyInv, PtyTypes
<1>2. CASE BashDies
  BY <1>1, <1>2 DEF BashDies, PtyInv, PtyTypes
<1>3. CASE ClosePty
  <2>1. tty' \in Seq(Tokens)
    BY <1>3 DEF ClosePty, ShellIsClosed
  <2> QED
    BY <1>1, <1>3, <2>1 DEF ClosePty, ShellIsClosed, PtyInv, PtyTypes
<1>4. CASE ExecuteRaises
  <2>1. /\ phase # "idle" /\ bash # "alive" /\ mixed' = mixed
        /\ results' = [results EXCEPT ![command] = "bad"] /\ phase' = "idle"
        /\ UNCHANGED <<bash, input, status, tty, command, looked, truth, mixed>>
    BY <1>4 DEF ExecuteRaises
  <2>2. mixed
    BY <2>1 DEF PtyInv, OneAtATime
  <2>3. results' \in [Commands -> Codes \cup {Unknown}]
    BY <2>1, <1>1, PtyNumbers DEF PtyTypes
  <2> QED
    BY <1>1, <2>1, <2>2, <2>3 DEF PtyInv, PtyTypes
<1> QED
  BY <1>2, <1>3, <1>4

LEMMA PtyStep == PtyInv /\ (PtyNext \/ UNCHANGED ptyVars) => PtyInv'
<1>1. ASSUME PtyInv, PtyNext PROVE PtyInv'
  BY <1>1, PrintsLookalikeKeeps, BashEndsKeeps, PtyExecuteKeeps, ExecuteOneShotKeeps, CommandEndsKeeps,
     ReadChunkKeeps, AskForCodeKeeps, PtyReturnsKeeps DEF PtyNext
<1>2. ASSUME PtyInv, UNCHANGED ptyVars PROVE PtyInv'
  <2>1. PtyTypes'
    BY <1>2 DEF PtyInv, ptyVars, PtyTypes
  <2>2. OneAtATime => OneAtATime'
    BY <1>2 DEF ptyVars, OneAtATime, OutputAwaited, CodeAwaited, EndsInPrompt
  <2> QED
    BY <2>1, <2>2, <1>2 DEF PtyInv, ptyVars
<1> QED
  BY <1>1, <1>2

LEMMA ExitCodesAreRight == PtyInv => ExitCodesAreReal
  BY DEF PtyInv, OneAtATime, ExitCodesAreReal

-----------------------------------------------------------------------------
(* Sandboxes (execution/docker_sandbox.py): containers are numbered as they *)
(* are created, so that a new one is nobody else's.                         *)

SandboxInv ==
    /\ SandboxTypeOK
    /\ \A c \in ContainerIds : c > born => containers[c] = "absent"
    /\ \A p \in Projects : ContainerOf(p) <= born
    /\ NoRunawayContainers

LEMMA SandboxNumbers ==
    /\ MaxContainers \in Nat
    /\ \A c : c \in ContainerIds <=> c \in Nat /\ 1 <= c /\ c <= MaxContainers
    /\ NoContainer = 0 /\ NoContainer \notin ContainerIds
  BY SandboxAssumption DEF ContainerIds, NoContainer

LEMMA SandboxesHave ==
    ASSUME SandboxTypeOK, NEW p \in Projects
    PROVE  /\ ContainerOf(p) \in ContainerIds \cup {NoContainer}
           /\ ContainerOf(p) \in Nat /\ born \in Nat
           /\ sandboxes[p] = NoSandbox \/ sandboxes[p] \in [status : SandboxStatus, container : ContainerIds \cup {NoContainer}]
  BY SandboxNumbers DEF SandboxTypeOK, ContainerOf, NoSandbox

LEMMA SandboxStart == SandboxInit => SandboxInv
<1> SUFFICES ASSUME SandboxInit PROVE SandboxInv
  OBVIOUS
<1>1. SandboxTypeOK
  BY SandboxNumbers DEF SandboxInit, SandboxTypeOK, ContainerStates
<1>2. \A p \in Projects : ContainerOf(p) = 0 /\ ContainerOf(p) <= born
  BY DEF SandboxInit, ContainerOf, NoSandbox, NoContainer
<1>3. NoRunawayContainers
  BY <1>2, SandboxNumbers DEF NoRunawayContainers, SandboxInit
<1> QED
  BY <1>1, <1>2, <1>3 DEF SandboxInv, SandboxInit

(* An entry takes another status. *)
LEMMA EntryIsMarked ==
    ASSUME SandboxTypeOK, NEW p \in Projects, Known(p), NEW s \in SandboxStatus, SetSandbox(p, s)
    PROVE  /\ sandboxes' \in [Projects -> {NoSandbox} \cup
                 [status : SandboxStatus, container : ContainerIds \cup {NoContainer}]]
           /\ \A q \in Projects : ContainerOf(q)' = ContainerOf(q)
<1>1. sandboxes' = [sandboxes EXCEPT ![p] = [sandboxes[p] EXCEPT !.status = s]]
  BY DEF SetSandbox
<1>2. sandboxes[p] \in [status : SandboxStatus, container : ContainerIds \cup {NoContainer}]
  BY SandboxesHave DEF Known
<1>3. /\ [sandboxes[p] EXCEPT !.status = s] \in [status : SandboxStatus, container : ContainerIds \cup {NoContainer}]
      /\ [sandboxes[p] EXCEPT !.status = s].container = sandboxes[p].container
  BY <1>2
<1>4. sandboxes \in [Projects -> {NoSandbox} \cup
                 [status : SandboxStatus, container : ContainerIds \cup {NoContainer}]]
  BY DEF SandboxTypeOK
<1> QED
  BY <1>1, <1>3, <1>4 DEF ContainerOf

(* Entries keep their containers, and what runs now ran before, has an entry, or
   had a request that failed. *)
LEMMA EntriesKept ==
    ASSUME SandboxInv,
           sandboxes' \in [Projects -> {NoSandbox} \cup
                [status : SandboxStatus, container : ContainerIds \cup {NoContainer}]],
           containers' \in [ContainerIds -> ContainerStates],
           born' \in 0..MaxContainers, born <= born', workspaces' \subseteq Projects,
           failedRequests \subseteq failedRequests', failedRequests' \subseteq ContainerIds,
           \A q \in Projects : ContainerOf(q)' = ContainerOf(q),
           \A c \in ContainerIds : c > born' => containers'[c] = "absent",
           \A c \in ContainerIds \ failedRequests' : containers'[c] = "running" =>
              containers[c] = "running" \/ \E q \in Projects : ContainerOf(q) = c
    PROVE  SandboxInv'
<1>1. \A q \in Projects : ContainerOf(q)' <= born'
  <2> SUFFICES ASSUME NEW q \in Projects PROVE ContainerOf(q) <= born'
    OBVIOUS
  <2>1. ContainerOf(q) \in Nat /\ ContainerOf(q) <= born /\ born \in Nat
    BY SandboxesHave DEF SandboxInv
  <2>2. born' \in Nat
    BY SandboxNumbers
  <2> QED
    BY <2>1, <2>2
<1>2. ASSUME NEW c \in ContainerIds \ failedRequests', containers'[c] = "running"
      PROVE  \E q \in Projects : ContainerOf(q)' = c
  <2>1. containers[c] = "running" \/ \E q \in Projects : ContainerOf(q) = c
    BY <1>2
  <2>2. \E q \in Projects : ContainerOf(q) = c
    BY <2>1, <1>2 DEF SandboxInv, NoRunawayContainers
  <2> QED
    BY <2>2
<1>3. ASSUME NEW q \in Projects, NEW r \in Projects, q # r, ContainerOf(q)' # NoContainer
      PROVE  ContainerOf(q)' # ContainerOf(r)'
  BY <1>3 DEF SandboxInv, NoRunawayContainers
<1>4. NoRunawayContainers'
  BY <1>2, <1>3 DEF NoRunawayContainers
<1>5. SandboxTypeOK'
  BY DEF SandboxTypeOK
<1> QED
  BY <1>1, <1>4, <1>5 DEF SandboxInv

(* What a request about the container of p may change. *)
TouchesOnly(p) ==
    /\ containers' \in [ContainerIds -> ContainerStates]
    /\ failedRequests \subseteq failedRequests' /\ failedRequests' \subseteq ContainerIds
    /\ \A c \in ContainerIds : containers'[c] = containers[c] \/ c = ContainerOf(p)

LEMMA DoneTouches ==
    ASSUME SandboxTypeOK, NEW p \in Projects, NEW state \in ContainerStates, Done(p, state)
    PROVE  TouchesOnly(p)
<1>1. /\ containers \in [ContainerIds -> ContainerStates] /\ failedRequests \subseteq ContainerIds
      /\ ContainerOf(p) \in ContainerIds
  BY SandboxesHave DEF Done, Present, SandboxTypeOK
<1>2. /\ containers' = [containers EXCEPT ![ContainerOf(p)] = state]
      /\ failedRequests' = failedRequests
  BY DEF Done, SetContainer
<1> QED
  BY <1>1, <1>2 DEF TouchesOnly

LEMMA LostTouches ==
    ASSUME SandboxTypeOK, NEW p \in Projects, NEW states, states \subseteq ContainerStates,
           AnswerLost(p, states)
    PROVE  /\ TouchesOnly(p)
           /\ Present(p) => ContainerOf(p) \in failedRequests'
<1>1. /\ containers \in [ContainerIds -> ContainerStates] /\ failedRequests \subseteq ContainerIds
      /\ Present(p) => ContainerOf(p) \in ContainerIds
  BY SandboxesHave DEF Present, SandboxTypeOK
<1>2. /\ failedRequests \subseteq failedRequests' /\ failedRequests' \subseteq ContainerIds
      /\ Present(p) => ContainerOf(p) \in failedRequests'
  BY <1>1 DEF AnswerLost, Fails
<1>3. CASE UNCHANGED containers
  BY <1>1, <1>2, <1>3 DEF TouchesOnly
<1>4. CASE Present(p) /\ \E state \in states : SetContainer(ContainerOf(p), state)
  <2>1. PICK state \in ContainerStates : containers' = [containers EXCEPT ![ContainerOf(p)] = state]
    BY <1>4 DEF SetContainer
  <2> QED
    BY <1>1, <1>2, <1>4, <2>1 DEF TouchesOnly
<1> QED
  BY <1>3, <1>4, <1>2 DEF AnswerLost

LEMMA RefusedTouches ==
    ASSUME SandboxTypeOK, NEW p \in Projects, Refused(p)
    PROVE  /\ TouchesOnly(p) /\ containers' = containers
           /\ Present(p) => ContainerOf(p) \in failedRequests'
<1>1. AnswerLost(p, {}) /\ containers' = containers
  BY DEF Refused, AnswerLost
<1>2. {} \subseteq ContainerStates
  OBVIOUS
<1> QED
  BY <1>1, <1>2, LostTouches

(* After a request, the entries having kept their containers. *)
LEMMA RequestKeeps ==
    ASSUME SandboxInv, NEW p \in Projects, TouchesOnly(p), born' = born,
           sandboxes' \in [Projects -> {NoSandbox} \cup
                [status : SandboxStatus, container : ContainerIds \cup {NoContainer}]],
           workspaces' \subseteq Projects,
           \A q \in Projects : ContainerOf(q)' = ContainerOf(q)
    PROVE  SandboxInv'
<1>1. /\ born' \in 0..MaxContainers /\ born <= born' /\ born \in Nat
      /\ ContainerOf(p) \in Nat /\ ContainerOf(p) <= born
  BY SandboxesHave, SandboxNumbers DEF SandboxInv, SandboxTypeOK
<1>2. /\ containers' \in [ContainerIds -> ContainerStates]
      /\ failedRequests \subseteq failedRequests' /\ failedRequests' \subseteq ContainerIds
      /\ \A c \in ContainerIds : containers'[c] = containers[c] \/ c = ContainerOf(p)
  BY DEF TouchesOnly
<1>3. \A c \in ContainerIds : c > born' => containers'[c] = "absent"
  <2> SUFFICES ASSUME NEW c \in ContainerIds, c > born PROVE containers'[c] = "absent"
    OBVIOUS
  <2>1. c # ContainerOf(p)
    BY <1>1, SandboxNumbers
  <2> QED
    BY <2>1, <1>2 DEF SandboxInv
<1>4. \A c \in ContainerIds \ failedRequests' : containers'[c] = "running" =>
         containers[c] = "running" \/ \E q \in Projects : ContainerOf(q) = c
  BY <1>2
<1>5. /\ containers' \in [ContainerIds -> ContainerStates]
      /\ born' \in 0..MaxContainers /\ born <= born'
      /\ failedRequests \subseteq failedRequests' /\ failedRequests' \subseteq ContainerIds
  BY <1>1, <1>2
<1> QED
  BY <1>3, <1>4, <1>5, EntriesKept

LEMMA CreateSandboxKeeps ==
    ASSUME SandboxInv, NEW p \in Projects, CreateSandbox(p)
    PROVE  SandboxInv'
<1> DEFINE Sandboxes == {NoSandbox} \cup [status : SandboxStatus, container : ContainerIds \cup {NoContainer}]
<1>1. /\ sandboxes \in [Projects -> Sandboxes]
      /\ containers \in [ContainerIds -> ContainerStates]
      /\ born \in Nat /\ born <= MaxContainers
      /\ workspaces' \subseteq Projects /\ failedRequests \subseteq ContainerIds
      /\ ContainerOf(p) = NoContainer
  BY SandboxNumbers DEF SandboxInv, SandboxTypeOK, CreateSandbox, Known, ContainerOf, NoSandbox
<1>2. CASE Born("running") /\ SetEntry(p, "created", born + 1) /\ UNCHANGED failedRequests
  <2>0. /\ born < MaxContainers /\ born' = born + 1
        /\ sandboxes' = [sandboxes EXCEPT ![p] = [status |-> "created", container |-> born + 1]]
        /\ containers' = [containers EXCEPT ![born + 1] = "running"]
        /\ failedRequests' = failedRequests
    BY <1>2 DEF Born, SetEntry, SetContainer
  <2>1. born + 1 \in ContainerIds /\ born' \in Nat /\ born' \in 0..MaxContainers
    BY <1>1, <2>0, SandboxNumbers
  <2>2. [status |-> "created", container |-> born + 1] \in Sandboxes
    BY <2>1 DEF SandboxStatus
  <2>3. sandboxes' \in [Projects -> Sandboxes]
    BY <1>1, <2>0, <2>2
  <2>4. /\ ContainerOf(p)' = born + 1
        /\ \A q \in Projects : q # p => ContainerOf(q)' = ContainerOf(q)
    BY <1>1, <2>0 DEF ContainerOf
  <2>6. \A c \in ContainerIds : c > born' => containers'[c] = "absent"
    BY <2>0, <2>1, <1>1, SandboxNumbers DEF SandboxInv
  <2>7. \A q \in Projects : ContainerOf(q)' <= born'
    BY <2>0, <2>4, <1>1, SandboxesHave DEF SandboxInv
  <2>8. ASSUME NEW c \in ContainerIds \ failedRequests', containers'[c] = "running"
        PROVE  \E q \in Projects : ContainerOf(q)' = c
    <3>1. CASE c = born + 1
      BY <3>1, <2>4
    <3>2. CASE c # born + 1
      <4>1. containers[c] = "running" /\ c \notin failedRequests
        BY <3>2, <2>0, <2>8, <1>1
      <4>2. PICK q \in Projects : ContainerOf(q) = c
        BY <4>1 DEF SandboxInv, NoRunawayContainers
      <4>3. q # p
        BY <4>2, <1>1, SandboxNumbers
      <4> QED
        BY <4>2, <4>3, <2>4
    <3> QED
      BY <3>1, <3>2
  <2>9. ASSUME NEW q \in Projects, NEW r \in Projects, q # r, ContainerOf(q)' # NoContainer
        PROVE  ContainerOf(q)' # ContainerOf(r)'
    <3>1. ContainerOf(q) <= born /\ ContainerOf(r) <= born /\ ContainerOf(q) \in Nat /\ ContainerOf(r) \in Nat
      BY SandboxesHave DEF SandboxInv
    <3>2. CASE q = p \/ r = p
      BY <3>1, <3>2, <2>4, <2>9, <1>1
    <3>3. CASE q # p /\ r # p
      <4>1. ContainerOf(q) # ContainerOf(r)
        BY <3>3, <2>4, <2>9 DEF SandboxInv, NoRunawayContainers
      <4> QED
        BY <3>3, <4>1, <2>4
    <3> QED
      BY <3>2, <3>3
  <2>10. containers' \in [ContainerIds -> ContainerStates]
    BY <1>1, <2>0 DEF ContainerStates
  <2>11. NoRunawayContainers'
    BY <2>8, <2>9 DEF NoRunawayContainers
  <2>12. SandboxTypeOK'
    BY <1>1, <2>0, <2>1, <2>3, <2>10 DEF SandboxTypeOK
  <2> QED
    BY <2>6, <2>7, <2>11, <2>12 DEF SandboxInv
<1>3. ASSUME NEW s \in SandboxStatus, SetEntry(p, s, NoContainer)
      PROVE  /\ sandboxes' \in [Projects -> Sandboxes]
             /\ \A q \in Projects : ContainerOf(q)' = ContainerOf(q)
  <2>1. sandboxes' = [sandboxes EXCEPT ![p] = [status |-> s, container |-> NoContainer]]
    BY <1>3 DEF SetEntry
  <2>2. [status |-> s, container |-> NoContainer] \in Sandboxes
    OBVIOUS
  <2>3. sandboxes' \in [Projects -> Sandboxes]
    BY <1>1, <2>1, <2>2
  <2>4. \A q \in Projects : ContainerOf(q)' = ContainerOf(q)
    BY <1>1, <2>1 DEF ContainerOf
  <2> QED
    BY <2>3, <2>4
<1>4. ASSUME NEW state \in {"exited", "running"}, NEW s \in SandboxStatus,
             Born(state), SetEntry(p, s, NoContainer),
             \/ state = "exited" /\ failedRequests' = failedRequests
             \/ failedRequests' = failedRequests \cup {born + 1}
      PROVE  SandboxInv'
  <2>1. /\ born < MaxContainers /\ born' = born + 1
        /\ containers' = [containers EXCEPT ![born + 1] = state]
    BY <1>4 DEF Born, SetContainer
  <2>2. born + 1 \in ContainerIds /\ born' \in 0..MaxContainers /\ born <= born'
    BY <1>1, <2>1, SandboxNumbers
  <2>3. containers' \in [ContainerIds -> ContainerStates]
    BY <2>1, <1>1, <1>4 DEF ContainerStates
  <2>4. \A c \in ContainerIds : c > born' => containers'[c] = "absent"
    BY <2>1, <2>2, <1>1, SandboxNumbers DEF SandboxInv
  <2>5. failedRequests \subseteq failedRequests' /\ failedRequests' \subseteq ContainerIds
    BY <1>1, <1>4, <2>2
  <2>6. \A c \in ContainerIds \ failedRequests' : containers'[c] = "running" =>
           containers[c] = "running" \/ \E q \in Projects : ContainerOf(q) = c
    <3> SUFFICES ASSUME NEW c \in ContainerIds, c \notin failedRequests', containers'[c] = "running"
                 PROVE  containers[c] = "running"
      OBVIOUS
    <3>1. c # born + 1
      BY <1>1, <1>4, <2>1, <2>2
    <3> QED
      BY <3>1, <2>1, <1>1
  <2>7. /\ sandboxes' \in [Projects -> Sandboxes]
        /\ \A q \in Projects : ContainerOf(q)' = ContainerOf(q)
    BY <1>3, <1>4
  <2>8. workspaces' \subseteq Projects
    BY <1>1
  <2> QED
    BY <2>2, <2>3, <2>4, <2>5, <2>6, <2>7, <2>8, EntriesKept
<1>5. ASSUME NEW s \in SandboxStatus, SetEntry(p, s, NoContainer),
             UNCHANGED <<containers, born, failedRequests>>
      PROVE  SandboxInv'
  <2>1. /\ sandboxes' \in [Projects -> Sandboxes]
        /\ \A q \in Projects : ContainerOf(q)' = ContainerOf(q)
    BY <1>3, <1>5
  <2>2. TouchesOnly(p) /\ born' = born
    BY <1>1, <1>5 DEF TouchesOnly
  <2>3. workspaces' \subseteq Projects
    BY <1>1
  <2> QED
    BY <2>1, <2>2, <2>3, RequestKeeps
<1>6. "crashed" \in SandboxStatus /\ "create_pending" \in SandboxStatus
  BY DEF SandboxStatus
<1>7. CASE /\ Born("exited") \/ UNCHANGED <<containers, born>>
           /\ SetEntry(p, "crashed", NoContainer) /\ UNCHANGED failedRequests
  BY <1>4, <1>5, <1>6, <1>7
<1>8. CASE /\ SetEntry(p, "create_pending", NoContainer)
           /\ \/ UNCHANGED <<containers, born, failedRequests>>
              \/ /\ Born("exited") \/ Born("running")
                 /\ failedRequests' = failedRequests \cup {born + 1}
  BY <1>4, <1>5, <1>6, <1>8
<1> QED
  BY <1>2, <1>7, <1>8 DEF CreateSandbox

LEMMA StartSandboxKeeps ==
    ASSUME SandboxInv, NEW p \in Projects, StartSandbox(p)
    PROVE  SandboxInv'
<1>1. /\ Known(p) /\ born' = born /\ workspaces' \subseteq Projects /\ SandboxTypeOK
      /\ "running" \in SandboxStatus /\ "crashed" \in SandboxStatus
      /\ "running" \in ContainerStates /\ {"running"} \subseteq ContainerStates
  BY DEF StartSandbox, SandboxStatus, ContainerStates, SandboxInv, SandboxTypeOK
<1>2. /\ sandboxes' \in [Projects -> {NoSandbox} \cup
                [status : SandboxStatus, container : ContainerIds \cup {NoContainer}]]
      /\ \A q \in Projects : ContainerOf(q)' = ContainerOf(q)
  <2>1. CASE SetSandbox(p, "running") \/ SetSandbox(p, "crashed")
    BY <2>1, <1>1, EntryIsMarked
  <2>2. CASE UNCHANGED sandboxes
    BY <2>2, <1>1 DEF SandboxTypeOK, ContainerOf
  <2> QED
    BY <2>1, <2>2 DEF StartSandbox
<1>3. TouchesOnly(p)
  BY <1>1, DoneTouches, RefusedTouches, LostTouches DEF StartSandbox
<1> QED
  BY <1>1, <1>2, <1>3, RequestKeeps

LEMMA StopSandboxKeeps ==
    ASSUME SandboxInv, NEW p \in Projects, StopSandbox(p)
    PROVE  SandboxInv'
<1>1. /\ Known(p) /\ born' = born /\ workspaces' \subseteq Projects /\ SandboxTypeOK
      /\ "stopping" \in SandboxStatus /\ "crashed" \in SandboxStatus /\ "stopped" \in SandboxStatus
      /\ "exited" \in ContainerStates /\ {"exited"} \subseteq ContainerStates
  BY DEF StopSandbox, SandboxStatus, ContainerStates, SandboxInv, SandboxTypeOK
<1>2. /\ sandboxes' \in [Projects -> {NoSandbox} \cup
                [status : SandboxStatus, container : ContainerIds \cup {NoContainer}]]
      /\ \A q \in Projects : ContainerOf(q)' = ContainerOf(q)
  BY <1>1, EntryIsMarked DEF StopSandbox
<1>3. TouchesOnly(p)
  <2>1. CASE UNCHANGED <<containers, failedRequests>>
    BY <2>1, <1>1 DEF TouchesOnly, SandboxTypeOK
  <2> QED
    BY <2>1, <1>1, DoneTouches, LostTouches DEF StopSandbox
<1> QED
  BY <1>1, <1>2, <1>3, RequestKeeps

LEMMA DestroySandboxKeeps ==
    ASSUME SandboxInv, NEW p \in Projects, DestroySandbox(p)
    PROVE  SandboxInv'
<1> DEFINE Removes == /\ ContainerOf(p) # NoContainer
                      /\ \/ Killable(p) /\ (Done(p, "absent") \/ Done(p, "exited"))
                         \/ Refused(p)
                      /\ workspaces' = workspaces \ {p}
                      /\ sandboxes' = [sandboxes EXCEPT ![p] = NoSandbox]
           Loses == /\ AnswerLost(p, IF Killable(p) THEN {"exited", "absent"} ELSE {})
                    /\ SetSandbox(p, "destroy_pending") /\ UNCHANGED workspaces
<1>1. /\ Known(p) /\ born' = born /\ SandboxTypeOK /\ (Removes \/ Loses)
  BY DEF DestroySandbox, SandboxInv
<1>2. CASE Removes
  <2>1. /\ ContainerOf(p) \in ContainerIds /\ containers \in [ContainerIds -> ContainerStates]
        /\ workspaces' \subseteq Projects
        /\ sandboxes' = [sandboxes EXCEPT ![p] = NoSandbox]
        /\ sandboxes \in [Projects -> {NoSandbox} \cup
                 [status : SandboxStatus, container : ContainerIds \cup {NoContainer}]]
    BY <1>1, <1>2, SandboxesHave DEF SandboxTypeOK
  <2>2. /\ ContainerOf(p)' = NoContainer
        /\ \A q \in Projects : q # p => ContainerOf(q)' = ContainerOf(q)
    BY <2>1 DEF ContainerOf, NoSandbox
  <2>3. /\ TouchesOnly(p)
        /\ containers'[ContainerOf(p)] = "running" => ContainerOf(p) \in failedRequests'
    <3>1. ASSUME NEW state \in {"absent", "exited"}, Done(p, state)
          PROVE  TouchesOnly(p) /\ containers'[ContainerOf(p)] # "running"
      <4>1. state \in ContainerStates /\ containers' = [containers EXCEPT ![ContainerOf(p)] = state]
        BY <3>1 DEF Done, SetContainer, ContainerStates
      <4> QED
        BY <4>1, <3>1, <1>1, <2>1, DoneTouches
    <3>2. ASSUME Refused(p)
          PROVE  /\ TouchesOnly(p)
                 /\ containers'[ContainerOf(p)] = "running" => ContainerOf(p) \in failedRequests'
      <4>1. /\ TouchesOnly(p) /\ containers' = containers
            /\ Present(p) => ContainerOf(p) \in failedRequests'
        BY <3>2, <1>1, RefusedTouches
      <4> QED
        BY <4>1, <1>2 DEF Present
    <3> QED
      BY <3>1, <3>2, <1>2
  <2>4. /\ containers' \in [ContainerIds -> ContainerStates]
        /\ failedRequests \subseteq failedRequests' /\ failedRequests' \subseteq ContainerIds
        /\ \A c \in ContainerIds : containers'[c] = containers[c] \/ c = ContainerOf(p)
    BY <2>3 DEF TouchesOnly
  <2>5. ASSUME NEW c \in ContainerIds \ failedRequests', containers'[c] = "running"
        PROVE  \E q \in Projects : ContainerOf(q)' = c
    <3>1. containers[c] = "running" /\ c \notin failedRequests /\ c # ContainerOf(p)
      BY <2>3, <2>4, <2>5
    <3>2. PICK q \in Projects : ContainerOf(q) = c
      BY <3>1 DEF SandboxInv, NoRunawayContainers
    <3> QED
      BY <3>1, <3>2, <2>2
  <2>6. ASSUME NEW q \in Projects, NEW r \in Projects, q # r, ContainerOf(q)' # NoContainer
        PROVE  ContainerOf(q)' # ContainerOf(r)'
    <3>1. q # p /\ ContainerOf(q)' = ContainerOf(q)
      BY <2>2, <2>6
    <3>2. CASE r = p
      BY <3>1, <3>2, <2>2, <2>6
    <3>3. CASE r # p
      BY <3>1, <3>3, <2>2, <2>6 DEF SandboxInv, NoRunawayContainers
    <3> QED
      BY <3>2, <3>3
  <2>7. NoRunawayContainers'
    BY <2>5, <2>6 DEF NoRunawayContainers
  <2>8. \A q \in Projects : ContainerOf(q)' <= born'
    BY <1>1, <2>2, SandboxNumbers, SandboxesHave DEF SandboxInv
  <2>9. \A c \in ContainerIds : c > born' => containers'[c] = "absent"
    <3> SUFFICES ASSUME NEW c \in ContainerIds, c > born PROVE containers'[c] = "absent"
      BY <1>1
    <3>1. c # ContainerOf(p)
      BY SandboxesHave, SandboxNumbers DEF SandboxInv
    <3> QED
      BY <3>1, <2>4 DEF SandboxInv
  <2>10. SandboxTypeOK'
    BY <1>1, <2>1, <2>4 DEF SandboxTypeOK
  <2> QED
    BY <2>7, <2>8, <2>9, <2>10 DEF SandboxInv
<1>3. CASE Loses
  <2>1. "destroy_pending" \in SandboxStatus /\ workspaces' \subseteq Projects
    BY <1>1, <1>3 DEF SandboxStatus, SandboxTypeOK
  <2>2. /\ sandboxes' \in [Projects -> {NoSandbox} \cup
                [status : SandboxStatus, container : ContainerIds \cup {NoContainer}]]
        /\ \A q \in Projects : ContainerOf(q)' = ContainerOf(q)
    BY <1>1, <1>3, <2>1, EntryIsMarked
  <2>3. PICK states : states \subseteq ContainerStates /\ AnswerLost(p, states)
    BY <1>3 DEF ContainerStates
  <2>4. TouchesOnly(p)
    BY <1>1, <2>3, LostTouches
  <2> QED
    BY <1>1, <2>1, <2>2, <2>4, RequestKeeps
<1> QED
  BY <1>1, <1>2, <1>3

(* Files change no entry and no container; one that dies runs no more. *)
LEMMA ContainersEndKeeps ==
    ASSUME SandboxInv, sandboxes' = sandboxes, born' = born, failedRequests' = failedRequests,
           workspaces' \subseteq Projects,
           \/ containers' = containers
           \/ \E c \in ContainerIds : containers[c] = "running" /\ SetContainer(c, "exited")
    PROVE  SandboxInv'
<1>1. /\ sandboxes' \in [Projects -> {NoSandbox} \cup
                [status : SandboxStatus, container : ContainerIds \cup {NoContainer}]]
      /\ containers \in [ContainerIds -> ContainerStates]
      /\ born' \in 0..MaxContainers /\ born <= born'
      /\ failedRequests \subseteq failedRequests' /\ failedRequests' \subseteq ContainerIds
  BY SandboxNumbers DEF SandboxInv, SandboxTypeOK
<1>2. \A q \in Projects : ContainerOf(q)' = ContainerOf(q)
  BY DEF ContainerOf
<1>3. /\ containers' \in [ContainerIds -> ContainerStates]
      /\ \A c \in ContainerIds : \/ containers'[c] = containers[c]
                                 \/ containers[c] = "running" /\ containers'[c] = "exited"
  BY <1>1 DEF SetContainer, ContainerStates
<1>4. \A c \in ContainerIds : c > born' => containers'[c] = "absent"
  BY <1>3 DEF SandboxInv
<1>5. \A c \in ContainerIds \ failedRequests' : containers'[c] = "running" =>
         containers[c] = "running" \/ \E q \in Projects : ContainerOf(q) = c
  BY <1>3
<1> QED
  BY <1>1, <1>2, <1>3, <1>4, <1>5, EntriesKept

LEMMA SandboxStep == SandboxInv /\ (SandboxNext \/ UNCHANGED sandboxVars) => SandboxInv'
<1>1. ASSUME SandboxInv, NEW p \in Projects, WriteSandboxFile(p) PROVE SandboxInv'
  <2>1. /\ sandboxes' = sandboxes /\ containers' = containers /\ born' = born
        /\ failedRequests' = failedRequests /\ workspaces' \subseteq Projects
    BY <1>1 DEF WriteSandboxFile, SandboxInv, SandboxTypeOK
  <2> QED
    BY <1>1, <2>1, ContainersEndKeeps
<1>2. ASSUME SandboxInv, NEW c \in ContainerIds, ContainerDies(c) PROVE SandboxInv'
  <2>1. /\ sandboxes' = sandboxes /\ born' = born /\ failedRequests' = failedRequests
        /\ workspaces' \subseteq Projects
        /\ \E d \in ContainerIds : containers[d] = "running" /\ SetContainer(d, "exited")
    BY <1>2 DEF ContainerDies, SandboxInv, SandboxTypeOK
  <2> QED
    BY <1>2, <2>1, ContainersEndKeeps
<1>3. ASSUME SandboxInv, SandboxNext PROVE SandboxInv'
  BY <1>1, <1>2, <1>3, CreateSandboxKeeps, StartSandboxKeeps, StopSandboxKeeps, DestroySandboxKeeps
     DEF SandboxNext
<1>4. ASSUME SandboxInv, UNCHANGED sandboxVars PROVE SandboxInv'
  <2>1. /\ sandboxes' = sandboxes /\ containers' = containers /\ born' = born
        /\ failedRequests' = failedRequests /\ workspaces' \subseteq Projects
    BY <1>4 DEF sandboxVars, SandboxInv, SandboxTypeOK
  <2> QED
    BY <1>4, <2>1, ContainersEndKeeps
<1> QED
  BY <1>3, <1>4

-----------------------------------------------------------------------------
(* The conversation loop (core/agent.py): a goal that is worked on has no   *)
(* outcome yet, and what awaits the memory after an answer has one.         *)

Writers == {"user", "system", "results", "answer"}
Latest(s) == s[Len(s)]

LoopTypes ==
    /\ loopAt \in {"idle", "memory", "model", "pause", "tools", "saving"}
    /\ turn \in Nat /\ remembers \in BOOLEAN
    /\ context \in Seq(Writers)
    /\ savedGoals \subseteq Goals
    /\ goal \in 0..MaxGoals
    /\ outcomes \in [Goals -> {"none", "answer", "max_turns", "raised"}]

LoopInv ==
    /\ LoopTypes
    /\ loopAt # "idle" => goal > 0 /\ outcomes[goal] = "none"
    /\ \A g \in Goals : g > goal => outcomes[g] = "none"
    /\ loopAt = "memory" => turn = 0
    /\ loopAt = "saving" => remembers /\ Latest(context) = "answer" /\ TakesTools(askedProvider)
    /\ \A g \in savedGoals : remembers /\ outcomes[g] = "answer"
    /\ LoopEndsHonestly

LEMMA LoopNumbers ==
    /\ MaxGoals \in Nat /\ LoopTurns \in Nat
    /\ \A g : g \in Goals <=> g \in Nat /\ 1 <= g /\ g <= MaxGoals
  BY LoopAssumption DEF Goals

LEMMA LastOfAppend ==
    ASSUME NEW S, NEW s \in Seq(S), NEW x \in S
    PROVE  Append(s, x) \in Seq(S) /\ Latest(Append(s, x)) = x
  BY DEF Latest

LEMMA LoopStart == LoopInit => LoopInv
  BY LoopNumbers DEF LoopInit, LoopInv, LoopTypes, LoopEndsHonestly

(* A goal that ended: what is left to show of its outcome. *)
LEMMA LoopEnded ==
    ASSUME LoopInv, loopAt # "idle", NEW how \in {"answer", "max_turns", "raised"},
           LoopEnds(how), remembers' = remembers, goal' = goal,
           context' \in Seq(Writers), turn' \in Nat,
           savedGoals' = savedGoals \/ (how = "answer" /\ remembers /\ savedGoals' = savedGoals \cup {goal}),
           how = "answer" => Latest(context') = "answer" /\ TakesTools(askedProvider'),
           how = "max_turns" /\ turn' > 0 => Latest(context') = "results"
    PROVE  LoopInv'
<1>1. /\ goal \in Goals /\ loopAt' = "idle"
      /\ outcomes \in [Goals -> {"none", "answer", "max_turns", "raised"}]
      /\ outcomes' = [outcomes EXCEPT ![goal] = how]
      /\ outcomes[goal] = "none"
      /\ savedGoals \subseteq Goals
  BY LoopNumbers DEF LoopInv, LoopTypes, LoopEnds
<1>2. /\ outcomes' \in [Goals -> {"none", "answer", "max_turns", "raised"}]
      /\ outcomes'[goal] = how
      /\ \A g \in Goals : g # goal => outcomes'[g] = outcomes[g]
  BY <1>1
<1>3. savedGoals' \subseteq Goals
  BY <1>1
<1>4. \A g \in savedGoals' : remembers' /\ outcomes'[g] = "answer"
  BY <1>1, <1>2 DEF LoopInv
<1>5. \A g \in Goals : g > goal' => outcomes'[g] = "none"
  BY <1>1, <1>2, LoopNumbers DEF LoopInv
<1>6. LoopTypes'
  BY <1>1, <1>2, <1>3 DEF LoopInv, LoopTypes
<1>7. LoopEndsHonestly'
  BY <1>2, <1>4 DEF LoopEndsHonestly, Latest, TakesTools
<1> QED
  BY <1>1, <1>4, <1>5, <1>6, <1>7 DEF LoopInv

(* The loop goes on with the same goal. *)
LEMMA LoopGoesOn ==
    ASSUME LoopInv, loopAt # "idle", remembers' = remembers, goal' = goal,
           outcomes' = outcomes, savedGoals' = savedGoals,
           context' \in Seq(Writers), turn' \in Nat,
           loopAt' \in {"model", "pause", "tools", "saving"},
           loopAt' = "saving" => remembers /\ Latest(context') = "answer" /\ TakesTools(askedProvider')
    PROVE  LoopInv'
<1>1. LoopTypes'
  BY DEF LoopInv, LoopTypes
<1>2. LoopEndsHonestly'
  BY DEF LoopEndsHonestly
<1> QED
  BY <1>1, <1>2 DEF LoopInv, Latest, TakesTools

LEMMA ExecuteKeeps == ASSUME LoopInv, Execute PROVE LoopInv'
<1>1. /\ loopAt = "idle" /\ goal \in Nat /\ goal < MaxGoals /\ goal' = goal + 1
      /\ remembers' = remembers /\ savedGoals' = savedGoals /\ outcomes' = outcomes
      /\ context' = Append(context, "user")
      /\ loopAt' \in {"memory", "model"} /\ turn' \in Nat
      /\ loopAt' = "memory" => turn' = 0
  BY LoopNumbers DEF LoopInv, LoopTypes, Execute
<1>2. context' \in Seq(Writers)
  BY <1>1 DEF LoopInv, LoopTypes, Writers
<1>3. goal' \in Goals /\ goal' > goal /\ goal' \in 0..MaxGoals
  BY <1>1, LoopNumbers
<1>4. LoopTypes'
  BY <1>1, <1>2, <1>3 DEF LoopInv, LoopTypes
<1>5. outcomes'[goal'] = "none" /\ goal' > 0
  BY <1>1, <1>3 DEF LoopInv
<1>6. \A g \in Goals : g > goal' => outcomes'[g] = "none"
  BY <1>1, <1>3, LoopNumbers DEF LoopInv
<1>7. LoopEndsHonestly'
  BY <1>1 DEF LoopEndsHonestly
<1> QED
  BY <1>1, <1>4, <1>5, <1>6, <1>7 DEF LoopInv

(* The next turn, or the end of the turns. *)
LEMMA NextTurnKeeps ==
    ASSUME LoopInv, loopAt # "idle", NextTurn, remembers' = remembers, goal' = goal,
           savedGoals' = savedGoals, context' \in Seq(Writers),
           turn > 0 => Latest(context') = "results"
    PROVE  LoopInv'
<1>1. turn \in Nat
  BY DEF LoopInv, LoopTypes
<1>2. CASE turn < LoopTurns
  BY <1>1, <1>2, LoopGoesOn DEF NextTurn
<1>3. CASE ~(turn < LoopTurns)
  BY <1>1, <1>3, LoopEnded DEF NextTurn
<1> QED
  BY <1>2, <1>3

LEMMA LoopSteps == ASSUME LoopInv, LoopNext PROVE LoopInv'
<1> USE DEF Writers
<1>1. context \in Seq(Writers) /\ turn \in Nat /\ remembers \in BOOLEAN
  BY DEF LoopInv, LoopTypes
<1>2. ASSUME NEW found \in BOOLEAN, Remembered(found) PROVE LoopInv'
  <2>1. context' \in Seq(Writers)
    BY <1>1, <1>2 DEF Remembered
  <2>2. turn = 0 /\ loopAt = "memory"
    BY <1>2 DEF LoopInv, Remembered
  <2> QED
    BY <1>2, <2>1, <2>2, NextTurnKeeps DEF Remembered
<1>3. CASE ProviderFails
  <2>1. /\ loopAt = "model" /\ context' = context /\ turn' = turn
        /\ remembers' = remembers /\ goal' = goal /\ savedGoals' = savedGoals
        /\ \/ loopAt' \in {"model", "pause"} /\ outcomes' = outcomes
           \/ LoopEnds("raised")
    BY <1>3 DEF ProviderFails
  <2>2. CASE loopAt' \in {"model", "pause"} /\ outcomes' = outcomes
    BY <1>1, <2>1, <2>2, LoopGoesOn
  <2>3. CASE LoopEnds("raised")
    BY <1>1, <2>1, <2>3, LoopEnded
  <2> QED
    BY <2>1, <2>2, <2>3
<1>4. CASE PauseEnds
  BY <1>1, <1>4, LoopGoesOn DEF PauseEnds
<1>5. ASSUME NEW n \in 0..MaxToolCalls, ModelAnswers(n) PROVE LoopInv'
  <2>1. /\ loopAt = "model" /\ TakesTools(askedProvider) /\ askedProvider' = askedProvider
        /\ turn' = turn /\ remembers' = remembers /\ goal' = goal /\ savedGoals' = savedGoals
    BY <1>5 DEF ModelAnswers
  <2>2. TakesTools(askedProvider')
    BY <2>1
  <2>3. CASE loopAt' = "tools" /\ context' = context /\ outcomes' = outcomes
    BY <1>1, <2>1, <2>3, LoopGoesOn
  <2>4. CASE context' = Append(context, "answer")
    <3>1. context' \in Seq(Writers) /\ Latest(context') = "answer"
      BY <1>1, <2>4, LastOfAppend
    <3>2. CASE remembers /\ loopAt' = "saving" /\ outcomes' = outcomes
      BY <1>1, <2>1, <2>2, <3>1, <3>2, LoopGoesOn
    <3>3. CASE LoopEnds("answer")
      BY <1>1, <2>1, <2>2, <3>1, <3>3, LoopEnded
    <3>4. CASE loopAt' = "tools"
      BY <1>5, <2>4, <3>2, <3>3, <2>3 DEF ModelAnswers
    <3> QED
      BY <1>5, <2>4, <3>2, <3>3, <3>4 DEF ModelAnswers
  <2> QED
    BY <1>5, <2>3, <2>4 DEF ModelAnswers
<1>6. ASSUME NEW k \in 1..MaxToolCalls, NEW how \in {"success", "failure"}, ToolEnds(k, how)
      PROVE  LoopInv'
  BY <1>1, <1>6, LoopGoesOn DEF ToolEnds
<1>7. CASE ResultsIn
  <2>1. context' = Append(context, "results") /\ loopAt = "tools"
    BY <1>7 DEF ResultsIn
  <2>2. context' \in Seq(Writers) /\ Latest(context') = "results"
    BY <1>1, <2>1, LastOfAppend
  <2> QED
    BY <1>7, <2>1, <2>2, NextTurnKeeps DEF ResultsIn
<1>8. ASSUME NEW ok \in BOOLEAN, SessionSaved(ok) PROVE LoopInv'
  <2>1. /\ loopAt = "saving" /\ remembers /\ LoopEnds("answer")
        /\ Latest(context) = "answer" /\ TakesTools(askedProvider)
        /\ context' = context /\ askedProvider' = askedProvider /\ turn' = turn
        /\ remembers' = remembers /\ goal' = goal
        /\ savedGoals' = savedGoals \/ savedGoals' = savedGoals \cup {goal}
    BY <1>8 DEF LoopInv, SessionSaved
  <2>2. Latest(context') = "answer" /\ TakesTools(askedProvider')
    BY <2>1
  <2> QED
    BY <1>1, <2>1, <2>2, LoopEnded
<1> QED
  BY <1>2, <1>3, <1>4, <1>5, <1>6, <1>7, <1>8, ExecuteKeeps DEF LoopNext

LEMMA LoopStep == LoopInv /\ (LoopNext \/ UNCHANGED loopVars) => LoopInv'
<1>1. ASSUME LoopInv, UNCHANGED loopVars PROVE LoopInv'
  BY <1>1 DEF LoopInv, loopVars, LoopTypes, LoopEndsHonestly, TakesTools, Latest
<1> QED
  BY <1>1, LoopSteps

-----------------------------------------------------------------------------
(* Calls of tools (tools/executor.py): a call that was begun within the     *)
(* limit and has not ended is counted together with those that succeeded.   *)

UsersOf(t) == {u \in ToolUsers : using[u] = t}

ExecutorInv ==
    /\ using \in [ToolUsers -> ToolNames \cup {"none"}]
    /\ minute \in Minutes
    /\ succeeded \in [ToolNames -> [Minutes -> Nat]]
    /\ \A t \in ToolNames :
          /\ succeeded[t][minute] + Cardinality(UsersOf(t)) <= PerMinute + Cardinality(ToolUsers) - 1
          /\ \A m \in Minutes : m > minute => succeeded[t][m] = 0

LEMMA UsersAreFinite ==
    ASSUME NEW t
    PROVE  /\ IsFiniteSet(UsersOf(t)) /\ Cardinality(UsersOf(t)) \in Nat
           /\ Cardinality(ToolUsers) \in Nat
           /\ Cardinality(UsersOf(t)) <= Cardinality(ToolUsers)
<1>1. IsFiniteSet(ToolUsers) /\ UsersOf(t) \subseteq ToolUsers
  BY CatalogAssumption DEF UsersOf
<1> QED
  BY <1>1, FS_Subset, FS_CardinalityType

LEMMA ExecutorNumbers ==
    /\ "none" \notin ToolNames
    /\ PerMinute \in Nat /\ PerMinute > 0 /\ MaxToolTime \in Nat
    /\ 0 \in Minutes /\ \A m \in Minutes : m \in Nat
  BY CatalogAssumption DEF Minutes

LEMMA ExecutorStart == CatalogInit => ExecutorInv
<1> SUFFICES ASSUME CatalogInit PROVE ExecutorInv
  OBVIOUS
<1>1. /\ using \in [ToolUsers -> ToolNames \cup {"none"}]
      /\ minute \in Minutes /\ minute = 0
      /\ succeeded \in [ToolNames -> [Minutes -> Nat]]
      /\ \A t \in ToolNames : \A m \in Minutes : succeeded[t][m] = 0
  BY ExecutorNumbers DEF CatalogInit, NoTimes
<1>2. ASSUME NEW t \in ToolNames
      PROVE  succeeded[t][minute] + Cardinality(UsersOf(t)) <= PerMinute + Cardinality(ToolUsers) - 1
  <2>1. succeeded[t][minute] = 0
    BY <1>1
  <2> QED
    BY <2>1, UsersAreFinite, ExecutorNumbers
<1> QED
  BY <1>1, <1>2 DEF ExecutorInv

(* Nobody more, and nothing more, for the tools a step does not touch. *)
LEMMA FewerUsers ==
    ASSUME NEW t, IsFiniteSet(UsersOf(t)), UsersOf(t)' \subseteq UsersOf(t)
    PROVE  /\ Cardinality(UsersOf(t)') \in Nat
           /\ Cardinality(UsersOf(t)') <= Cardinality(UsersOf(t))
  BY FS_Subset, FS_CardinalityType

LEMMA BeginUseKeeps ==
    ASSUME ExecutorInv, NEW u \in ToolUsers, NEW t \in ToolNames, BeginUse(u, t)
    PROVE  ExecutorInv'
<1>1. /\ minute \in Minutes /\ minute \in Nat /\ minute' = minute /\ minute' \in Minutes
      /\ succeeded \in [ToolNames -> [Minutes -> Nat]]
      /\ using \in [ToolUsers -> ToolNames \cup {"none"}]
      /\ using[u] = "none"
  BY ExecutorNumbers DEF ExecutorInv, BeginUse
<1>2. succeeded' = [succeeded EXCEPT ![t] = WithinMinute(@)]
  BY DEF BeginUse
<1>3. /\ WithinMinute(succeeded[t]) \in [Minutes -> Nat]
      /\ WithinMinute(succeeded[t])[minute] = succeeded[t][minute]
      /\ \A m \in Minutes : m > minute => WithinMinute(succeeded[t])[m] = 0
  BY <1>1 DEF WithinMinute
<1>4. /\ succeeded' \in [ToolNames -> [Minutes -> Nat]]
      /\ \A s \in ToolNames : succeeded'[s][minute] = succeeded[s][minute]
      /\ \A s \in ToolNames : \A m \in Minutes : m > minute => succeeded'[s][m] = 0
  BY <1>1, <1>2, <1>3 DEF ExecutorInv
<1>5. using' \in [ToolUsers -> ToolNames \cup {"none"}]
  BY <1>1 DEF BeginUse
<1>6. ASSUME NEW s \in ToolNames
      PROVE  succeeded'[s][minute] + Cardinality(UsersOf(s)') <= PerMinute + Cardinality(ToolUsers) - 1
  <2>1. CASE using' = using
    <3>1. UsersOf(s)' = UsersOf(s)
      BY <2>1 DEF UsersOf
    <3> QED
      BY <3>1, <1>4 DEF ExecutorInv
  <2>2. CASE using' = [using EXCEPT ![u] = t] /\ succeeded[t][minute] < PerMinute
    <3>1. CASE s = t
      <4>1. succeeded[s][minute] \in Nat /\ succeeded[s][minute] < PerMinute
        BY <3>1, <2>2, <1>1
      <4>2. UsersOf(s)' \subseteq ToolUsers
        BY DEF UsersOf
      <4>3. IsFiniteSet(ToolUsers)
        BY CatalogAssumption
      <4>4. Cardinality(UsersOf(s)') \in Nat /\ Cardinality(UsersOf(s)') <= Cardinality(ToolUsers)
        BY <4>2, <4>3, FS_Subset, FS_CardinalityType
      <4>5. succeeded'[s][minute] = succeeded[s][minute]
        BY <1>4
      <4> QED
        BY <4>1, <4>4, <4>5, UsersAreFinite, ExecutorNumbers
    <3>2. CASE s # t
      <4>1. UsersOf(s)' = UsersOf(s)
        BY <3>2, <2>2, <1>1, ExecutorNumbers DEF UsersOf
      <4> QED
        BY <4>1, <1>4 DEF ExecutorInv
    <3> QED
      BY <3>1, <3>2
  <2> QED
    BY <2>1, <2>2 DEF BeginUse
<1> QED
  BY <1>1, <1>4, <1>5, <1>6 DEF ExecutorInv

LEMMA UseSucceedsKeeps ==
    ASSUME ExecutorInv, NEW u \in ToolUsers, UseSucceeds(u)
    PROVE  ExecutorInv'
<1> PICK t \in ToolNames : using[u] = t
  BY DEF ExecutorInv, UseSucceeds
<1>1. /\ minute \in Minutes /\ minute \in Nat /\ minute' = minute /\ minute' \in Minutes
      /\ succeeded \in [ToolNames -> [Minutes -> Nat]]
      /\ using \in [ToolUsers -> ToolNames \cup {"none"}]
      /\ using' = [using EXCEPT ![u] = "none"]
      /\ succeeded' = [succeeded EXCEPT ![t][minute] = @ + 1]
  BY ExecutorNumbers DEF ExecutorInv, UseSucceeds
<1>2. /\ succeeded' \in [ToolNames -> [Minutes -> Nat]]
      /\ succeeded'[t][minute] = succeeded[t][minute] + 1
      /\ \A s \in ToolNames : \A m \in Minutes :
            s # t \/ m # minute => succeeded'[s][m] = succeeded[s][m]
  BY <1>1
<1>3. using' \in [ToolUsers -> ToolNames \cup {"none"}]
  BY <1>1
<1>4. \A s \in ToolNames : \A m \in Minutes : m > minute => succeeded'[s][m] = 0
  BY <1>1, <1>2, ExecutorNumbers DEF ExecutorInv
<1>5. ASSUME NEW s \in ToolNames
      PROVE  succeeded'[s][minute] + Cardinality(UsersOf(s)') <= PerMinute + Cardinality(ToolUsers) - 1
  <2>1. CASE s = t
    <3>1. UsersOf(s)' = UsersOf(s) \ {u} /\ u \in UsersOf(s)
      BY <2>1, <1>1, ExecutorNumbers DEF UsersOf
    <3>2. Cardinality(UsersOf(s)') = Cardinality(UsersOf(s)) - 1
      BY <3>1, UsersAreFinite, FS_RemoveElement
    <3>3. succeeded[s][minute] \in Nat /\ Cardinality(UsersOf(s)) \in Nat
      BY <1>1, UsersAreFinite
    <3>4. succeeded'[s][minute] = succeeded[s][minute] + 1
      BY <1>2, <2>1
    <3>5. succeeded[s][minute] + Cardinality(UsersOf(s)) <= PerMinute + Cardinality(ToolUsers) - 1
      BY DEF ExecutorInv
    <3> QED
      BY <3>2, <3>3, <3>4, <3>5
  <2>2. CASE s # t
    <3>1. UsersOf(s)' = UsersOf(s)
      BY <2>2, <1>1, ExecutorNumbers DEF UsersOf
    <3>2. succeeded'[s][minute] = succeeded[s][minute]
      BY <1>1, <1>2, <2>2
    <3> QED
      BY <3>1, <3>2 DEF ExecutorInv
  <2> QED
    BY <2>1, <2>2
<1> QED
  BY <1>1, <1>2, <1>3, <1>4, <1>5 DEF ExecutorInv

LEMMA UseFailsKeeps ==
    ASSUME ExecutorInv, NEW u \in ToolUsers, UseFails(u)
    PROVE  ExecutorInv'
<1>1. /\ minute \in Minutes /\ minute' = minute /\ succeeded' = succeeded
      /\ succeeded \in [ToolNames -> [Minutes -> Nat]]
      /\ using \in [ToolUsers -> ToolNames \cup {"none"}]
      /\ using' = [using EXCEPT ![u] = "none"]
  BY DEF ExecutorInv, UseFails
<1>2. using' \in [ToolUsers -> ToolNames \cup {"none"}]
  BY <1>1
<1>3. ASSUME NEW s \in ToolNames
      PROVE  succeeded[s][minute] + Cardinality(UsersOf(s)') <= PerMinute + Cardinality(ToolUsers) - 1
  <2>1. UsersOf(s)' \subseteq UsersOf(s)
    BY <1>1, ExecutorNumbers DEF UsersOf
  <2>2. Cardinality(UsersOf(s)') \in Nat /\ Cardinality(UsersOf(s)') <= Cardinality(UsersOf(s))
    BY <2>1, UsersAreFinite, FewerUsers
  <2>3. succeeded[s][minute] \in Nat
    BY <1>1
  <2>4. succeeded[s][minute] + Cardinality(UsersOf(s)) <= PerMinute + Cardinality(ToolUsers) - 1
    BY DEF ExecutorInv
  <2> QED
    BY <2>2, <2>3, <2>4, UsersAreFinite, ExecutorNumbers
<1> QED
  BY <1>1, <1>2, <1>3 DEF ExecutorInv

LEMMA MinutePassesKeeps ==
    ASSUME ExecutorInv, MinutePasses
    PROVE  ExecutorInv'
<1>1. /\ minute \in Nat /\ minute' = minute + 1 /\ minute' \in Minutes
      /\ using' = using /\ succeeded' = succeeded
      /\ \A t : UsersOf(t)' = UsersOf(t)
  BY ExecutorNumbers DEF ExecutorInv, MinutePasses, UsersOf, Minutes
<1>2. ASSUME NEW t \in ToolNames
      PROVE  succeeded[t][minute'] + Cardinality(UsersOf(t)) <= PerMinute + Cardinality(ToolUsers) - 1
  <2>1. succeeded[t][minute'] = 0
    BY <1>1 DEF ExecutorInv
  <2> QED
    BY <2>1, UsersAreFinite, ExecutorNumbers
<1>3. \A t \in ToolNames, m \in Minutes : m > minute' => succeeded[t][m] = 0
  BY <1>1, ExecutorNumbers DEF ExecutorInv
<1> QED
  BY <1>1, <1>2, <1>3 DEF ExecutorInv

LEMMA ExecutorKeeps == ExecutorInv /\ (ExecutorStep \/ UNCHANGED catalogVars) => ExecutorInv'
<1>1. ASSUME ExecutorInv, ExecutorStep PROVE ExecutorInv'
  BY <1>1, BeginUseKeeps, UseSucceedsKeeps, UseFailsKeeps, MinutePassesKeeps DEF ExecutorStep
<1>2. ASSUME ExecutorInv, UNCHANGED catalogVars PROVE ExecutorInv'
  BY <1>2 DEF ExecutorInv, catalogVars, UsersOf
<1> QED
  BY <1>1, <1>2

LEMMA RatesOverrunByOverlap == ExecutorInv => RateOverrunByOverlap
<1> SUFFICES ASSUME ExecutorInv, NEW t \in ToolNames
             PROVE  succeeded[t][minute] <= PerMinute + Cardinality(ToolUsers) - 1
  BY DEF RateOverrunByOverlap
<1>1. succeeded[t][minute] \in Nat
  BY DEF ExecutorInv
<1>2. succeeded[t][minute] + Cardinality(UsersOf(t)) <= PerMinute + Cardinality(ToolUsers) - 1
  BY DEF ExecutorInv
<1> QED
  BY <1>1, <1>2, UsersAreFinite, ExecutorNumbers

-----------------------------------------------------------------------------
(* The event bus (core/event_bus.py): a call of publish() that goes over    *)
(* the list of handlers has called those before its position.               *)

(* h keeps a place in the list, and was called if the call is past it. *)
IsCalledInTurn(f, h) == \E k \in DOMAIN handlers :
    handlers[k] = h /\ f.called[h] = (IF k < f.next THEN 1 ELSE 0)

FrameIsRight(f) ==
    /\ f.next >= 1
    /\ ~f.live => f.stayed = {}
    /\ f.live /\ ~f.shortened => \A h \in f.stayed : IsCalledInTurn(f, h)

BusInv ==
    /\ handlers \in Seq(Subscribers)
    /\ \A i, j \in DOMAIN handlers : handlers[i] = handlers[j] => i = j
    /\ publishing \in Seq(Frames)
    /\ \A i \in DOMAIN publishing : FrameIsRight(publishing[i])

LEMMA SequenceElement ==
    ASSUME NEW S, NEW s \in Seq(S), NEW i \in DOMAIN s
    PROVE  s[i] \in S
  OBVIOUS

LEMMA SameLength ==
    ASSUME NEW S, NEW s \in Seq(S), NEW T, NEW t \in [DOMAIN s -> T]
    PROVE  t \in Seq(T) /\ DOMAIN t = DOMAIN s
<1>1. DOMAIN s = 1..Len(s) /\ Len(s) \in Nat
  OBVIOUS
<1> QED
  BY <1>1

LEMMA FrameTypes ==
    ASSUME NEW f \in Frames
    PROVE  /\ f.live \in BOOLEAN /\ f.list \in Seq(Subscribers) /\ f.next \in Nat
           /\ f.called \in [Subscribers -> Nat] /\ f.stayed \subseteq Subscribers
           /\ f.shortened \in BOOLEAN
  BY DEF Frames

LEMMA FramesAre ==
    ASSUME BusInv, NEW i \in DOMAIN publishing
    PROVE  publishing[i] \in Frames /\ FrameIsRight(publishing[i])
<1>1. publishing \in Seq(Frames)
  BY DEF BusInv
<1>2. publishing[i] \in Frames
  BY <1>1, SequenceElement
<1> QED
  BY <1>2 DEF BusInv

LEMMA BusStart == BusInit => BusInv
<1> SUFFICES ASSUME BusInit PROVE BusInv
  OBVIOUS
<1>1. handlers = <<>> \/ \E h \in Subscribers : handlers = <<h>>
  BY DEF BusInit
<1>2. handlers \in Seq(Subscribers) /\ DOMAIN handlers \subseteq {1}
  <2>1. CASE handlers = <<>>
    BY <2>1
  <2>2. CASE \E h \in Subscribers : handlers = <<h>>
    BY <2>2
  <2> QED
    BY <1>1, <2>1, <2>2
<1>3. publishing = <<>>
  BY DEF BusInit
<1> QED
  BY <1>2, <1>3 DEF BusInv

LEMMA SubscribeKeeps == ASSUME BusInv, NEW h \in Subscribers, Subscribe(h) PROVE BusInv'
<1>1. /\ handlers \in Seq(Subscribers) /\ handlers' = Append(handlers, h)
      /\ \A k \in DOMAIN handlers : handlers[k] # h
      /\ publishing' = publishing /\ publishing \in Seq(Frames)
  BY DEF BusInv, Subscribe, Elements
<1>2. /\ handlers' \in Seq(Subscribers)
      /\ DOMAIN handlers' = 1..(Len(handlers) + 1) /\ DOMAIN handlers = 1..Len(handlers)
      /\ Len(handlers) \in Nat
      /\ handlers'[Len(handlers) + 1] = h
      /\ \A k \in DOMAIN handlers : k \in DOMAIN handlers' /\ handlers'[k] = handlers[k]
  BY <1>1
<1>3. \A i, j \in DOMAIN handlers' : handlers'[i] = handlers'[j] => i = j
  BY <1>1, <1>2 DEF BusInv
<1>4. ASSUME NEW i \in DOMAIN publishing PROVE FrameIsRight(publishing[i])'
  <2>1. FrameIsRight(publishing[i])
    BY DEF BusInv
  <2>2. \A x : IsCalledInTurn(publishing[i], x) => IsCalledInTurn(publishing[i], x)'
    BY <1>1, <1>2 DEF IsCalledInTurn
  <2> QED
    BY <2>1, <2>2, <1>1 DEF FrameIsRight
<1> QED
  BY <1>1, <1>2, <1>3, <1>4 DEF BusInv

LEMMA RemovedIsDistinct ==
    ASSUME NEW S, NEW list \in Seq(S), NEW k \in DOMAIN list,
           \A i, j \in DOMAIN list : list[i] = list[j] => i = j
    PROVE  /\ Removed(k, list) \in Seq(S)
           /\ \A i, j \in DOMAIN Removed(k, list) : Removed(k, list)[i] = Removed(k, list)[j] => i = j
<1>1. Len(list) \in Nat /\ DOMAIN list = 1..Len(list) /\ k \in Nat /\ 1 <= k /\ k <= Len(list)
  OBVIOUS
<1>2. DOMAIN Removed(k, list) = 1..(Len(list) - 1)
  BY DEF Removed
<1>3. \A j \in 1..(Len(list) - 1) :
          /\ Removed(k, list)[j] = list[IF j < k THEN j ELSE j + 1]
          /\ (IF j < k THEN j ELSE j + 1) \in DOMAIN list
  BY <1>1 DEF Removed
<1>4. Removed(k, list) \in [1..(Len(list) - 1) -> S]
  BY <1>1, <1>3 DEF Removed
<1>5. Removed(k, list) \in Seq(S)
  BY <1>1, <1>4
<1>6. ASSUME NEW i \in 1..(Len(list) - 1), NEW j \in 1..(Len(list) - 1),
             Removed(k, list)[i] = Removed(k, list)[j]
      PROVE  i = j
  <2>1. (IF i < k THEN i ELSE i + 1) = (IF j < k THEN j ELSE j + 1)
    BY <1>3, <1>6
  <2> QED
    BY <2>1, <1>1
<1> QED
  BY <1>2, <1>5, <1>6

LEMMA UnsubscribeKeeps == ASSUME BusInv, NEW h \in Subscribers, Unsubscribe(h) PROVE BusInv'
<1>1. PICK k \in DOMAIN handlers : handlers[k] = h /\ handlers' = Removed(k, handlers)
  BY DEF Unsubscribe
<1>2. /\ handlers' \in Seq(Subscribers)
      /\ \A i, j \in DOMAIN handlers' : handlers'[i] = handlers'[j] => i = j
  BY <1>1, RemovedIsDistinct DEF BusInv
<1>3. /\ publishing \in Seq(Frames)
      /\ publishing' = [i \in DOMAIN publishing |->
          [publishing[i] EXCEPT !.stayed = @ \ {h}, !.shortened = @ \/ publishing[i].live]]
  BY DEF BusInv, Unsubscribe
<1>4. ASSUME NEW f \in Frames, FrameIsRight(f),
             NEW g, g = [f EXCEPT !.stayed = @ \ {h}, !.shortened = @ \/ f.live]
      PROVE  g \in Frames /\ FrameIsRight(g)'
  <2>1. /\ g \in Frames /\ g.live = f.live /\ g.next = f.next /\ g.stayed = f.stayed \ {h}
        /\ g.live => g.shortened
    BY <1>4 DEF Frames
  <2> QED
    BY <2>1, <1>4 DEF FrameIsRight
<1>5. ASSUME NEW i \in DOMAIN publishing
      PROVE  publishing'[i] \in Frames /\ FrameIsRight(publishing[i])'
  <2>1. publishing[i] \in Frames /\ FrameIsRight(publishing[i])
    BY FramesAre
  <2>2. publishing'[i] = [publishing[i] EXCEPT !.stayed = @ \ {h}, !.shortened = @ \/ publishing[i].live]
    BY <1>3
  <2> QED
    BY <2>1, <2>2, <1>4 DEF FrameIsRight, IsCalledInTurn
<1>6. publishing' \in Seq(Frames) /\ DOMAIN publishing' = DOMAIN publishing
  <2>1. publishing' \in [DOMAIN publishing -> Frames]
    BY <1>3, <1>5
  <2> QED
    BY <2>1, <1>3, SameLength
<1> QED
  BY <1>2, <1>5, <1>6 DEF BusInv

LEMMA ClearHandlersKeeps == ASSUME BusInv, ClearHandlers PROVE BusInv'
<1>1. /\ publishing \in Seq(Frames) /\ handlers \in Seq(Subscribers) /\ handlers' = <<>>
      /\ publishing' = [i \in DOMAIN publishing |->
          [publishing[i] EXCEPT !.live = FALSE, !.list = ListOf(publishing[i]), !.stayed = {}]]
  BY DEF BusInv, ClearHandlers
<1>2. ASSUME NEW i \in DOMAIN publishing
      PROVE  publishing'[i] \in Frames /\ FrameIsRight(publishing[i])'
  <2>1. publishing[i] \in Frames /\ publishing[i].next >= 1
    BY FramesAre DEF FrameIsRight
  <2>2. ListOf(publishing[i]) \in Seq(Subscribers)
    BY <2>1, <1>1, FrameTypes DEF ListOf
  <2>3. publishing'[i] = [publishing[i] EXCEPT !.live = FALSE, !.list = ListOf(publishing[i]), !.stayed = {}]
    BY <1>1
  <2>4. /\ publishing'[i] \in Frames /\ publishing'[i].next >= 1
        /\ publishing'[i].live = FALSE /\ publishing'[i].stayed = {}
    BY <2>1, <2>2, <2>3 DEF Frames
  <2> QED
    BY <2>4 DEF FrameIsRight
<1>3. publishing' \in Seq(Frames) /\ DOMAIN publishing' = DOMAIN publishing
  <2>1. publishing' \in [DOMAIN publishing -> Frames]
    BY <1>1, <1>2
  <2> QED
    BY <2>1, <1>1, SameLength
<1>4. <<>> \in Seq(Subscribers) /\ DOMAIN <<>> = {}
  OBVIOUS
<1>5. handlers' \in Seq(Subscribers) /\ \A i, j \in DOMAIN handlers' : handlers'[i] = handlers'[j] => i = j
  BY Zenon, <1>1, <1>4
<1> QED
  BY <1>2, <1>3, <1>5 DEF BusInv

LEMMA PublishKeeps == ASSUME BusInv, Publish PROVE BusInv'
<1> DEFINE new == [live |-> TRUE, list |-> <<>>, next |-> 1, called |-> [h \in Subscribers |-> 0],
                   stayed |-> Elements(handlers), shortened |-> FALSE]
<1>1. /\ publishing \in Seq(Frames) /\ handlers \in Seq(Subscribers) /\ handlers' = handlers
      /\ publishing' = Append(publishing, new)
  BY DEF BusInv, Publish
<1>2. Elements(handlers) \subseteq Subscribers
  BY <1>1 DEF Elements
<1>3. new \in Frames
  BY <1>2 DEF Frames
<1>4. FrameIsRight(new)
  <2>1. ASSUME NEW h \in Elements(handlers) PROVE IsCalledInTurn(new, h)
    <3>1. PICK k \in DOMAIN handlers : handlers[k] = h
      BY <2>1 DEF Elements
    <3>2. k \in Nat /\ k >= 1 /\ h \in Subscribers
      BY <3>1, <1>1, <1>2
    <3>3. new.called[h] = 0 /\ ~(k < new.next)
      BY <3>2
    <3> QED
      BY <3>1, <3>3 DEF IsCalledInTurn
  <2>2. new.next = 1 /\ new.live = TRUE /\ new.stayed = Elements(handlers)
    OBVIOUS
  <2> HIDE DEF new
  <2> QED
    BY <2>1, <2>2 DEF FrameIsRight
<1> HIDE DEF new
<1>5. publishing' \in Seq(Frames)
  BY <1>1, <1>3
<1>6. ASSUME NEW i \in DOMAIN publishing' PROVE FrameIsRight(publishing'[i])
  <2>1. CASE i \in DOMAIN publishing
    BY <2>1, <1>1 DEF BusInv
  <2>2. CASE i \notin DOMAIN publishing
    <3>1. publishing'[i] = new
      BY <2>2, <1>1, <1>3
    <3> QED
      BY <3>1, <1>4
  <2> QED
    BY <2>1, <2>2
<1>7. ASSUME NEW i \in DOMAIN publishing' PROVE FrameIsRight(publishing[i])'
  BY <1>1, <1>6 DEF FrameIsRight, IsCalledInTurn
<1> QED
  BY <1>1, <1>5, <1>7 DEF BusInv

LEMMA CallHandlerKeeps == ASSUME BusInv, CallHandler PROVE BusInv'
<1>1. /\ publishing \in Seq(Frames) /\ handlers \in Seq(Subscribers) /\ handlers' = handlers
      /\ Len(publishing) \in DOMAIN publishing
      /\ \A i, j \in DOMAIN handlers : handlers[i] = handlers[j] => i = j
  BY DEF BusInv, CallHandler
<1>2. PICK f \in Frames : f = publishing[Len(publishing)]
  BY <1>1
<1>3. /\ FrameIsRight(f) /\ f.next <= Len(ListOf(f))
      /\ publishing' = [publishing EXCEPT ![Len(publishing)] =
            [f EXCEPT !.next = @ + 1, !.called[ListOf(f)[f.next]] = @ + 1]]
  BY <1>1, <1>2 DEF BusInv, CallHandler
<1>4. ListOf(f) \in Seq(Subscribers)
  BY <1>1, FrameTypes DEF ListOf
<1>5. f.next \in Nat /\ f.next >= 1
  BY <1>3, FrameTypes DEF FrameIsRight
<1>6. PICK x \in Subscribers : x = ListOf(f)[f.next]
  BY <1>3, <1>4, <1>5
<1>7. PICK g : g = [f EXCEPT !.next = f.next + 1, !.called = [f.called EXCEPT ![x] = @ + 1]]
  OBVIOUS
<1>8. /\ g \in Frames /\ g.next = f.next + 1 /\ g.live = f.live /\ g.stayed = f.stayed
      /\ g.shortened = f.shortened /\ g.called = [f.called EXCEPT ![x] = @ + 1]
  <2>1. [f.called EXCEPT ![x] = @ + 1] \in [Subscribers -> Nat]
    BY FrameTypes
  <2>2. f.next + 1 \in Nat
    BY <1>5
  <2> QED
    BY <2>1, <2>2, <1>7 DEF Frames
<1>9. publishing' = [publishing EXCEPT ![Len(publishing)] = g]
  BY <1>3, <1>6, <1>7
<1>10. ASSUME f.live, ~f.shortened, NEW h \in f.stayed PROVE IsCalledInTurn(g, h)
  <2>1. PICK k \in DOMAIN handlers : handlers[k] = h /\ f.called[h] = (IF k < f.next THEN 1 ELSE 0)
    BY <1>3, <1>10 DEF FrameIsRight, IsCalledInTurn
  <2>2. /\ x = handlers[f.next] /\ f.next \in DOMAIN handlers /\ k \in Nat
        /\ h \in Subscribers /\ f.called \in [Subscribers -> Nat]
    BY <1>1, <1>3, <1>5, <1>6, <1>10, FrameTypes DEF ListOf
  <2>3. CASE k = f.next
    <3>1. g.called[h] = 1
      BY <2>1, <2>2, <2>3, <1>5, <1>8
    <3>2. k < g.next
      BY <2>3, <1>5, <1>8
    <3> QED
      BY <3>1, <3>2, <2>1 DEF IsCalledInTurn
  <2>4. CASE k # f.next
    <3>1. h # x
      BY <2>1, <2>2, <2>4, <1>1
    <3>2. g.called[h] = f.called[h]
      BY <3>1, <2>2, <1>8
    <3>3. k < g.next <=> k < f.next
      BY <2>2, <2>4, <1>5, <1>8
    <3> QED
      BY <3>2, <3>3, <2>1 DEF IsCalledInTurn
  <2> QED
    BY <2>3, <2>4
<1>11. FrameIsRight(g)
  BY <1>3, <1>5, <1>8, <1>10 DEF FrameIsRight
<1>12. publishing' \in Seq(Frames) /\ DOMAIN publishing' = DOMAIN publishing
  BY <1>1, <1>8, <1>9
<1>13. ASSUME NEW i \in DOMAIN publishing PROVE FrameIsRight(publishing'[i])
  BY <1>1, <1>9, <1>11, FramesAre
<1>14. ASSUME NEW i \in DOMAIN publishing' PROVE FrameIsRight(publishing[i])'
  BY <1>1, <1>12, <1>13 DEF FrameIsRight, IsCalledInTurn
<1> QED
  BY <1>1, <1>12, <1>14 DEF BusInv

LEMMA PublishReturnsKeeps == ASSUME BusInv, PublishReturns PROVE BusInv'
<1>1. /\ publishing \in Seq(Frames) /\ handlers \in Seq(Subscribers) /\ handlers' = handlers
      /\ publishing # <<>>
      /\ publishing' = SubSeq(publishing, 1, Len(publishing) - 1)
  BY DEF BusInv, PublishReturns
<1>2. /\ publishing' \in Seq(Frames)
      /\ \A i \in DOMAIN publishing' : i \in DOMAIN publishing /\ publishing'[i] = publishing[i]
  BY <1>1
<1>3. ASSUME NEW i \in DOMAIN publishing' PROVE FrameIsRight(publishing[i])'
  <2>1. i \in DOMAIN publishing /\ publishing'[i] = publishing[i]
    BY <1>2
  <2>2. FrameIsRight(publishing'[i])
    BY <2>1, FramesAre
  <2> QED
    BY <2>2, <1>1 DEF FrameIsRight, IsCalledInTurn
<1> QED
  BY <1>1, <1>2, <1>3 DEF BusInv

LEMMA BusStep == BusInv /\ (BusNext \/ UNCHANGED busVars) => BusInv'
<1>1. ASSUME BusInv, BusNext PROVE BusInv'
  BY <1>1, SubscribeKeeps, UnsubscribeKeeps, ClearHandlersKeeps, PublishKeeps, CallHandlerKeeps,
     PublishReturnsKeeps DEF BusNext
<1>2. ASSUME BusInv, UNCHANGED busVars PROVE BusInv'
  BY <1>2 DEF BusInv, busVars, FrameIsRight, IsCalledInTurn
<1> QED
  BY <1>1, <1>2

LEMMA EventsAreRight == BusInv => EventsReachAll
<1> SUFFICES ASSUME BusInv, NEW i \in DOMAIN publishing, NEW f, f = publishing[i],
                    Over(f), ~f.shortened, NEW h \in f.stayed
             PROVE  f.called[h] = 1
  BY DEF EventsReachAll
<1>1. f \in Frames /\ FrameIsRight(f)
  BY FramesAre
<1>2. f.live
  BY <1>1 DEF FrameIsRight
<1>3. PICK k \in DOMAIN handlers : f.called[h] = (IF k < f.next THEN 1 ELSE 0)
  BY <1>1, <1>2 DEF FrameIsRight, IsCalledInTurn
<1>4. handlers \in Seq(Subscribers) /\ f.next \in Nat /\ f.next > Len(handlers)
  BY <1>1, <1>2, FrameTypes DEF BusInv, Over, ListOf
<1> QED
  BY <1>3, <1>4

-----------------------------------------------------------------------------
(* Evidence (core/evidence.py): what a ledger and a file say of a record is *)
(* what was last done to it, unless history says why not.                   *)

EvidenceInv == EvidenceTypeOK /\ EvidenceIsCurrent

LEMMA EvidenceStart == EvidenceInit => EvidenceInv
  BY DEF EvidenceInit, EvidenceInv, EvidenceTypeOK, EvidenceIsCurrent, Marks

LEMMA MarkIsSet ==
    ASSUME EvidenceInv, NEW l \in Ledgers, NEW e \in Evidence, NEW mark \in {"recorded", "validated"},
           SetMark(l, e, mark)
    PROVE  EvidenceInv'
<1>1. /\ ledger' = [ledger EXCEPT ![l][e] = mark]
      /\ latestMark' = [latestMark EXCEPT ![e] = mark]
      /\ behind' = (behind \ {<<l, e>>}) \cup ((Ledgers \ {l}) \X {e})
      /\ Persisted(e, mark)
  BY DEF SetMark
<1>2. /\ ledger \in [Ledgers -> [Evidence -> Marks]]
      /\ evidenceFiles \in [Evidence -> Marks \cup {"torn"}]
      /\ latestMark \in [Evidence -> Marks]
      /\ behind \subseteq Ledgers \X Evidence /\ filesBehind \subseteq Evidence
      /\ mark \in Marks
  BY DEF EvidenceInv, EvidenceTypeOK, Marks
<1>3. /\ \A m \in Ledgers, x \in Evidence : <<m, x>> \notin behind => ledger[m][x] = latestMark[x]
      /\ \A x \in Evidence \ filesBehind : evidenceFiles[x] = latestMark[x]
  BY DEF EvidenceInv, EvidenceIsCurrent
<1>4. /\ ledger' \in [Ledgers -> [Evidence -> Marks]]
      /\ latestMark' \in [Evidence -> Marks]
      /\ behind' \subseteq Ledgers \X Evidence
  BY <1>1, <1>2
<1>5. ASSUME NEW m \in Ledgers, NEW x \in Evidence, <<m, x>> \notin behind'
      PROVE  ledger'[m][x] = latestMark'[x]
  <2>1. CASE x = e /\ m = l
    BY <2>1, <1>1, <1>2
  <2>2. CASE x = e /\ m # l
    BY <2>2, <1>1, <1>5
  <2>3. CASE x # e
    <3>1. <<m, x>> \notin behind
      BY <2>3, <1>1, <1>5
    <3> QED
      BY <3>1, <2>3, <1>1, <1>2, <1>3
  <2> QED
    BY <2>1, <2>2, <2>3
<1>6. /\ evidenceFiles' \in [Evidence -> Marks \cup {"torn"}]
      /\ filesBehind' \subseteq Evidence
  BY <1>1, <1>2 DEF Persisted
<1>7. ASSUME NEW x \in Evidence \ filesBehind'
      PROVE  evidenceFiles'[x] = latestMark'[x]
  <2>1. CASE x = e
    BY <2>1, <1>1, <1>2, <1>7 DEF Persisted
  <2>2. CASE x # e
    BY <2>2, <1>1, <1>2, <1>3, <1>7 DEF Persisted
  <2> QED
    BY <2>1, <2>2
<1> QED
  BY <1>4, <1>5, <1>6, <1>7 DEF EvidenceInv, EvidenceTypeOK, EvidenceIsCurrent

LEMMA LoadAllKeeps ==
    ASSUME EvidenceInv, NEW l \in Ledgers, LoadAll(l)
    PROVE  EvidenceInv'
<1> DEFINE onDisk == {e \in Evidence : evidenceFiles[e] \in {"recorded", "validated"}}
<1>1. /\ ledger' = [ledger EXCEPT ![l] = [e \in Evidence |->
            IF e \in onDisk THEN evidenceFiles[e] ELSE ledger[l][e]]]
      /\ behind' = (behind \ ({l} \X onDisk)) \cup ({l} \X (onDisk \cap filesBehind))
      /\ evidenceFiles' = evidenceFiles /\ latestMark' = latestMark /\ filesBehind' = filesBehind
  BY Zenon DEF LoadAll
<1>2. /\ ledger \in [Ledgers -> [Evidence -> Marks]]
      /\ evidenceFiles \in [Evidence -> Marks \cup {"torn"}]
      /\ latestMark \in [Evidence -> Marks]
      /\ behind \subseteq Ledgers \X Evidence /\ filesBehind \subseteq Evidence
      /\ onDisk \subseteq Evidence
      /\ \A e \in onDisk : evidenceFiles[e] \in Marks
  BY DEF EvidenceInv, EvidenceTypeOK, Marks
<1>3. /\ \A m \in Ledgers, x \in Evidence : <<m, x>> \notin behind => ledger[m][x] = latestMark[x]
      /\ \A x \in Evidence \ filesBehind : evidenceFiles[x] = latestMark[x]
  BY DEF EvidenceInv, EvidenceIsCurrent
<1> HIDE DEF onDisk
<1>4. ledger' \in [Ledgers -> [Evidence -> Marks]]
  BY <1>1, <1>2
<1>5. behind' \subseteq Ledgers \X Evidence
  BY <1>1, <1>2
<1>6. ASSUME NEW m \in Ledgers, NEW x \in Evidence, <<m, x>> \notin behind'
      PROVE  ledger'[m][x] = latestMark[x]
  <2>1. CASE m = l /\ x \in onDisk
    <3>1. x \notin filesBehind
      BY <2>1, <1>1, <1>6
    <3>2. ledger'[m][x] = evidenceFiles[x]
      BY <2>1, <1>1, <1>2
    <3> QED
      BY <3>1, <3>2, <1>3
  <2>2. CASE m # l \/ x \notin onDisk
    <3>1. <<m, x>> \notin behind
      BY <2>2, <1>1, <1>6
    <3>2. ledger'[m][x] = ledger[m][x]
      BY <2>2, <1>1, <1>2
    <3> QED
      BY <3>1, <3>2, <1>3
  <2> QED
    BY <2>1, <2>2
<1> QED
  BY <1>1, <1>2, <1>3, <1>4, <1>5, <1>6 DEF EvidenceInv, EvidenceTypeOK, EvidenceIsCurrent

LEMMA ClearKeeps ==
    ASSUME EvidenceInv, NEW l \in Ledgers, Clear(l)
    PROVE  EvidenceInv'
<1>1. /\ ledger \in [Ledgers -> [Evidence -> Marks]]
      /\ evidenceFiles \in [Evidence -> Marks \cup {"torn"}]
      /\ behind \subseteq Ledgers \X Evidence
      /\ "none" \in Marks
  BY DEF EvidenceInv, EvidenceTypeOK, Marks
<1>2. /\ ledger' = [ledger EXCEPT ![l] = [e \in Evidence |-> "none"]]
      /\ latestMark' = [e \in Evidence |-> "none"]
      /\ behind' = {x \in behind : x[1] # l} \cup ((Ledgers \ {l}) \X Evidence)
  BY DEF Clear
<1>3. PICK left \in SUBSET {e \in Evidence : evidenceFiles[e] # "none"} :
          /\ evidenceFiles' = [e \in Evidence |-> IF e \in left THEN evidenceFiles[e] ELSE "none"]
          /\ filesBehind' = left
  BY DEF Clear
<1>4. /\ ledger' \in [Ledgers -> [Evidence -> Marks]]
      /\ latestMark' \in [Evidence -> Marks]
      /\ behind' \subseteq Ledgers \X Evidence
  BY <1>1, <1>2
<1>5. evidenceFiles' \in [Evidence -> Marks \cup {"torn"}] /\ filesBehind' \subseteq Evidence
  BY <1>1, <1>3
<1>6. \A m \in Ledgers, x \in Evidence : <<m, x>> \notin behind' => ledger'[m][x] = latestMark'[x]
  BY <1>1, <1>2
<1>7. \A x \in Evidence \ filesBehind' : evidenceFiles'[x] = latestMark'[x]
  BY <1>2, <1>3
<1> QED
  BY <1>4, <1>5, <1>6, <1>7 DEF EvidenceInv, EvidenceTypeOK, EvidenceIsCurrent

LEMMA EvidenceStep == EvidenceInv /\ (EvidenceNext \/ UNCHANGED evidenceVars) => EvidenceInv'
<1>1. ASSUME EvidenceInv, EvidenceNext PROVE EvidenceInv'
  <2>1. PICK l \in Ledgers :
            \/ \E e \in Evidence : Record(l, e) \/ Validate(l, e) \/ Invalidate(l, e)
            \/ LoadAll(l) \/ Clear(l)
    BY <1>1 DEF EvidenceNext
  <2>2. CASE \E e \in Evidence : Record(l, e) \/ Validate(l, e) \/ Invalidate(l, e)
    BY <1>1, <2>2, MarkIsSet DEF Record, Validate, Invalidate
  <2> QED
    BY <1>1, <2>1, <2>2, LoadAllKeeps, ClearKeeps
<1>2. ASSUME EvidenceInv, UNCHANGED evidenceVars PROVE EvidenceInv'
  BY <1>2 DEF EvidenceInv, evidenceVars, EvidenceTypeOK, EvidenceIsCurrent
<1> QED
  BY <1>1, <1>2

-----------------------------------------------------------------------------
(* The services side by side: each keeps its own invariant while the others *)
(* leave it alone.                                                          *)

DecisionsInv ==
    /\ part = "tools" => ToolsInv
    /\ part = "tracker" => TrackerInv
    /\ part = "approvals" => ApprovalInv
    /\ part = "commands" => CommandInv
    /\ part = "routing" => RoutingInv
    /\ part = "caches" => CachesInv

(* A step is taken by one group of services and leaves the others alone. *)
LEMMA OneGroupMoves ==
    ASSUME [MCNext]_<<part, allVars>>
    PROVE  /\ part' = part
           /\ StorageStep \/ UNCHANGED storageParts
           /\ SessionStep \/ UNCHANGED sessionParts
           /\ ExecutionStep \/ UNCHANGED executionParts
           /\ DecisionStep \/ UNCHANGED decisionParts
           /\ LearningStep \/ UNCHANGED learningParts
<1>1. CASE MCNext
  BY Zenon, <1>1 DEF MCNext
<1>2. CASE UNCHANGED <<part, allVars>>
  BY Zenon, <1>2 DEF allVars
<1> QED
  BY <1>1, <1>2

LEMMA DecisionsMove ==
    ASSUME [MCNext]_<<part, allVars>>
    PROVE  /\ part' = part
           /\ part = "tools" => ToolNext \/ UNCHANGED governanceVars
           /\ part = "tracker" => TrackerNext \/ UNCHANGED governanceVars
           /\ part = "approvals" => ApprovalNext \/ UNCHANGED governanceVars
           /\ part = "commands" => CommandNext \/ UNCHANGED governanceVars
           /\ part = "routing" => RoutingNext \/ UNCHANGED routingVars
           /\ part = "caches" => CachesNext \/ UNCHANGED cacheVars
<1>1. part' = part /\ (DecisionStep \/ UNCHANGED decisionParts)
  BY OneGroupMoves
<1>2. CASE UNCHANGED decisionParts
  BY Zenon, <1>1, <1>2 DEF decisionParts
<1>3. CASE DecisionStep
  BY SMT, <1>1, <1>3 DEF DecisionStep
<1> QED
  BY <1>1, <1>2, <1>3

LEMMA DecisionsStart == MCInit => DecisionsInv
<1>1. MCInit => GovernanceInit /\ RoutingInit /\ CachesInit
  BY Zenon DEF MCInit
<1> QED
  BY Zenon, <1>1, ToolsStart, TrackerStart, ApprovalStart, CommandStart, RoutingStart, CachesStart
     DEF DecisionsInv

LEMMA DecisionsStep == DecisionsInv /\ [MCNext]_<<part, allVars>> => DecisionsInv'
<1> SUFFICES ASSUME DecisionsInv, [MCNext]_<<part, allVars>> PROVE DecisionsInv'
  OBVIOUS
<1>1. part' = part
  BY DecisionsMove
<1>2. part = "tools" => ToolsInv'
  BY DecisionsMove, ToolsStep DEF DecisionsInv
<1>3. part = "tracker" => TrackerInv'
  BY DecisionsMove, TrackerStep DEF DecisionsInv
<1>4. part = "approvals" => ApprovalInv'
  BY DecisionsMove, ApprovalStep DEF DecisionsInv
<1>5. part = "commands" => CommandInv'
  BY DecisionsMove, CommandStep DEF DecisionsInv
<1>6. part = "routing" => RoutingInv'
  BY DecisionsMove, RoutingStep DEF DecisionsInv
<1>7. part = "caches" => CachesInv'
  BY DecisionsMove, CachesStep DEF DecisionsInv
<1> QED
  BY Zenon, <1>1, <1>2, <1>3, <1>4, <1>5, <1>6, <1>7 DEF DecisionsInv

LEMMA DecisionsInvariant == MCSpec => []DecisionsInv
<1> QED
  BY DecisionsStart, DecisionsStep, PTL DEF MCSpec

(* Decisions hold whatever the limits and however many callers: calls beyond
   the limit are those of callers that overlapped, a call goes on although it
   was done before only where the tracker excuses it, approvals agree with
   what is stored, commands that are allowed are below their risk, and a model
   that is routed to fits its request, or is the configured default because none
   fits; an unknown default raises instead. *)
THEOREM DecisionsHold == MCSpec => []DecisionsAreSound
<1>1. DecisionsInv => DecisionsAreSound
  BY SMT DEF DecisionsInv, DecisionsAreSound, ToolsInv, TrackerInv, ApprovalInv, CommandInv, RoutingInv
<1> QED
  BY <1>1, DecisionsInvariant, PTL

(* Caches stay within their bound, answer with what was stored last and open
   one client, whatever the keys, sizes and callers. *)
THEOREM CachesHold == MCSpec => []CachesAreSound
<1>1. DecisionsInv => CachesAreSound
  BY CachesAreRight DEF DecisionsInv, CachesAreSound
<1> QED
  BY <1>1, DecisionsInvariant, PTL

(* The invariants of the services that hold sessions. *)
SessionsInv ==
    /\ part = "agents" => AgentsInv
    /\ part = "rates" => RatesInv
    /\ part = "accounts" => AccountsInv
    /\ part = "terminals" => TermsInv
    /\ part = "gateway" => GatewayInv
    /\ part = "api" => ApiInv

LEMMA SessionsMove ==
    ASSUME [MCNext]_<<part, allVars>>
    PROVE  /\ part' = part
           /\ part = "agents" => AgentSessionsNext \/ UNCHANGED agentVars
           /\ part = "rates" => RateNext \/ UNCHANGED authVars
           /\ part = "accounts" => AccountsNext \/ UNCHANGED authVars
           /\ part = "terminals" => TerminalNext \/ UNCHANGED termVars
           /\ part = "gateway" => GatewayNext \/ UNCHANGED gatewayVars
           /\ part = "api" => ApiNext \/ UNCHANGED apiVars
<1>1. part' = part /\ (SessionStep \/ UNCHANGED sessionParts)
  BY OneGroupMoves
<1>2. CASE UNCHANGED sessionParts
  BY Zenon, <1>1, <1>2 DEF sessionParts
<1>3. CASE SessionStep
  BY SMT, <1>1, <1>3 DEF SessionStep
<1> QED
  BY <1>1, <1>2, <1>3

LEMMA SessionsStart == MCInit => SessionsInv
<1>1. MCInit => AgentSessionsInit /\ AuthInit /\ TerminalInit /\ GatewayInit /\ ApiInit
  BY Zenon DEF MCInit
<1> QED
  BY Zenon, <1>1, AgentsStart, RatesStart, AccountsStart, TermsStart, GatewayStart, ApiStart
     DEF SessionsInv

LEMMA SessionsStep == SessionsInv /\ [MCNext]_<<part, allVars>> => SessionsInv'
<1> SUFFICES ASSUME SessionsInv, [MCNext]_<<part, allVars>> PROVE SessionsInv'
  OBVIOUS
<1>1. part' = part
  BY SessionsMove
<1>2. part = "agents" => AgentsInv'
  BY SessionsMove, AgentsStep DEF SessionsInv
<1>3. part = "rates" => RatesInv'
  BY SessionsMove, RatesStep DEF SessionsInv
<1>4. part = "accounts" => AccountsInv'
  BY SessionsMove, AccountsStep DEF SessionsInv
<1>5. part = "terminals" => TermsInv'
  BY SessionsMove, TermsStep DEF SessionsInv
<1>6. part = "gateway" => GatewayInv'
  BY SessionsMove, GatewayStep DEF SessionsInv
<1>7. part = "api" => ApiInv'
  BY SessionsMove, ApiStep DEF SessionsInv
<1> QED
  BY Zenon, <1>1, <1>2, <1>3, <1>4, <1>5, <1>6, <1>7 DEF SessionsInv

LEMMA SessionsInvariant == MCSpec => []SessionsInv
<1> QED
  BY SessionsStart, SessionsStep, PTL DEF MCSpec

(* Sessions are what their tables say, whatever the sockets, accounts, limits,
   platforms and clients: a socket that was accepted is listed under the session
   it named, for good, and served by nobody; a window lets no more through than
   its limit, an account has one active session unless logins overlapped,
   terminals stay within their limits, the gateway says of a platform it is
   connected exactly when its handler is, and a route asks only a provider that
   can be used, the default or one that some request named. *)
THEOREM SessionsHold == MCSpec => []SessionsAreSound
<1>1. SessionsInv => SessionsAreSound
  <2>1. /\ RatesInv => NoWindowOverflows
        /\ TermsInv => TerminalLimits
        /\ GatewayInv => GatewayIsHonest
    BY DEF RatesInv, TermsInv, GatewayInv
  <2> QED
    BY Zenon, <2>1, AgentsAreRight, AccountsAreRight, ApiIsRight DEF SessionsInv, SessionsAreSound
<1> QED
  BY <1>1, SessionsInvariant, PTL

(* The invariants of what executes commands, tools and goals. *)
ExecutionsInv ==
    /\ part = "pty" => PtyInv
    /\ part = "sandbox" => SandboxInv
    /\ part = "loop" => LoopInv
    /\ part = "executor" => ExecutorInv
    /\ part = "events" => BusInv
    /\ part = "evidence" => EvidenceInv

LEMMA ExecutionsMove ==
    ASSUME [MCNext]_<<part, allVars>>
    PROVE  /\ part' = part
           /\ part = "pty" => PtyNext \/ UNCHANGED ptyVars
           /\ part = "sandbox" => SandboxNext \/ UNCHANGED sandboxVars
           /\ part = "loop" => LoopNext \/ UNCHANGED loopVars
           /\ part = "executor" => ExecutorStep \/ UNCHANGED catalogVars
           /\ part = "events" => BusNext \/ UNCHANGED busVars
           /\ part = "evidence" => EvidenceNext \/ UNCHANGED evidenceVars
<1>1. /\ part' = part /\ (ExecutionStep \/ UNCHANGED executionParts)
      /\ StorageStep \/ UNCHANGED storageParts
  BY OneGroupMoves
<1>2. part = "executor" => ExecutorStep \/ UNCHANGED catalogVars
  <2>1. CASE UNCHANGED storageParts
    BY Zenon, <2>1 DEF storageParts
  <2>2. CASE StorageStep
    BY SMT, <2>2 DEF StorageStep
  <2> QED
    BY <1>1, <2>1, <2>2
<1>3. CASE UNCHANGED executionParts
  BY Zenon, <1>1, <1>2, <1>3 DEF executionParts
<1>4. CASE ExecutionStep
  BY SMT, <1>1, <1>2, <1>4 DEF ExecutionStep
<1> QED
  BY <1>1, <1>3, <1>4

LEMMA ExecutionsStart == MCInit => ExecutionsInv
<1>1. MCInit => /\ PtyInit /\ SandboxInit /\ LoopInit /\ CatalogInit /\ BusInit /\ EvidenceInit
  BY Zenon DEF MCInit
<1> QED
  BY Zenon, <1>1, PtyStart, SandboxStart, LoopStart, ExecutorStart, BusStart, EvidenceStart
     DEF ExecutionsInv

LEMMA ExecutionsStep == ExecutionsInv /\ [MCNext]_<<part, allVars>> => ExecutionsInv'
<1> SUFFICES ASSUME ExecutionsInv, [MCNext]_<<part, allVars>> PROVE ExecutionsInv'
  OBVIOUS
<1>1. part' = part
  BY ExecutionsMove
<1>2. part = "pty" => PtyInv'
  BY ExecutionsMove, PtyStep DEF ExecutionsInv
<1>3. part = "sandbox" => SandboxInv'
  BY ExecutionsMove, SandboxStep DEF ExecutionsInv
<1>4. part = "loop" => LoopInv'
  BY ExecutionsMove, LoopStep DEF ExecutionsInv
<1>5. part = "executor" => ExecutorInv'
  BY ExecutionsMove, ExecutorKeeps DEF ExecutionsInv
<1>6. part = "events" => BusInv'
  BY ExecutionsMove, BusStep DEF ExecutionsInv
<1>7. part = "evidence" => EvidenceInv'
  BY ExecutionsMove, EvidenceStep DEF ExecutionsInv
<1> QED
  BY Zenon, <1>1, <1>2, <1>3, <1>4, <1>5, <1>6, <1>7 DEF ExecutionsInv

LEMMA ExecutionsInvariant == MCSpec => []ExecutionsInv
<1> QED
  BY ExecutionsStart, ExecutionsStep, PTL DEF MCSpec

(* What executes is honest, for any number of commands, containers, goals,
   callers, handlers and ledgers: a command is reported with its own exit code
   while no read ran ahead of it, a container that runs is that of one project's
   entry unless a request about it was refused or its answer lost, a goal is
   answered only by the model, calls of tools beyond the limit overlapped, an
   event reaches whoever stays subscribed, and evidence is current unless history
   says why not. *)
THEOREM ExecutionsHold == MCSpec => []ExecutionsAreSound
<1>1. ExecutionsInv => ExecutionsAreSound
  <2>1. /\ SandboxInv => NoRunawayContainers
        /\ LoopInv => LoopEndsHonestly
        /\ EvidenceInv => EvidenceIsCurrent
    BY DEF SandboxInv, LoopInv, EvidenceInv
  <2> QED
    BY Zenon, <2>1, ExitCodesAreRight, RatesOverrunByOverlap, EventsAreRight
       DEF ExecutionsInv, ExecutionsAreSound
<1> QED
  BY <1>1, ExecutionsInvariant, PTL
=============================================================================
