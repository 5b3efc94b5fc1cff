----------------------------- MODULE ToolCatalog -----------------------------
(***************************************************************************)
(* The registry of tools with its file (tools/tool_registry.py) and the    *)
(* executor with its limit of calls per minute (tools/executor.py).        *)
(* Several callers run tools; the process that holds the registry may      *)
(* restart, and a save may fail.                                           *)
(***************************************************************************)
EXTENDS Naturals, Sequences, FiniteSets

CONSTANTS
    ToolNames,
    ToolUsers,      \* callers of the executor
    PerMinute,      \* max_per_minute
    MaxUses,        \* bound: tool calls
    MaxToolTime,    \* bound on the clock, which counts minutes
    MaxToolFaults   \* bound: restarts and saves that fail

ASSUME CatalogAssumption ==
    /\ "none" \notin ToolNames /\ IsFiniteSet(ToolUsers)
    /\ PerMinute \in Nat \ {0} /\ MaxUses \in Nat /\ MaxToolTime \in Nat
    /\ MaxToolFaults \in Nat

VARIABLES
    catalog,        \* _tools: status and counts of each tool that is registered
    catalogFile,    \* what the file holds of each tool
    faults,
    minute,
    using,          \* the tool each caller runs
    succeeded,      \* _rate_limiter: how many times are kept of each tool, by minute
    history,        \* _execution_history: the results kept
    unsavedTools    \* history: a save failed since the file was written

catalogVars == <<catalog, catalogFile, faults, minute, using, succeeded, history,
                 unsavedTools>>

Minutes == 0..MaxToolTime
ToolStatuses == {"none", "enabled", "disabled", "beta", "deprecated"}
NoTimes == [m \in Minutes |-> 0]
NoTool == [status |-> "none", calls |-> 0, failures |-> 0]

CatalogTypeOK ==
    /\ catalog \in [ToolNames -> [status : ToolStatuses, calls : Nat, failures : Nat]]
    /\ catalogFile \in [ToolNames -> [status : ToolStatuses, calls : Nat, failures : Nat]]
    /\ using \in [ToolUsers -> ToolNames \cup {"none"}]
    /\ minute \in Minutes
    /\ succeeded \in [ToolNames -> [Minutes -> Nat]]
    /\ \A k \in DOMAIN history : history[k] \in ToolNames

CatalogInit ==
    /\ catalog = [t \in ToolNames |-> NoTool]
    /\ catalogFile = [t \in ToolNames |-> NoTool]
    /\ faults = 0
    /\ minute = 0
    /\ using = [u \in ToolUsers |-> "none"]
    /\ succeeded = [t \in ToolNames |-> NoTimes]
    /\ history = <<>>
    /\ unsavedTools = FALSE

(* Every change is followed by _save, which writes the whole registry, or
   raises and leaves the change in memory. *)
Saves(new, ok) ==
    /\ ~ok => faults < MaxToolFaults
    /\ catalog' = new
    /\ catalogFile' = IF ok THEN new ELSE catalogFile
    /\ unsavedTools' = ~ok
    /\ faults' = IF ok THEN faults ELSE faults + 1
    /\ UNCHANGED <<minute, using, succeeded, history>>

RegisterTool(t, ok) ==
    /\ catalog[t].status = "none"
    /\ Saves([catalog EXCEPT ![t] = [NoTool EXCEPT !.status = "enabled"]], ok)

UnregisterTool(t, ok) ==
    /\ catalog[t].status # "none"
    /\ Saves([catalog EXCEPT ![t] = NoTool], ok)

(* update, enable, disable, deprecate, mark_beta. *)
SetToolStatus(t, status, ok) ==
    /\ catalog[t].status # "none"
    /\ Saves([catalog EXCEPT ![t].status = status], ok)

(* record_call *)
CountCall(t, success, ok) ==
    /\ catalog[t].status # "none" /\ catalog[t].calls < MaxUses
    /\ Saves([catalog EXCEPT ![t].calls = @ + 1,
                             ![t].failures = IF success THEN @ ELSE @ + 1], ok)

ClearCatalog(ok) == Saves([t \in ToolNames |-> NoTool], ok)

(* A new process runs _load, which looks for a "metadata" entry where _save
   wrote the fields themselves, and gives up at the first tool. *)
LoadCatalog ==
    /\ faults < MaxToolFaults
    /\ faults' = faults + 1
    /\ catalog' = [t \in ToolNames |-> NoTool]
    /\ using' = [u \in ToolUsers |-> "none"]
    /\ succeeded' = [t \in ToolNames |-> NoTimes]
    /\ history' = <<>>
    /\ unsavedTools' = FALSE
    /\ UNCHANGED <<catalogFile, minute>>

(* _check_rate_limit drops what is older than a minute. *)
WithinMinute(times) == [m \in Minutes |-> IF m = minute THEN times[m] ELSE 0]

BeginUse(u, t) ==
    /\ using[u] = "none"
    /\ Len(history) < MaxUses
    /\ succeeded' = [succeeded EXCEPT ![t] = WithinMinute(@)]
    /\ IF succeeded[t][minute] < PerMinute
       THEN using' = [using EXCEPT ![u] = t]
       ELSE UNCHANGED using
    /\ UNCHANGED <<catalog, catalogFile, faults, minute, history, unsavedTools>>

(* The tool returned: the call is kept and counted. *)
UseSucceeds(u) ==
    /\ using[u] # "none"
    /\ using' = [using EXCEPT ![u] = "none"]
    /\ succeeded' = [succeeded EXCEPT ![using[u]][minute] = @ + 1]
    /\ history' = Append(history, using[u])
    /\ UNCHANGED <<catalog, catalogFile, faults, minute, unsavedTools>>

(* It raised or took too long: an error result that nobody counts. *)
UseFails(u) ==
    /\ using[u] # "none"
    /\ using' = [using EXCEPT ![u] = "none"]
    /\ UNCHANGED <<catalog, catalogFile, faults, minute, succeeded, history, unsavedTools>>

MinutePasses ==
    /\ minute < MaxToolTime
    /\ minute' = minute + 1
    /\ UNCHANGED <<catalog, catalogFile, faults, using, succeeded, history, unsavedTools>>

RegistryStep ==
    \/ \E t \in ToolNames, ok \in BOOLEAN :
          \/ RegisterTool(t, ok)
          \/ UnregisterTool(t, ok)
          \/ \E s \in ToolStatuses \ {"none"} : SetToolStatus(t, s, ok)
          \/ \E success \in BOOLEAN : CountCall(t, success, ok)
    \/ \E ok \in BOOLEAN : ClearCatalog(ok)
    \/ LoadCatalog

ExecutorStep ==
    \/ \E u \in ToolUsers :
          \/ \E t \in ToolNames : BeginUse(u, t)
          \/ UseSucceeds(u)
          \/ UseFails(u)
    \/ MinutePasses
-----------------------------------------------------------------------------

\* The file is what the registry holds, unless the last save failed or the
\* process restarted and has saved nothing yet; a tool that was counted is
\* never counted more often as failed than as called.
FileFollowsCatalog ==
    /\ catalogFile = catalog \/ unsavedTools
          \/ \A t \in ToolNames : catalog[t] = NoTool
    /\ \A t \in ToolNames : catalog[t].failures <= catalog[t].calls

\* More calls of a tool than allowed succeed within a minute only if they
\* overlap: at most as many more as there are other callers.
RateOverrunByOverlap ==
    \A t \in ToolNames :
        succeeded[t][minute] <= PerMinute + Cardinality(ToolUsers) - 1

=============================================================================
