---------------------------- MODULE SkillLibrary ----------------------------
(***************************************************************************)
(* The skills an agent collects: the registry and its file                 *)
(* (skills/registry.py), the loader and the evaluator with its ledger      *)
(* (skills/loader.py, skills/evaluator.py) and the curator that counts the *)
(* uses of a skill (learning/skill_curator.py).                            *)
(***************************************************************************)
EXTENDS Integers, Sequences, FiniteSets

CONSTANTS
    Registries,     \* SkillRegistry objects, one per process
    SkillIds,       \* skill identities
    MaxSkillEdits,  \* bound: changes of the registries
    MaxSources,     \* bound: versions of a skill's source file
    MaxEvaluations, \* bound: evaluations
    MaxUsages       \* bound: uses of the curated skill

ASSUME SkillAssumption ==
    /\ MaxSkillEdits \in Nat /\ MaxSources \in Nat
    /\ MaxEvaluations \in Nat /\ MaxUsages \in Nat

VARIABLES
    metas,      \* registry -> skill -> version of its metadata, 0: none
    metaFile,   \* skills_registry.json: skill -> version; or CutOff
    saving,     \* registries between open(path, "w") and the end of json.dump
    latest,     \* history: skill -> version last registered, 0: unregistered
    unseen,   \* history: skills a save took out of the file unseen
    edits,      \* bound and version numbers
    sourceVersion,     \* version of the source file, 0: none
    module,     \* version in sys.modules, 0: none
    ran,        \* history: [version, cached]: what execute_skill ran last
    loads,      \* history: the version last loaded without an error
    entries,     \* the evaluator's entries: <<passed, total>>
    ledgerFile, \* those on disk, or Illegible
    evaluated,  \* history: evaluations recorded
    illegible,  \* history: a ledger was cut off while it was written
    flushing,   \* the ledger's file is being written
    usage,      \* skill_usage of the curated skill: "open", "ok" or "failed"
    counts,     \* [uses, successes] of the skill
    pending,    \* uses whose outcome has not been recorded
    failed,     \* history: failures recorded
    overlapped  \* history: an outcome was recorded while another was open

registryVars == <<metas, metaFile, saving, latest, unseen, edits>>
loaderVars == <<sourceVersion, module, ran, loads>>
ledgerVars == <<entries, ledgerFile, evaluated, illegible, flushing>>
curatorVars == <<usage, counts, pending, failed, overlapped>>
skillLibraryVars == <<registryVars, loaderVars, ledgerVars, curatorVars>>

NoMetas == [s \in SkillIds |-> 0]
CutOff == [s \in SkillIds |-> -1]

-----------------------------------------------------------------------------
(* The registry.  __init__ does not read the file; every change writes all   *)
(* of the memory over it, in place.                                          *)

Change(r, s, version) ==
    /\ saving = {} /\ edits < MaxSkillEdits
    /\ edits' = edits + 1
    /\ metas' = [metas EXCEPT ![r][s] = version]
    /\ latest' = [latest EXCEPT ![s] = version]
    /\ saving' = {r}
    /\ unseen' = (unseen \ {s}) \cup
         {t \in SkillIds \ {s} : metas[r][t] # latest[t]}
    /\ metaFile' = CutOff

(* register, enable, disable. *)
RegisterSkill(r, s) == Change(r, s, edits + 1)
UnregisterSkill(r, s) == metas[r][s] # 0 /\ Change(r, s, 0)

EndRegistrySave(r) ==
    /\ r \in saving
    /\ metaFile' = metas[r] /\ saving' = {}
    /\ UNCHANGED <<metas, latest, unseen, edits>>

(* load: what is in memory wins; a file that does not parse is only logged. *)
Merged(own, file) == [s \in SkillIds |-> IF own[s] # 0 THEN own[s] ELSE file[s]]
LoadRegistry(r) ==
    /\ saving = {} /\ metaFile # CutOff
    /\ metas' = [metas EXCEPT ![r] = Merged(@, metaFile)]
    /\ UNCHANGED <<metaFile, saving, latest, unseen, edits>>

(* The process ends: what it was writing stays cut off, a new one starts empty. *)
RegistryDies(r) ==
    /\ metas[r] # NoMetas
    /\ metas' = [metas EXCEPT ![r] = NoMetas]
    /\ saving' = saving \ {r}
    /\ UNCHANGED <<metaFile, latest, unseen, edits>>

RegistryNext ==
    /\ \E r \in Registries :
         \/ EndRegistrySave(r) \/ LoadRegistry(r) \/ RegistryDies(r)
         \/ \E s \in SkillIds : RegisterSkill(r, s) \/ UnregisterSkill(r, s)
    /\ UNCHANGED <<loaderVars, ledgerVars, curatorVars>>

-----------------------------------------------------------------------------
(* The loader.  Its timer raises in its own thread, so no load or call is     *)
(* ever cut short: they end with a result or an error.                       *)

WriteSource == /\ sourceVersion < MaxSources /\ sourceVersion' = sourceVersion + 1
               /\ UNCHANGED <<module, ran, loads>>

(* load_skill: a source that is missing, too long, or raises leaves the module *)
(* that was loaded before.                                                     *)
LoadSkill(ok) ==
    /\ ok => sourceVersion # 0
    /\ module' = IF ok THEN sourceVersion ELSE module
    /\ loads' = IF ok THEN sourceVersion ELSE loads
    /\ UNCHANGED <<sourceVersion, ran>>

(* execute_skill: the module of sys.modules, however old; else a load. *)
Chosen == IF module # 0 THEN module ELSE sourceVersion
ExecuteSkill ==
    /\ Chosen # 0
    /\ module' = Chosen
    /\ loads' = IF module = 0 THEN sourceVersion ELSE loads
    /\ ran' = [version |-> Chosen, cached |-> module # 0]
    /\ UNCHANGED sourceVersion

LoaderNext ==
    /\ WriteSource \/ ExecuteSkill \/ \E ok \in BOOLEAN : LoadSkill(ok)
    /\ UNCHANGED <<registryVars, ledgerVars, curatorVars>>

-----------------------------------------------------------------------------
(* The evaluator: a skill that does not load is reported, not recorded; every *)
(* other evaluation is appended and the whole ledger written.                 *)

Illegible == <<<<-1, 0>>>>

EvaluateSkill(passed, total) ==
    /\ ~flushing /\ evaluated < MaxEvaluations
    /\ evaluated' = evaluated + 1
    /\ entries' = Append(entries, <<passed, total>>)
    /\ flushing' = TRUE /\ ledgerFile' = Illegible
    /\ UNCHANGED illegible

EndFlush ==
    /\ flushing /\ flushing' = FALSE
    /\ ledgerFile' = entries
    /\ UNCHANGED <<entries, evaluated, illegible>>

(* A new PerformanceLedger reads the file; one that does not parse is empty. *)
ReopenLedger ==
    /\ entries' = IF ledgerFile = Illegible THEN <<>> ELSE ledgerFile
    /\ illegible' = (illegible \/ flushing)
    /\ flushing' = FALSE
    /\ UNCHANGED <<ledgerFile, evaluated>>

EvaluatorNext ==
    /\ EndFlush \/ ReopenLedger
       \/ \E total \in 0..2 : \E passed \in 0..total : EvaluateSkill(passed, total)
    /\ UNCHANGED <<registryVars, loaderVars, curatorVars>>

-----------------------------------------------------------------------------
(* The curator: use_skill opens a usage record, record_skill_outcome writes    *)
(* to the last one, whichever use it belongs to.                               *)

UseSkill ==
    /\ Len(usage) < MaxUsages
    /\ usage' = Append(usage, "open")
    /\ counts' = [counts EXCEPT !.uses = @ + 1]
    /\ pending' = pending + 1
    /\ UNCHANGED <<failed, overlapped>>

CountOutcome(c, ok) == IF ok THEN [c EXCEPT !.successes = @ + 1] ELSE c
RecordOutcome(ok) ==
    /\ pending > 0
    /\ usage' = [usage EXCEPT ![Len(usage)] = IF ok THEN "ok" ELSE "failed"]
    /\ counts' = CountOutcome(counts, ok)
    /\ failed' = IF ok THEN failed ELSE failed + 1
    /\ pending' = pending - 1
    /\ overlapped' = (overlapped \/ pending > 1)

(* create_skill_from_experience under the same name starts over. *)
RecreateSkill ==
    /\ pending = 0 /\ usage # <<>>
    /\ usage' = <<>> /\ counts' = [uses |-> 0, successes |-> 0]
    /\ failed' = 0 /\ overlapped' = FALSE
    /\ UNCHANGED pending

CuratorNext ==
    /\ UseSkill \/ RecreateSkill \/ \E ok \in BOOLEAN : RecordOutcome(ok)
    /\ UNCHANGED <<registryVars, loaderVars, ledgerVars>>

-----------------------------------------------------------------------------
SkillLibraryInit ==
    /\ metas = [r \in Registries |-> NoMetas] /\ metaFile = NoMetas
    /\ saving = {} /\ latest = NoMetas /\ unseen = {} /\ edits = 0
    /\ sourceVersion = 0 /\ module = 0 /\ loads = 0 /\ ran = [version |-> 0, cached |-> FALSE]
    /\ entries = <<>> /\ ledgerFile = <<>> /\ evaluated = 0
    /\ illegible = FALSE /\ flushing = FALSE
    /\ usage = <<>> /\ counts = [uses |-> 0, successes |-> 0]
    /\ pending = 0 /\ failed = 0 /\ overlapped = FALSE

SkillLibraryNext == RegistryNext \/ LoaderNext \/ EvaluatorNext \/ CuratorNext

Failures == Cardinality({i \in DOMAIN usage : usage[i] = "failed"})

SkillLibraryTypeOK ==
    /\ metas \in [Registries -> [SkillIds -> 0..MaxSkillEdits]]
    /\ metaFile \in [SkillIds -> -1..MaxSkillEdits] /\ latest \in [SkillIds -> 0..MaxSkillEdits]
    /\ saving \subseteq Registries
    /\ unseen \subseteq SkillIds
    /\ {sourceVersion, module, loads} \subseteq 0..MaxSources
    /\ entries \in Seq((0..2) \X (0..2)) /\ evaluated \in 0..MaxEvaluations
    /\ usage \in Seq({"open", "ok", "failed"}) /\ pending \in 0..MaxUsages
    /\ {counts.uses, counts.successes, failed} \subseteq Nat

(* A whole registry file has every skill in the version last registered, but for
   those a registry wrote over that had not loaded them: not every save of a
   registry that has just loaded is harmless, only one whose own entries were not
   behind (skills/registry.py register, save, load). *)
RegistryFileIsLatest ==
    (metaFile # CutOff) => \A s \in SkillIds \ unseen : metaFile[s] = latest[s]

(* A call runs the version last loaded without an error, be it older than the
   source; a first call runs the source (skills/loader.py execute_skill). *)
RunsWhatWasLoaded == module = loads /\ (ran.cached => ran.version <= sourceVersion)

(* The ledger holds every evaluation recorded, unless one was cut off while it
   was written (skills/evaluator.py). *)
LedgerIsWhole ==
    /\ ~illegible => Len(entries) = evaluated
    /\ ~illegible /\ ~flushing => ledgerFile = entries
    /\ \A i \in DOMAIN entries : entries[i][1] <= entries[i][2]

(* Uses that overlap can hide failures from the analysis but never invent one;
   successes and failures never exceed the uses (learning/skill_curator.py). *)
UsageAddsUp ==
    /\ Failures <= failed
    /\ ~overlapped => Failures = failed
    /\ counts.successes + failed + pending = counts.uses
=============================================================================
