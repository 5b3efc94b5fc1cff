-------------------------------- MODULE LocalMemory --------------------------
(***************************************************************************)
(* What an agent keeps for itself: its memories, and the conversation it   *)
(* cuts down to the context of a model. The two parts have no state in     *)
(* common.                                                                 *)
(***************************************************************************)
EXTENDS Integers, Sequences, FiniteSets, SequencesExt

(* The sum of a sequence of numbers. *)
Total(w) ==
    LET sum[n \in 0..Len(w)] == IF n = 0 THEN 0 ELSE sum[n - 1] + w[n]
    IN sum[Len(w)]

-----------------------------------------------------------------------------
(***************************************************************************)
(* What an agent remembers by itself: the working memory of a session      *)
(* (memory/working.py), the skills of the procedural memory and their      *)
(* files (memory/procedural.py) and the model of its user                  *)
(* (memory/user_model.py).                                                 *)
(***************************************************************************)

CONSTANTS
    MemoryKeys,     \* keys of the working memory
    MaxItems,       \* its capacity (_max_items)
    Skills,         \* skills of the procedural memory
    MaxSkillRuns,   \* bound: executions recorded
    UserModels,     \* models of one user; the first is built from interactions
    MaxInteractions \* bound: interactions

ASSUME LocalMemoryAssumption ==
    /\ MaxItems \in Nat \ {0} /\ MaxSkillRuns \in Nat /\ MaxInteractions \in Nat
    /\ "none" \notin Skills \cup UserModels

VARIABLES
    recency,   \* items, the least recently accessed first: [key, aware]
    touched,   \* history: the key stored, recalled or updated last, or "none"
    loaded,    \* "down", "up": the procedural memory, or "failed" to load
    skills,    \* skill -> <<successes, failures, average * executions>>, or Missing
    files,     \* skill -> the counts in its file, Missing or Torn
    storedSkills,    \* history: skill -> counts of its last completed store
    hasDir,    \* the storage directory exists
    writing,   \* the skill whose file is being written, or "none"
    crashes,   \* history: writes cut off
    profileOf, \* model -> the profile it uses, or "none"
    profile,   \* profile -> [count, total]: interactions, average length * count
    heard,     \* history: profile -> lengths of the interactions analysed
    historyLen \* model -> entries of interaction_history

workingVars == <<recency, touched>>
skillVars == <<loaded, skills, files, storedSkills, hasDir, writing, crashes>>
userVars == <<profileOf, profile, heard, historyLen>>
memoryVars == <<workingVars, skillVars, userVars>>

Missing == <<-1, 0, 0>>
TornSkill == <<-2, 0, 0>>

-----------------------------------------------------------------------------
(* Working memory: datetime.now() stamps a stored item without a time zone, *)
(* datetime.now(UTC) an accessed one with it, and the two do not compare.   *)

Held == {recency[i].key : i \in DOMAIN recency}
Place(k) == CHOOSE i \in DOMAIN recency : recency[i].key = k
Others(k) == IF k \in Held THEN RemoveAt(recency, Place(k)) ELSE recency
Mixed == \E i, j \in DOMAIN recency : recency[i].aware # recency[j].aware

(* Wrong: a full memory keeps everything. *)
EvictNothing == recency

(* _evict_lru: the item accessed first; comparing mixed stamps raises. *)
Evict == Tail(recency)
(* store: a new key of a full memory evicts one first. *)
StoreItem(k) ==
    LET kept == IF k \notin Held /\ Len(recency) >= MaxItems THEN Evict ELSE Others(k)
    IN /\ ~(k \notin Held /\ Len(recency) >= MaxItems /\ Mixed)
       /\ recency' = Append(kept, [key |-> k, aware |-> FALSE])
       /\ touched' = k

(* recall and update of a key that is there. *)
TouchItem(k) ==
    /\ k \in Held
    /\ recency' = Append(Others(k), [key |-> k, aware |-> TRUE])
    /\ touched' = k

Forget(k) ==
    /\ k \in Held
    /\ recency' = Others(k)
    /\ touched' = IF touched = k THEN "none" ELSE touched

ClearMemory == recency # <<>> /\ recency' = <<>> /\ touched' = "none"

WorkingNext ==
    /\ \/ \E k \in MemoryKeys : StoreItem(k) \/ TouchItem(k) \/ Forget(k)
       \/ ClearMemory
    /\ UNCHANGED <<skillVars, userVars>>

-----------------------------------------------------------------------------
(* Procedural memory: one file per skill, written in place by store(). *)

(* __init__ and _load_from_disk: the built-in skills when the directory is *)
(* missing, else what the files say; the average is not in them, and a torn *)
(* file raises out of the constructor.                                      *)
FromFile(f) == IF f = Missing THEN f ELSE <<f[1], f[2], 0>>
OpenSkills ==
    /\ loaded = "down"
    /\ IF hasDir /\ \E s \in Skills : files[s] = TornSkill
         THEN loaded' = "failed" /\ UNCHANGED skills
         ELSE /\ loaded' = "up"
              /\ skills' = [s \in Skills |->
                              IF hasDir THEN FromFile(files[s]) ELSE <<0, 0, 0>>]
    /\ UNCHANGED <<files, storedSkills, hasDir, writing, crashes>>

(* store: the memory first; open(path, "w") then raises without a directory, *)
(* else it empties the file until json.dump has ended.                       *)
StoreSkill(s) ==
    /\ loaded = "up" /\ writing = "none"
    /\ skills' = IF skills[s] = Missing THEN [skills EXCEPT ![s] = <<0, 0, 0>>] ELSE skills
    /\ IF hasDir
         THEN writing' = s /\ files' = [files EXCEPT ![s] = TornSkill]
         ELSE UNCHANGED <<writing, files>>
    /\ UNCHANGED <<loaded, storedSkills, hasDir, crashes>>

EndSkillWrite ==
    /\ writing # "none"
    /\ files' = [files EXCEPT ![writing] = <<skills[writing][1], skills[writing][2], 0>>]
    /\ storedSkills' = [storedSkills EXCEPT ![writing] = files'[writing]]
    /\ writing' = "none"
    /\ UNCHANGED <<loaded, skills, hasDir, crashes>>

(* record_execution: the counts and the average of the memory, not the file; *)
(* every execution takes one unit.                                           *)
Recorded(c, ok) == IF ok THEN <<c[1] + 1, c[2], c[3] + 1>> ELSE <<c[1], c[2] + 1, c[3] + 1>>
RecordExecution(s, ok) ==
    /\ loaded = "up" /\ writing = "none" /\ skills[s] # Missing
    /\ skills[s][1] + skills[s][2] < MaxSkillRuns
    /\ skills' = [skills EXCEPT ![s] = Recorded(@, ok)]
    /\ UNCHANGED <<loaded, files, storedSkills, hasDir, writing, crashes>>

StopSkills ==
    /\ loaded # "down"
    /\ loaded' = "down" /\ skills' = [s \in Skills |-> Missing]
    /\ writing' = "none"
    /\ crashes' = (crashes \/ writing # "none")
    /\ UNCHANGED <<files, storedSkills, hasDir>>

SkillNext ==
    /\ \/ OpenSkills \/ EndSkillWrite \/ StopSkills
       \/ \E s \in Skills : StoreSkill(s) \/ \E ok \in BOOLEAN : RecordExecution(s, ok)
    /\ UNCHANGED <<workingVars, userVars>>

-----------------------------------------------------------------------------
(* The user's model: to_dict hands out the profile itself, not a copy, and  *)
(* from_dict uses what it is given, so that a model made from another's     *)
(* to_dict shares its profile; one made from to_json does not.              *)

(* update_from_interaction: the count, the history and the running average   *)
(* of the message length (the first message of a profile starts it).         *)
Averaged(p, len) ==
    [count |-> p.count + 1, total |-> IF p.count = 0 THEN len ELSE p.total + len]
Interact(m, len) ==
    LET p == profileOf[m]
    IN /\ p # "none" /\ Len(heard[p]) < MaxInteractions
       /\ profile' = [profile EXCEPT ![p] = Averaged(@, len)]
       /\ heard' = [heard EXCEPT ![p] = Append(@, len)]
       /\ historyLen' = [historyLen EXCEPT ![m] = @ + 1]
       /\ UNCHANGED profileOf

(* from_dict: the last ten interactions come along. *)
FromDict(m, other, alias) ==
    LET p == profileOf[m]
    IN /\ p # "none" /\ profileOf[other] = "none"
       /\ profileOf' = [profileOf EXCEPT ![other] = IF alias THEN p ELSE other]
       /\ profile' = IF alias THEN profile ELSE [profile EXCEPT ![other] = profile[p]]
       /\ heard' = IF alias THEN heard ELSE [heard EXCEPT ![other] = heard[p]]
       /\ historyLen' = [historyLen EXCEPT
                           ![other] = IF historyLen[m] > 10 THEN 10 ELSE historyLen[m]]

UserNext ==
    /\ \E m \in UserModels :
         \/ \E len \in {1, 3} : Interact(m, len)
         \/ \E other \in UserModels, alias \in BOOLEAN : FromDict(m, other, alias)
    /\ UNCHANGED <<workingVars, skillVars>>

-----------------------------------------------------------------------------
MemoryInit ==
    /\ recency = <<>> /\ touched = "none"
    /\ loaded = "down" /\ hasDir \in BOOLEAN /\ writing = "none" /\ crashes = FALSE
    /\ skills = [s \in Skills |-> Missing]
    /\ files = [s \in Skills |-> Missing]
    /\ storedSkills = [s \in Skills |-> Missing]
    /\ LET first == CHOOSE m \in UserModels : TRUE
       IN profileOf = [m \in UserModels |-> IF m = first THEN m ELSE "none"]
    /\ profile = [m \in UserModels |-> [count |-> 0, total |-> 0]]
    /\ heard = [m \in UserModels |-> <<>>]
    /\ historyLen = [m \in UserModels |-> 0]

MemoryNext == WorkingNext \/ SkillNext \/ UserNext

MemoryTypeOK ==
    /\ recency \in Seq([key : MemoryKeys, aware : BOOLEAN]) /\ Len(recency) <= MaxItems
    /\ touched \in MemoryKeys \cup {"none"}
    /\ loaded \in {"down", "up", "failed"} /\ writing \in Skills \cup {"none"}
    /\ hasDir \in BOOLEAN /\ crashes \in BOOLEAN
    /\ \A s \in Skills : /\ skills[s] \in Nat \X Nat \X Nat \/ skills[s] = Missing
                         /\ files[s] \in Nat \X Nat \X Nat \/ files[s] \in {Missing, TornSkill}
    /\ profileOf \in [UserModels -> UserModels \cup {"none"}]
    /\ profile \in [UserModels -> [count : Nat, total : Nat]]
    /\ historyLen \in [UserModels -> Nat]

(* What was stored, recalled or updated last is never what eviction takes:
   it stays until it is forgotten (memory/working.py _evict_lru). *)
LastTouchedIsKept == (touched # "none" /\ MaxItems > 1) => touched \in Held

(* A file holds what the last completed store of its skill wrote, the memory
   fails to open only after a write was cut off, and no skill claims more time
   than its executions took (memory/procedural.py). *)
SkillFilesAreStored ==
    /\ \A s \in Skills \ {writing} : files[s] = storedSkills[s] \/ (crashes /\ files[s] = TornSkill)
    /\ loaded = "failed" => crashes
    /\ \A s \in Skills : skills[s] # Missing => skills[s][3] <= skills[s][1] + skills[s][2]

(* The average length times the count is the length of all the interactions a
   profile has seen, through whichever of the models that share it; a model's
   own history may be shorter (memory/user_model.py). *)
ProfilesAddUp ==
    \A m \in UserModels :
      LET p == profileOf[m]
      IN p # "none" => /\ profile[p].count = Len(heard[p])
                       /\ profile[p].total = Total(heard[p])
                       /\ historyLen[m] <= profile[p].count

-----------------------------------------------------------------------------
(***************************************************************************)
(* Trimming a conversation to a model's context (memory/context_trim.py).  *)
(* A message is [id, role, tokens]; its estimate of tokens adds up.        *)
(***************************************************************************)

CONSTANTS
    TailCount,      \* messages kept from the end (tail_count = 10)
    MaxTalk,        \* bound: messages of a conversation
    MessageSizes    \* tokens of a message

ASSUME TrimAssumption ==
    TailCount \in Nat \ {0} /\ MaxTalk \in Nat /\ MessageSizes \subseteq Nat

VARIABLES
    talk,      \* the conversation, oldest first
    room,      \* tokens available: the window less RESERVED_TOKENS
    trimmed    \* what trim_context returned, or <<>> before

trimVars == <<talk, room, trimmed>>

EstimateTokens(msgs) == Total([i \in DOMAIN msgs |-> msgs[i].tokens])

(* messages[-tail_count:] and what is before it. *)
LastOf(msgs) == SubSeq(msgs, IF Len(msgs) > TailCount THEN Len(msgs) - TailCount + 1 ELSE 1, Len(msgs))
System(msgs) == SelectInSeq(msgs, LAMBDA m : m.role = "system")

(* messages[middle_start : len(messages) - tail_count]: system or not, unless  *)
(* the first message is the system's.                                          *)
Middle(msgs) ==
    SubSeq(msgs, IF System(msgs) = 1 THEN 2 ELSE 1, Len(msgs) - TailCount)

(* The newest messages of the middle that fit, each put before the tail and so *)
(* after those newer than itself; the first that does not fit ends it.         *)
Added(middle, base) ==
    LET fits(n) == base + EstimateTokens(SubSeq(middle, Len(middle) - n + 1, Len(middle))) <= room
        most == CHOOSE n \in 0..Len(middle) :
                  /\ \A k \in 0..n : fits(k)
                  /\ n = Len(middle) \/ ~fits(n + 1)
    IN Reverse(SubSeq(middle, Len(middle) - most + 1, Len(middle)))
TrimContext(msgs) ==
    LET head == IF System(msgs) = 0 THEN <<>> ELSE <<msgs[System(msgs)]>>
        short == head \o LastOf(msgs)
    IN IF EstimateTokens(msgs) <= room THEN msgs
       ELSE IF EstimateTokens(short) > room THEN short
       ELSE head \o Added(Middle(msgs), EstimateTokens(short)) \o LastOf(msgs)

Say(role, tokens) ==
    /\ trimmed = <<>> /\ Len(talk) < MaxTalk
    /\ role = "system" => System(talk) = 0
    /\ talk' = Append(talk, [id |-> Len(talk) + 1, role |-> role, tokens |-> tokens])
    /\ UNCHANGED <<room, trimmed>>

Trim ==
    /\ trimmed = <<>> /\ talk # <<>>
    /\ trimmed' = TrimContext(talk)
    /\ UNCHANGED <<talk, room>>

TrimInit ==
    /\ talk = <<>> /\ trimmed = <<>>
    /\ \E t \in 1..3, n \in MessageSizes : room = t * n

TrimNext ==
    \/ \E role \in {"system", "user"}, tokens \in MessageSizes : Say(role, tokens)
    \/ Trim

TrimTypeOK ==
    /\ talk \in Seq([id : Nat, role : {"system", "user"}, tokens : MessageSizes])
    /\ room \in Nat /\ ToSet(trimmed) \subseteq ToSet(talk)

(* A trimmed conversation fits whenever its system prompt and its tail do; the
   system prompt leads it and the tail ends it; what it kept of the middle is the
   newest part.  It is not always in order: the middle comes newest first, and a
   system prompt that was not the first message comes twice when it is kept in
   the middle or the tail too (memory/context_trim.py trim_context). *)
TrimmedTalkFits == trimmed # <<>> =>
    LET short == (IF System(talk) = 0 THEN 0 ELSE talk[System(talk)].tokens)
                   + EstimateTokens(LastOf(talk))
        kept == {trimmed[i].id : i \in DOMAIN trimmed}
    IN /\ short <= room => EstimateTokens(trimmed) <= room
       /\ IsSuffix(LastOf(talk), trimmed)
       /\ (System(talk) # 0 /\ trimmed # talk) => trimmed[1] = talk[System(talk)]
       /\ \A i, j \in DOMAIN talk :
            (i < j /\ talk[i].role # "system" /\ i \in kept) => j \in kept
       /\ trimmed # talk => EstimateTokens(talk) > room

=============================================================================
