---------------------------- MODULE SharedContext ----------------------------
(***************************************************************************)
(* The key-value store agents share (orchestration/shared_context.py):     *)
(* versions, compare-and-set, expiry, and the JSON file that every change  *)
(* rewrites and that several instances may share.  A call does not await,  *)
(* so it is one step.  A value is named by the number of the write that    *)
(* made it and a time to live by the number of the write or touch that     *)
(* started it: copies in memory and in the file run out together.  Of a    *)
(* version vector only the instance's own count is used by the store, and  *)
(* tags, owners, access counts and the database table that nothing fills are left  *)
(* out.                                                                    *)
(***************************************************************************)
EXTENDS Naturals

CONSTANTS
    ContextKeys,     \* the keys
    Contexts,        \* SharedContext objects over one file
    MaxStamps        \* bound: writes and touches

ASSUME ContextAssumption == MaxStamps \in Nat

VARIABLES
    memory,     \* _memory of each instance
    count,      \* the instance's own component of _vv
    file,       \* what persist_path holds
    lapsed,     \* the stamps whose time to live is over
    stamps,     \* writes and touches so far
    seen,       \* the read a compare-and-set is going to rely on
    lost        \* history: the key was lost since that read

contextVars == <<memory, count, file, lapsed, stamps, seen, lost>>

NoEntry == [version |-> 0, value |-> 0, stamp |-> 0]
ContextEntry ==
    [version : 0..MaxStamps, value : 0..MaxStamps, stamp : 0..MaxStamps]

Torn == [kind |-> "torn", entries |-> [k \in ContextKeys |-> NoEntry]]
Saved(entries) == [kind |-> "saved", entries |-> entries]

NoRead == [by |-> "nobody"]

ContextTypeOK ==
    /\ memory \in [Contexts -> [ContextKeys -> ContextEntry]]
    /\ count \in [Contexts -> 0..MaxStamps]
    /\ file \in [kind : {"torn", "saved"}, entries : [ContextKeys -> ContextEntry]]
    /\ lapsed \subseteq 1..MaxStamps
    /\ stamps \in 0..MaxStamps
    /\ lost \in BOOLEAN

ContextInit ==
    /\ memory = [c \in Contexts |-> [k \in ContextKeys |-> NoEntry]]
    /\ count = [c \in Contexts |-> 0]
    /\ file = Saved([k \in ContextKeys |-> NoEntry])
    /\ lapsed = {}
    /\ stamps = 0
    /\ seen = NoRead
    /\ lost = FALSE

is_expired(e) == e.stamp \in lapsed
Missing(e) == e = NoEntry \/ is_expired(e)
Lasting(entries) ==
    [k \in ContextKeys |-> IF is_expired(entries[k]) THEN NoEntry ELSE entries[k]]

(* _persist: the file is written in place and errors are swallowed, so it may
   hold the new content, the old one or a part of the new one. *)
PersistContext(c) == file' \in {Saved(Lasting(memory'[c])), file, Torn}

(* An instance no longer has the entries of these keys. *)
Relied(c, keys) == seen # NoRead /\ seen.context = c /\ seen.key \in keys
LoseKeys(c, keys) == lost' = (lost \/ Relied(c, keys))

-----------------------------------------------------------------------------
(* Reads.  get, get_entry and get_many drop an entry that is expired and do
   not save; version_for, keys and find_by_tags pass it over. *)
Dropped(c, k) ==
    IF is_expired(memory[c][k]) THEN [memory EXCEPT ![c][k] = NoEntry] ELSE memory

ReadForUpdate(c, k) ==
    LET e == IF Missing(memory[c][k]) THEN NoEntry ELSE memory[c][k]
    IN  /\ memory' \in {memory, Dropped(c, k)}
        /\ seen' = [by |-> "agent", context |-> c, key |-> k,
                    version |-> e.version, value |-> e.value]
        /\ lost' = FALSE
        /\ UNCHANGED <<count, file, lapsed, stamps>>

(* The same drop by a reader who is not going to write. *)
GetValue(c, k) ==
    /\ memory' = Dropped(c, k)
    /\ LoseKeys(c, {j \in {k} : is_expired(memory[c][k])})
    /\ UNCHANGED <<count, file, lapsed, stamps, seen>>

-----------------------------------------------------------------------------
(* Writes.                                                                 *)

(* Wrong: every write of several keys starts them afresh. *)
RestartVersions(c, k) == 1

(* What atomic_set gives a key: its next version, or 1 for a new one. *)
VersionInBatch(c, k) ==
    IF Missing(memory[c][k]) THEN 1 ELSE memory[c][k].version + 1

(* set: an entry that lasts goes on; another one starts at the instance's own
   count, which no other key has used. *)
SetKey(c, k) ==
    LET e == memory[c][k]
        new == Missing(e)
    IN  /\ stamps < MaxStamps
        /\ stamps' = stamps + 1
        /\ count' = IF new THEN [count EXCEPT ![c] = @ + 1] ELSE count
        /\ memory' = [memory EXCEPT ![c][k] =
              [version |-> IF new THEN count'[c] ELSE e.version + 1,
               value |-> stamps', stamp |-> stamps']]
        /\ IF new /\ e # NoEntry THEN LoseKeys(c, {k}) ELSE UNCHANGED lost
        /\ PersistContext(c)
        /\ UNCHANGED lapsed

(* set_if_version with the version that was read, 0 for a key that was
   missing; an expired entry is compared all the same. *)
CompareAndSet ==
    /\ seen # NoRead
    /\ seen' = NoRead
    /\ IF memory[seen.context][seen.key].version = seen.version
       THEN SetKey(seen.context, seen.key)
       ELSE UNCHANGED <<memory, count, file, lapsed, stamps, lost>>

AtomicSet(c, keys) ==
    /\ keys # {}
    /\ stamps < MaxStamps
    /\ stamps' = stamps + 1
    /\ memory' = [memory EXCEPT ![c] = [k \in ContextKeys |->
          IF k \notin keys THEN @[k]
          ELSE [version |-> VersionInBatch(c, k), value |-> stamps', stamp |-> stamps']]]
    /\ LoseKeys(c, {k \in keys : is_expired(memory[c][k])})
    /\ PersistContext(c)
    /\ UNCHANGED <<count, lapsed, seen>>

(* touch restarts the time to live; update_tags only saves. *)
Touch(c, k) ==
    /\ ~Missing(memory[c][k])
    /\ \/ /\ stamps < MaxStamps
          /\ stamps' = stamps + 1
          /\ memory' = [memory EXCEPT ![c][k].stamp = stamps']
       \/ UNCHANGED <<stamps, memory>>
    /\ PersistContext(c)
    /\ UNCHANGED <<count, lapsed, seen, lost>>

(* delete, delete_many (also the clear of one owner's keys) and clear: expired
   entries count as well. *)
RemoveKeys(c, keys) ==
    /\ keys # {}
    /\ memory' = [memory EXCEPT ![c] =
          [k \in ContextKeys |-> IF k \in keys THEN NoEntry ELSE @[k]]]
    /\ LoseKeys(c, keys)
    /\ PersistContext(c)
    /\ UNCHANGED <<count, lapsed, stamps, seen>>

Entries(c) == {k \in ContextKeys : memory[c][k] # NoEntry}

Delete(c, k) == RemoveKeys(c, {k} \cap Entries(c))
DeleteMany(c, keys) == RemoveKeys(c, keys \cap Entries(c))
Clear(c) == RemoveKeys(c, Entries(c))

(* Time passes beyond updated_at + ttl of the entries with this stamp. *)
Lapse(n) ==
    /\ n \notin lapsed
    /\ \E c \in Contexts, k \in ContextKeys : memory[c][k].stamp = n
    /\ lapsed' = lapsed \cup {n}
    /\ UNCHANGED <<memory, count, file, stamps, seen, lost>>

(* The process dies and a new one constructs the object: it has a new id,
   hence a count of 0, and loads what it can read; its keys are all lost. *)
Restart(c) ==
    /\ memory' = [memory EXCEPT ![c] = Lasting(file.entries)]
    /\ count' = [count EXCEPT ![c] = 0]
    /\ LoseKeys(c, ContextKeys)
    /\ UNCHANGED <<file, lapsed, stamps, seen>>

ContextNext ==
    \/ CompareAndSet
    \/ \E n \in 1..MaxStamps : Lapse(n)
    \/ \E c \in Contexts :
          \/ \E k \in ContextKeys :
                \/ ReadForUpdate(c, k) \/ GetValue(c, k) \/ Touch(c, k) \/ Delete(c, k)
                \/ SetKey(c, k) /\ UNCHANGED seen
          \/ \E keys \in SUBSET ContextKeys : AtomicSet(c, keys) \/ DeleteMany(c, keys)
          \/ Clear(c) \/ Restart(c)

ContextSpec == ContextInit /\ [][ContextNext]_contextVars

-----------------------------------------------------------------------------
(* Properties.                                                             *)

(* A compare-and-set that succeeds replaces the very value its caller read.
   The exception is the hazard of this store: when the key was deleted, ran
   out or was reloaded in between, its versions may have started again and
   meet the old one. *)
UpdatesAreNotLost == [][
    seen # NoRead /\ seen' = NoRead /\ stamps' # stamps =>
        LET c == seen.context k == seen.key
        IN  memory[c][k].value = seen.value \/ lost]_contextVars

(* Within one life of a key, as a reader sees it, versions only grow, and an
   equal version is the same value. *)
VersionsOrderWrites == seen # NoRead /\ ~lost =>
    LET e == memory[seen.context][seen.key]
    IN  ~Missing(e) => /\ e.version >= seen.version
                       /\ e.version = seen.version <=> e.value = seen.value
=============================================================================
