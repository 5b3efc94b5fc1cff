-------------------------------- MODULE Credentials --------------------------
(***************************************************************************)
(* Who may use the server, and the keys it uses: accounts, sessions and    *)
(* rate limits, and the file of API keys. The two parts have no state in   *)
(* common.                                                                 *)
(***************************************************************************)
EXTENDS Integers, FiniteSets

-----------------------------------------------------------------------------
(***************************************************************************)
(* Accounts and their sessions (auth/router.py) over the shared database,  *)
(* with several server processes, and the rate limits each process keeps   *)
(* in memory (auth/router.py, auth/__init__.py).  Passwords are right or   *)
(* wrong; hashes, cookies, CSRF tokens and addresses are left out.         *)
(***************************************************************************)

CONSTANTS
    Accounts,       \* e-mail addresses
    SessionIds,     \* identifiers generate_session_id may return
    SessionTTL,     \* how long a session lasts
    RateWindow,     \* the window of the rate limit
    RateLimit,      \* requests of one key it allows
    MaxTime         \* bound on the clock

ASSUME AuthAssumption ==
    /\ "none" \notin Accounts
    /\ SessionTTL \in Nat /\ MaxTime \in Nat
    /\ RateWindow \in Nat \ {0} /\ RateLimit \in Nat \ {0}

VARIABLES
    now,            \* the clock
    users,          \* rows of the users table
    sessions,       \* rows of the sessions table, by identifier
    registering,    \* accounts whose register() is between its two commits
    counters,       \* the times in _rate_limits of one key, since the start
    allowed,        \* history: the times of all requests the limit let through
    kept,           \* history: accounts whose last login deleted no sessions
    overtaken       \* history: accounts that logged in before register() ended

authVars == <<now, users, sessions, registering, counters, allowed, kept, overtaken>>

NoSession == [user |-> "none", expires |-> 0, revoked |-> FALSE]

AuthTypeOK ==
    /\ now \in 0..MaxTime
    /\ users \subseteq Accounts /\ registering \subseteq users
    /\ sessions \in [SessionIds -> {NoSession} \cup
          [user : users, expires : 0..(MaxTime + SessionTTL), revoked : BOOLEAN]]
    /\ counters \subseteq (0..MaxTime) \X Nat
    /\ allowed \subseteq (0..MaxTime) \X Nat
    /\ kept \subseteq Accounts /\ overtaken \subseteq Accounts

AuthInit ==
    /\ now = 0
    /\ users = {}
    /\ sessions = [s \in SessionIds |-> NoSession]
    /\ registering = {}
    /\ counters = {}
    /\ allowed = {}
    /\ kept = {}
    /\ overtaken = {}

Unused(s) == sessions[s] = NoSession
NewSession(a) == [user |-> a, expires |-> now + SessionTTL, revoked |-> FALSE]
Of(a) == {s \in SessionIds : sessions[s].user = a}

-----------------------------------------------------------------------------
(* check_rate_limit and RateLimiter.is_allowed.  Two requests at one time are
   two entries: an entry is a time and a number. *)

(* Wrong: entries are dropped as soon as the window is half over. *)
HalfWindow == {e \in counters : 2 * (now - e[1]) < RateWindow}

RecentRequests == {e \in counters : e[1] > now - RateWindow}

LimitedRequest ==
    /\ LET recent == RecentRequests
           entry  == <<now, Cardinality({e \in allowed : e[1] = now})>>
       IN  IF Cardinality(recent) >= RateLimit
           THEN counters' = recent /\ UNCHANGED allowed
           ELSE counters' = recent \cup {entry} /\ allowed' = allowed \cup {entry}
    /\ UNCHANGED <<now, users, sessions, registering, kept, overtaken>>

(* A restart of the process forgets the counters, and register() calls with
   their second commit outstanding; the history restarts with it. *)
ServerRestarts ==
    /\ counters' = {} /\ allowed' = {}
    /\ registering' = {}
    /\ UNCHANGED <<now, users, sessions, kept, overtaken>>

-----------------------------------------------------------------------------
(* The routes, one action per transaction.                                 *)

(* register: the row of users is committed first ... *)
RegisterUser(a) ==
    /\ a \notin users
    /\ users' = users \cup {a}
    /\ registering' = registering \cup {a}
    /\ UNCHANGED <<now, sessions, counters, allowed, kept, overtaken>>

(* ... and its session afterwards, unless that raises. *)
RegisterSession(a, s) ==
    /\ a \in registering /\ Unused(s)
    /\ registering' = registering \ {a}
    /\ sessions' \in {sessions, [sessions EXCEPT ![s] = NewSession(a)]}
    /\ UNCHANGED <<now, users, counters, allowed, kept, overtaken>>

(* login with the right password: the old sessions are deleted, or the delete
   raises and is ignored, and a new one is inserted in the same transaction. *)
Login(a, s) ==
    /\ a \in users /\ Unused(s)
    /\ \E removed \in {Of(a), {}} :
          /\ sessions' = [x \in SessionIds |->
                CASE x = s -> NewSession(a)
                  [] x \in removed -> NoSession
                  [] OTHER -> sessions[x]]
          /\ kept' = IF removed = Of(a) THEN kept \ {a} ELSE kept \cup {a}
          /\ overtaken' = IF a \in registering THEN overtaken \cup {a}
                          ELSE IF removed = Of(a) THEN overtaken \ {a} ELSE overtaken
    /\ UNCHANGED <<now, users, registering, counters, allowed>>

Logout(s) ==
    /\ ~Unused(s)
    /\ sessions' = [sessions EXCEPT ![s].revoked = TRUE]
    /\ UNCHANGED <<now, users, registering, counters, allowed, kept, overtaken>>

TimePasses ==
    /\ now < MaxTime
    /\ now' = now + 1
    /\ UNCHANGED <<users, sessions, registering, counters, allowed, kept, overtaken>>

RateNext == LimitedRequest \/ ServerRestarts \/ TimePasses

AccountsNext ==
    \/ TimePasses
    \/ ServerRestarts
    \/ \E a \in Accounts : RegisterUser(a)
    \/ \E a \in Accounts, s \in SessionIds : RegisterSession(a, s) \/ Login(a, s)
    \/ \E s \in SessionIds : Logout(s)

(* get_session, get_current_user and the web socket's get_user_id. *)
Authenticates(s) == ~Unused(s) /\ now <= sessions[s].expires /\ ~sessions[s].revoked

-----------------------------------------------------------------------------
(* Properties.                                                             *)

(* The one active session policy of login(): an account has two sessions that
   authenticate only when a delete failed or a login overtook register(). *)
OneActiveSession == \A a \in Accounts \ (kept \cup overtaken) :
    Cardinality({s \in Of(a) : Authenticates(s)}) <= 1

(* No window of the clock, wherever it starts, holds more requests of one key
   than the limit, although the log is pruned on every request. *)
NoWindowOverflows == \A start \in 0..MaxTime :
    Cardinality({e \in allowed : e[1] >= start /\ e[1] < start + RateWindow}) <= RateLimit

-----------------------------------------------------------------------------
(***************************************************************************)
(* API keys (api/keys.py): a cipher file and a file of encrypted keys that *)
(* several processes read, change and write back without a lock.  A key is *)
(* the number of the save that stored it; encrypted, it carries its cipher. *)
(* A manager writes the cipher file at most once, as it is never removed   *)
(* again, so its name stands for the cipher it makes.                      *)
(***************************************************************************)

CONSTANTS
    Managers,       \* APIKeyManager objects, one per process
    KeyProviders,   \* names keys are saved under
    MaxKeys         \* bound: keys saved

ASSUME KeyAssumption ==
    /\ MaxKeys \in Nat
    /\ "none" \notin Managers /\ "torn" \notin Managers

VARIABLES
    cipherFile,     \* .key: the manager that made it, "none", or "torn"
    cipherOf,       \* _cipher of each manager, "none" before __init__ is over
    keysFile,       \* keys.enc: the keys, or what a write left half done
    editing,        \* what each manager does with the keys it has read
    keysMade,       \* keys made so far
    saved,          \* history: the key last saved and not removed, 0 for none
    keptUnder,      \* history: the keys ever saved under each name
    tangled         \* history: writers overlapped, or one died while writing

keyVars == <<cipherFile, cipherOf, keysFile, editing, keysMade, saved, keptUnder, tangled>>

NoCipher == "none"
TornCipher == "torn"
NoKey == [key |-> 0, cipher |-> NoCipher]
NoKeys == [p \in KeyProviders |-> NoKey]
WholeFile(keys) == [torn |-> FALSE, keys |-> keys]
TornFile == [torn |-> TRUE, keys |-> NoKeys]
AnyKeys == [KeyProviders -> [key : 0..MaxKeys, cipher : Managers \cup {NoCipher}]]
NotEditing == [does |-> "nothing", provider |-> "none", keys |-> NoKeys]

KeysTypeOK ==
    /\ cipherFile \in Managers \cup {NoCipher, TornCipher}
    /\ cipherOf \in [Managers -> Managers \cup {NoCipher}]
    /\ keysFile \in [torn : BOOLEAN, keys : AnyKeys]
    /\ \A m \in Managers : editing[m].does \in
          {"nothing", "makes cipher", "writes cipher", "save", "remove", "saving", "removing"}
    /\ keysMade \in 0..MaxKeys
    /\ saved \in [KeyProviders -> 0..MaxKeys]
    /\ keptUnder \in [KeyProviders -> SUBSET (1..MaxKeys)]
    /\ tangled \in BOOLEAN

KeysInit ==
    /\ cipherFile = NoCipher
    /\ cipherOf = [m \in Managers |-> NoCipher]
    /\ keysFile = WholeFile(NoKeys)
    /\ editing = [m \in Managers |-> NotEditing]
    /\ keysMade = 0
    /\ saved = [p \in KeyProviders |-> 0]
    /\ keptUnder = [p \in KeyProviders |-> {}]
    /\ tangled = FALSE

Free(m) == cipherOf[m] # NoCipher /\ editing[m] = NotEditing

(* _get_cipher: the file is read if it is there, and what another manager has
   not written yet, or never will, makes Fernet raise and leaves no manager; ... *)
FindCipher(m) ==
    /\ cipherOf[m] = NoCipher /\ editing[m] = NotEditing
    /\ IF cipherFile = NoCipher
       THEN editing' = [editing EXCEPT ![m].does = "makes cipher"] /\ UNCHANGED cipherOf
       ELSE /\ cipherFile # TornCipher
            /\ cipherOf' = [cipherOf EXCEPT ![m] = cipherFile] /\ UNCHANGED editing
    /\ UNCHANGED <<cipherFile, keysFile, keysMade, saved, keptUnder, tangled>>

(* ... and if it was not there then, write_bytes makes it, empty first, ... *)
OpenCipherFile(m) ==
    /\ editing[m].does = "makes cipher"
    /\ cipherFile' = TornCipher
    /\ editing' = [editing EXCEPT ![m].does = "writes cipher"]
    /\ tangled' = (tangled \/ cipherFile # NoCipher)
    /\ UNCHANGED <<cipherOf, keysFile, keysMade, saved, keptUnder>>

(* ... and fills it. *)
MakeCipher(m) ==
    /\ editing[m].does = "writes cipher"
    /\ cipherFile' = m
    /\ cipherOf' = [cipherOf EXCEPT ![m] = m]
    /\ editing' = [editing EXCEPT ![m] = NotEditing]
    /\ UNCHANGED <<keysFile, keysMade, saved, keptUnder, tangled>>

(* _load_keys: what cannot be parsed is no keys. *)
LoadKeys == IF keysFile.torn THEN NoKeys ELSE keysFile.keys

Overlap(m) == \E q \in Managers \ {m} : editing[q].does \in {"save", "remove", "saving", "removing"}

(* save_key and remove_key up to the write. *)
ReadKeysToSave(m, p) ==
    /\ Free(m) /\ keysMade < MaxKeys
    /\ keysMade' = keysMade + 1
    /\ editing' = [editing EXCEPT ![m] = [does |-> "save", provider |-> p,
          keys |-> [LoadKeys EXCEPT ![p] = [key |-> keysMade + 1, cipher |-> cipherOf[m]]]]]
    /\ tangled' = (tangled \/ Overlap(m))
    /\ UNCHANGED <<cipherFile, cipherOf, keysFile, saved, keptUnder>>

ReadKeysToRemove(m, p) ==
    /\ Free(m) /\ LoadKeys[p] # NoKey
    /\ editing' = [editing EXCEPT ![m] = [does |-> "remove", provider |-> p,
          keys |-> [LoadKeys EXCEPT ![p] = NoKey]]]
    /\ tangled' = (tangled \/ Overlap(m))
    /\ UNCHANGED <<cipherFile, cipherOf, keysFile, keysMade, saved, keptUnder>>

(* _save_keys: open() empties the file, json.dump fills it. *)
OpenKeysFile(m) ==
    /\ editing[m].does \in {"save", "remove"}
    /\ keysFile' = TornFile
    /\ editing' = [editing EXCEPT ![m].does = IF @ = "save" THEN "saving" ELSE "removing"]
    /\ UNCHANGED <<cipherFile, cipherOf, keysMade, saved, keptUnder, tangled>>

WriteKeysFile(m) ==
    LET p == editing[m].provider
    IN  /\ editing[m].does \in {"saving", "removing"}
        /\ keysFile' = WholeFile(editing[m].keys)
        /\ saved' = [saved EXCEPT ![p] = editing[m].keys[p].key]
        /\ keptUnder' = [keptUnder EXCEPT ![p] = @ \cup ({editing[m].keys[p].key} \ {0})]
        /\ editing' = [editing EXCEPT ![m] = NotEditing]
        /\ UNCHANGED <<cipherFile, cipherOf, keysMade, tangled>>

(* The process ends; another one, with no cipher yet, takes its place. *)
ManagerDies(m) ==
    /\ cipherOf[m] # NoCipher \/ editing[m] # NotEditing
    /\ cipherOf' = [cipherOf EXCEPT ![m] = NoCipher]
    /\ editing' = [editing EXCEPT ![m] = NotEditing]
    /\ tangled' = (tangled \/ editing[m].does \in {"saving", "removing"})
    /\ UNCHANGED <<cipherFile, keysFile, keysMade, saved, keptUnder>>

KeysNext == \E m \in Managers :
    \/ FindCipher(m) \/ OpenCipherFile(m) \/ MakeCipher(m)
    \/ \E p \in KeyProviders : ReadKeysToSave(m, p) \/ ReadKeysToRemove(m, p)
    \/ OpenKeysFile(m) \/ WriteKeysFile(m) \/ ManagerDies(m)

(* get_key: 0 when there is none or another cipher encrypted it. *)
GetKey(m, p) ==
    LET entry == LoadKeys[p] IN IF entry.cipher = cipherOf[m] THEN entry.key ELSE 0

-----------------------------------------------------------------------------
(* Properties.                                                             *)

(* Managers that have a cipher find each other's keys, after any restarts and
   with whatever cipher they came to use, as long as their changes do not overlap
   and no crash tears the file of keys; and in any case, what get_key returns was
   once saved under the name it is asked for.  A crash that tears the file of the
   cipher leaves every later manager without one. *)
KeysAreFound == \A m \in Managers, p \in KeyProviders :
    cipherOf[m] # NoCipher => /\ ~tangled /\ ~keysFile.torn => GetKey(m, p) = saved[p]
                              /\ GetKey(m, p) # 0 => GetKey(m, p) \in keptUnder[p]

=============================================================================
