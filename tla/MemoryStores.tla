---------------------------- MODULE MemoryStores ----------------------------
(***************************************************************************)
(* The memories kept in SQLite: facts that are replaced by identity        *)
(* (memory/semantic_store.py), project contexts that are loaded, changed   *)
(* and saved whole while a counter is incremented in place                 *)
(* (memory/project_store.py) and the searchable sessions on one connection *)
(* (memory/session_search.py); and the conflicts found between memories    *)
(* (memory/conflict.py).                                                   *)
(***************************************************************************)
EXTENDS Integers, Sequences, FiniteSets

CONSTANTS
    StoreUsers,     \* callers, each with its connection (processes or threads)
    FactIds,        \* facts, or episodes, or sessions of the manager
    MaxFactOps,     \* bound: operations on facts and projects
    ChatSessions,   \* conversations of the session search
    MaxMessages,    \* bound: messages added
    MaxBusy,        \* bound: commits that find the database locked
    Claims,         \* what a memory may say: [subject, negates, sure, prefix],
                    \* negates being the negation words it uses
    MaxClaims       \* bound: memories compared

ASSUME MemoryStoresAssumption ==
    /\ MaxFactOps \in Nat /\ MaxMessages \in Nat /\ MaxBusy \in Nat /\ MaxClaims \in Nat
    /\ \A c \in Claims : c.sure \in BOOLEAN

VARIABLES
    facts,      \* fact -> its access_count, or -1: no row
    reading,       \* caller -> the fact whose get() has read its row, or "none"
    copies,     \* caller -> fact -> the access_count of its copy, or -1: none
    returned,   \* history: fact -> gets that returned it since it was stored
    resets,     \* history: facts stored again from an older copy, or raced
    project,    \* the project's row: [sessions, tag], or [sessions: -1]: none
    contexts,   \* caller -> the context it holds, as it loaded it
    creating,   \* callers between load() and save() of load_or_create
    increments, \* history: increment_session calls that hit the row
    overwrites, \* history: contexts saved over a row they were not loaded from
    factOps,    \* bound
    db,         \* committed rows of the session search
    txn,        \* rows as its connection sees them: open, or = db
    reported,   \* history: messages whose add_message answered True
    unsure,     \* history: messages whose add or delete answered False
    dropped,    \* history: sessions whose delete_session answered True
    added,      \* bound and identity: messages added so far
    busy,       \* bound
    claims,     \* memories in the order they came: [claim, at]
    conflicts,  \* <<prefix, prefix>> -> the conflict recorded under it, or NoConflict
    collided,   \* history: a conflict was recorded over another one
    detected,   \* history: the conflicts detected
    verdicts    \* history: conflicts resolved, with action and winner

factVars == <<facts, reading, copies, returned, resets>>
projectVars == <<project, contexts, creating, increments, overwrites>>
chatVars == <<db, txn, reported, unsure, dropped, added, busy>>
conflictVars == <<claims, conflicts, collided, detected, verdicts>>
storeVars == <<factVars, projectVars, factOps, chatVars, conflictVars>>

-----------------------------------------------------------------------------
(* Facts.  store: INSERT OR REPLACE writes every column, access_count too.  *)

Count == /\ factOps < MaxFactOps
         /\ factOps' = factOps + 1

(* A new SemanticFact has access_count 0; one that get() returned has the   *)
(* count its row had then.                                                  *)
StoreFact(u, f) ==
    LET count == IF copies[u][f] = -1 THEN 0 ELSE copies[u][f]
    IN /\ Count
       /\ facts' = [facts EXCEPT ![f] = count]
       /\ returned' = [returned EXCEPT ![f] = IF copies[u][f] = -1 THEN 0 ELSE @]
       /\ resets' = IF count # 0 \/ facts[f] > count THEN resets \cup {f} ELSE resets
       /\ UNCHANGED <<reading, copies>>

(* get: SELECT, then UPDATE ... access_count+1 if there was a row. *)
BeginGet(u, f) ==
    /\ Count /\ reading[u] = "none" /\ facts[f] # -1
    /\ reading' = [reading EXCEPT ![u] = f]
    /\ copies' = [copies EXCEPT ![u][f] = facts[f]]
    /\ UNCHANGED <<facts, returned, resets>>

Accessed(n) == n + 1
EndGet(u) ==
    LET f == reading[u]
    IN /\ f # "none"
       /\ facts' = IF facts[f] = -1 THEN facts ELSE [facts EXCEPT ![f] = Accessed(@)]
       /\ returned' = [returned EXCEPT ![f] = @ + 1]
       /\ reading' = [reading EXCEPT ![u] = "none"]
       /\ resets' = IF facts[f] = -1 THEN resets \cup {f} ELSE resets
       /\ UNCHANGED <<copies, factOps>>

(* delete and delete_by_source. *)
DeleteFact(f) ==
    /\ Count /\ facts[f] # -1
    /\ facts' = [facts EXCEPT ![f] = -1]
    /\ returned' = [returned EXCEPT ![f] = 0]
    /\ resets' = IF \E u \in StoreUsers : reading[u] = f THEN resets \cup {f} ELSE resets
    /\ UNCHANGED <<reading, copies>>

FactNext ==
    /\ \/ \E u \in StoreUsers : \/ EndGet(u)
                                \/ \E f \in FactIds : StoreFact(u, f) \/ BeginGet(u, f)
       \/ \E f \in FactIds : DeleteFact(f)
    /\ UNCHANGED <<projectVars, chatVars, conflictVars>>

-----------------------------------------------------------------------------
(* Project contexts. *)

NoProject == [sessions |-> -1, tag |-> 0]

(* load; load_or_create when the row is there. *)
LoadProject(u) ==
    /\ Count /\ u \notin creating /\ project # NoProject
    /\ contexts' = [contexts EXCEPT ![u] = project]
    /\ UNCHANGED <<project, creating, increments, overwrites>>

(* load_or_create when it is not: the new context is saved in a second call. *)
MissProject(u) ==
    /\ Count /\ u \notin creating /\ project = NoProject
    /\ creating' = creating \cup {u}
    /\ UNCHANGED <<project, contexts, increments, overwrites>>

SaveNewProject(u) ==
    /\ u \in creating
    /\ creating' = creating \ {u}
    /\ project' = [sessions |-> 0, tag |-> 0]
    /\ contexts' = [contexts EXCEPT ![u] = project']
    /\ overwrites' = overwrites + (IF project # NoProject THEN 1 ELSE 0)
    /\ increments' = IF project # NoProject THEN increments ELSE 0
    /\ UNCHANGED factOps

(* save of a context changed by its holder: every column, session_count too. *)
SaveProject(u) ==
    /\ Count /\ u \notin creating /\ contexts[u] # NoProject
    /\ project' = [contexts[u] EXCEPT !.tag = factOps + 1]
    /\ contexts' = [contexts EXCEPT ![u] = project']
    /\ overwrites' = overwrites + (IF project # contexts[u] THEN 1 ELSE 0)
    /\ UNCHANGED <<creating, increments>>

(* increment_session: one UPDATE, no effect without a row. *)
Incremented(p) == [p EXCEPT !.sessions = @ + 1]
IncrementSession ==
    /\ Count /\ project # NoProject
    /\ project' = Incremented(project)
    /\ increments' = increments + 1
    /\ UNCHANGED <<contexts, creating, overwrites>>

ForgetProject ==
    /\ Count /\ project # NoProject
    /\ project' = NoProject /\ increments' = 0
    /\ overwrites' = overwrites + 1
    /\ UNCHANGED <<contexts, creating>>

ProjectNext ==
    /\ \/ \E u \in StoreUsers : \/ LoadProject(u) \/ MissProject(u)
                                \/ SaveNewProject(u) \/ SaveProject(u)
       \/ IncrementSession \/ ForgetProject
    /\ UNCHANGED <<factVars, chatVars, conflictVars>>

-----------------------------------------------------------------------------
(* Session search.  Every statement runs in one transaction of the one       *)
(* connection; a commit that finds the database locked raises, the method    *)
(* answers False, and the transaction stays open until the next commit.      *)

Empty == [sessions |-> {}, messages |-> {}, index |-> {}]

Commit(view, ok) ==
    /\ txn' = view
    /\ IF ok THEN db' = view /\ UNCHANGED busy
             ELSE busy < MaxBusy /\ busy' = busy + 1 /\ UNCHANGED db

(* add_session: inserting a session twice raises before the commit. *)
AddSession(s, ok) ==
    /\ s \notin txn.sessions
    /\ Commit([txn EXCEPT !.sessions = @ \cup {s}], ok)
    /\ dropped' = dropped \ {s}
    /\ UNCHANGED <<reported, unsure, added>>

(* add_message: table, index and the session's time; it does not ask whether *)
(* the session exists.                                                       *)
Indexed(view, m) ==
    [view EXCEPT !.messages = @ \cup {m}, !.index = @ \cup {m}]
AddMessage(s, ok) ==
    LET m == <<s, added>>
    IN /\ added < MaxMessages
       /\ added' = added + 1
       /\ Commit(Indexed(txn, m), ok)
       /\ reported' = IF ok THEN reported \cup {m} ELSE reported
       /\ unsure' = IF ok THEN unsure ELSE unsure \cup {m}
       /\ UNCHANGED dropped

OfSession(s, rows) == {m \in rows : m[1] = s}

(* Wrong: the index keeps the messages of a session that was deleted. *)
PurgeNoIndex(view, s) ==
    [view EXCEPT !.sessions = @ \ {s}, !.messages = @ \ OfSession(s, @)]

(* delete_session: the messages, the index and the session. *)
Purged(view, s) ==
    [sessions |-> view.sessions \ {s},
     messages |-> view.messages \ OfSession(s, view.messages),
     index |-> view.index \ OfSession(s, view.index)]
DeleteSession(s, ok) ==
    /\ Purged(txn, s) # txn
    /\ Commit(Purged(txn, s), ok)
    /\ reported' = reported \ OfSession(s, reported)
    /\ unsure' = IF ok THEN unsure ELSE unsure \cup OfSession(s, reported)
    /\ dropped' = IF ok THEN dropped \cup {s} ELSE dropped
    /\ UNCHANGED added

(* The process ends or close() is called: an open transaction is rolled back. *)
CloseSearch ==
    /\ txn # db
    /\ txn' = db
    /\ UNCHANGED <<db, reported, unsure, dropped, added, busy>>

(* search: the index joined with the sessions that exist. *)
Found == {m \in txn.index : m[1] \in txn.sessions}

ChatNext ==
    /\ \/ \E s \in ChatSessions, ok \in BOOLEAN :
            AddSession(s, ok) \/ AddMessage(s, ok) \/ DeleteSession(s, ok)
       \/ CloseSearch
    /\ UNCHANGED <<factVars, projectVars, factOps, conflictVars>>

-----------------------------------------------------------------------------
(* Conflicts.  Memories of one subject share most of their words, more than  *)
(* five; a memory is compared with those before it, in their order, and the  *)
(* first conflict is recorded and returned.                                  *)

NoConflict == [new |-> 0, old |-> 0, type |-> "none", sure |-> FALSE]
ClaimPrefixes == {c.prefix : c \in Claims}

(* a uses a negation word that b does not; b may use another one. *)
IsContradiction(a, b) == a.subject = b.subject /\ a.negates \ b.negates # {}
IsSameTopic(a, b) == a.subject = b.subject

(* The conflict of a new memory with the i-th one. *)
ConflictWith(m, i) ==
    LET old == claims[i]
    IN IF IsContradiction(m.claim, old.claim)
       THEN [new |-> Len(claims) + 1, old |-> i, type |-> "contradictory",
             sure |-> m.claim.sure /\ old.claim.sure]
       ELSE IF IsSameTopic(m.claim, old.claim) /\ old.at > m.at
       THEN [new |-> Len(claims) + 1, old |-> i, type |-> "outdated", sure |-> FALSE]
       ELSE NoConflict

FirstConflict(m) ==
    LET hits == {i \in DOMAIN claims : ConflictWith(m, i) # NoConflict}
    IN IF hits = {} THEN NoConflict
       ELSE ConflictWith(m, CHOOSE i \in hits : \A j \in hits : i <= j)

(* detect; conflict_id is made of the first eight characters of both ids. *)
Detect(claim, at) ==
    LET m == [claim |-> claim, at |-> at]
        found == FirstConflict(m)
        id == IF found = NoConflict THEN <<>> ELSE <<claim.prefix, claims[found.old].claim.prefix>>
    IN /\ Len(claims) < MaxClaims
       /\ claims' = Append(claims, m)
       /\ IF found = NoConflict THEN UNCHANGED <<conflicts, collided, detected>>
          ELSE /\ conflicts' = [conflicts EXCEPT ![id] = found]
               /\ collided' = (collided \/ conflicts[id] # NoConflict)
               /\ detected' = detected \cup {found}
       /\ UNCHANGED verdicts

(* resolve: winner_id is memory_a, the new one, whatever the type. *)
Winner(c) == c.new
Resolve(c) ==
    LET action == IF c.type = "outdated" THEN "prefer_newer"
                  ELSE IF c.sure THEN "prefer_validated" ELSE "request_review"
    IN /\ verdicts' = verdicts \cup
            {[conflict |-> c, action |-> action,
              winner |-> IF action = "request_review" THEN 0 ELSE Winner(c)]}
       /\ UNCHANGED <<claims, conflicts, collided, detected>>

ConflictNext ==
    /\ \/ \E claim \in Claims, at \in 1..MaxClaims : Detect(claim, at)
       \/ \E id \in DOMAIN conflicts : conflicts[id] # NoConflict /\ Resolve(conflicts[id])
    /\ UNCHANGED <<factVars, projectVars, factOps, chatVars>>

-----------------------------------------------------------------------------
StoresInit ==
    /\ facts = [f \in FactIds |-> -1] /\ returned = [f \in FactIds |-> 0]
    /\ reading = [u \in StoreUsers |-> "none"] /\ resets = {}
    /\ copies = [u \in StoreUsers |-> [f \in FactIds |-> -1]]
    /\ project = NoProject /\ contexts = [u \in StoreUsers |-> NoProject]
    /\ creating = {} /\ increments = 0 /\ overwrites = 0 /\ factOps = 0
    /\ db = Empty /\ txn = Empty
    /\ reported = {} /\ unsure = {} /\ dropped = {} /\ added = 0 /\ busy = 0
    /\ claims = <<>> /\ conflicts = [id \in ClaimPrefixes \X ClaimPrefixes |-> NoConflict]
    /\ collided = FALSE /\ detected = {} /\ verdicts = {}

StoresNext == FactNext \/ ProjectNext \/ ChatNext \/ ConflictNext

StoresTypeOK ==
    /\ facts \in [FactIds -> Nat \cup {-1}] /\ returned \in [FactIds -> Nat]
    /\ reading \in [StoreUsers -> FactIds \cup {"none"}]
    /\ copies \in [StoreUsers -> [FactIds -> Nat \cup {-1}]]
    /\ project \in [sessions : Nat \cup {-1}, tag : Nat]
    /\ contexts \in [StoreUsers -> [sessions : Nat \cup {-1}, tag : Nat]]
    /\ creating \subseteq StoreUsers
    /\ \A view \in {db, txn} :
         /\ view.sessions \subseteq ChatSessions
         /\ \A m \in view.messages \cup view.index : m[1] \in ChatSessions
    /\ factOps \in 0..MaxFactOps /\ added \in 0..MaxMessages /\ busy \in 0..MaxBusy
    /\ Len(claims) <= MaxClaims /\ \A i \in DOMAIN claims : claims[i].claim \in Claims

(* A fact's access_count is the number of gets that returned it, unless it was
   stored again from a copy or a get raced with a delete: concurrent gets are
   both counted, since the increment is made in the UPDATE
   (memory/semantic_store.py get). *)
AccessesAreCounted ==
    \A f \in FactIds \ resets : facts[f] # -1 => facts[f] = returned[f]

(* The session count of a project is the number of increments since it was
   created, unless someone saved a context over a row it had not loaded
   (memory/project_store.py). *)
SessionsAreCounted ==
    (project # NoProject /\ overwrites = 0) => project.sessions = increments

(* Table and index hold the same messages, committed or not; a message that was
   reported stays until a delete of its session was asked for, also over a
   refused commit and a restart; and a deleted session is found no more -
   although one added to a session that does not exist is kept, hidden from
   search until the session is made
   (memory/session_search.py). *)
IndexFollowsTable ==
    /\ db.messages = db.index /\ txn.messages = txn.index
    /\ reported \subseteq db.messages
    /\ \A m \in db.messages : m \in reported \cup unsure
    /\ \A m \in Found : m[1] \notin dropped

(* A later memory that differs from an earlier one of its subject by a negation
   word, or is older than it, is not overlooked: it is in conflict with that one
   or with one compared before, and with nothing else.  So a denial that comes
   first is not noticed, and two denials in different words are a conflict.  A
   conflict stays on record unless the eight characters of its ids collide with
   another's, and what is preferred as validated is sure, and so is what it
   contradicts (memory/conflict.py detect, resolve). *)
Differs(new, old) == \E word \in new.claim.negates : word \notin old.claim.negates
ConflictsAreJudged ==
    /\ \A j \in DOMAIN claims : \A i \in 1..(j - 1) :
         /\ claims[i].claim.subject = claims[j].claim.subject
         /\ Differs(claims[j], claims[i]) \/ claims[j].at < claims[i].at
         => \E c \in detected : c.new = j /\ c.old <= i
    /\ \A c \in detected :
         /\ c.old < c.new /\ claims[c.old].claim.subject = claims[c.new].claim.subject
         /\ IF c.type = "contradictory" THEN Differs(claims[c.new], claims[c.old])
            ELSE claims[c.new].at < claims[c.old].at
    /\ ~collided => \A c \in detected : \E id \in DOMAIN conflicts : conflicts[id] = c
    /\ \A v \in verdicts :
         /\ v.conflict \in detected
         /\ v.action = "prefer_validated" =>
              claims[v.winner].claim.sure /\ claims[v.conflict.old].claim.sure
=============================================================================
