---------------------------------- MODULE Storage ----------------------------
(***************************************************************************)
(* The storage of the agent (storage/): its file locks, its pool of        *)
(* connections, and the start after a crash. The three parts have no state *)
(* in common.                                                              *)
(***************************************************************************)
EXTENDS Integers, Sequences, FiniteSets

-----------------------------------------------------------------------------
(***************************************************************************)
(* Locks of workspaces, repositories and files (storage/locks.py): flock   *)
(* on a file per resource, taken by with blocks and decorators, tested by  *)
(* is_locked.  Every FileLock opens the file anew, so a process excludes   *)
(* itself too, and what it opened and dropped stays locked until it ends.  *)
(***************************************************************************)

CONSTANTS
    LockUsers,      \* processes
    LockPaths,      \* lock files, numbered in the order careful callers use
    MaxNesting      \* bound: with blocks a process has open

ASSUME LockAssumption == LockPaths \subseteq Nat \ {0} /\ MaxNesting \in Nat

VARIABLES
    kernel,     \* who has the flock of each path, and by what
    blocks,     \* the with blocks each process is in, innermost last
    blocked     \* the path each process waits for in flock, 0 for none

lockVars == <<kernel, blocks, blocked>>

Unlocked == [by |-> "nobody", how |-> "free"]
Owned(u, how) == [by |-> u, how |-> how]

LockTypeOK ==
    /\ kernel \in [LockPaths -> {Unlocked} \cup
                    [by : LockUsers, how : {"block", "probe"}]]
    /\ \A u \in LockUsers : blocks[u] \in Seq(LockPaths) /\ Len(blocks[u]) <= MaxNesting
    /\ blocked \in [LockUsers -> LockPaths \cup {0}]

LocksInit ==
    /\ kernel = [p \in LockPaths |-> Unlocked]
    /\ blocks = [u \in LockUsers |-> <<>>]
    /\ blocked = [u \in LockUsers |-> 0]

(* flock has returned 0. *)
Take(u, p) ==
    /\ kernel' = [kernel EXCEPT ![p] = Owned(u, "block")]
    /\ blocks' = [blocks EXCEPT ![u] = Append(@, p)]

(* hold, repo_lock, file_lock, with_lock: acquire(), which blocks in flock
   whatever the timeout says. *)
EnterBlock(u, p) ==
    /\ blocked[u] = 0
    /\ Len(blocks[u]) < MaxNesting
    /\ IF kernel[p] = Unlocked
       THEN Take(u, p) /\ UNCHANGED blocked
       ELSE blocked' = [blocked EXCEPT ![u] = p] /\ UNCHANGED <<kernel, blocks>>

Granted(u) ==
    /\ blocked[u] # 0
    /\ kernel[blocked[u]] = Unlocked
    /\ Take(u, blocked[u])
    /\ blocked' = [blocked EXCEPT ![u] = 0]

(* acquire(blocking=False) of a caller that will release; a refusal changes
   nothing but leaves a descriptor open. *)
TryEnter(u, p) ==
    /\ blocked[u] = 0
    /\ Len(blocks[u]) < MaxNesting
    /\ kernel[p] = Unlocked
    /\ Take(u, p)
    /\ UNCHANGED blocked

(* The body returns or raises: release() in the finally clause or __exit__. *)
LeaveBlock(u) ==
    /\ blocked[u] = 0
    /\ blocks[u] # <<>>
    /\ kernel' = [kernel EXCEPT ![blocks[u][Len(blocks[u])]] = Unlocked]
    /\ blocks' = [blocks EXCEPT ![u] = SubSeq(@, 1, Len(@) - 1)]
    /\ UNCHANGED blocked

(* is_locked: a lock that was free now belongs to a FileLock nobody has. *)
Probe(u, p) ==
    /\ blocked[u] = 0
    /\ kernel[p] = Unlocked
    /\ kernel' = [kernel EXCEPT ![p] = Owned(u, "probe")]
    /\ UNCHANGED <<blocks, blocked>>

(* The process ends and its descriptors with it. *)
ProcessEnds(u) ==
    /\ kernel' = [p \in LockPaths |-> IF kernel[p].by = u THEN Unlocked ELSE kernel[p]]
    /\ blocks' = [blocks EXCEPT ![u] = <<>>]
    /\ blocked' = [blocked EXCEPT ![u] = 0]

LocksNext == \E u \in LockUsers :
    \/ \E p \in LockPaths : EnterBlock(u, p) \/ TryEnter(u, p) \/ Probe(u, p)
    \/ Granted(u) \/ LeaveBlock(u) \/ ProcessEnds(u)

-----------------------------------------------------------------------------
(* Properties.                                                             *)

(* A path that is locked is locked by an open with block or by a probe, and a
   path has one open block at most. *)
LocksHaveBlocks ==
    /\ \A p \in LockPaths : kernel[p].how = "block" =>
          \E i \in DOMAIN blocks[kernel[p].by] : blocks[kernel[p].by][i] = p
    /\ \A u \in LockUsers : \A i \in DOMAIN blocks[u] :
          kernel[blocks[u][i]] = Owned(u, "block")

(* The process v waits for, and those u waits for over any number of steps:
   the least set that has u's and those of each of its members. *)
WaitsFor(v) == IF blocked[v] = 0 \/ kernel[blocked[v]] = Unlocked THEN {}
               ELSE {kernel[blocked[v]].by}
Closed(S) == \A v \in S : WaitsFor(v) \subseteq S
Blockers(u) == {w \in LockUsers :
    \A S \in SUBSET LockUsers : WaitsFor(u) \subseteq S /\ Closed(S) => w \in S}

(* Processes wait for each other in a circle only when one of them took a lock
   out of order, nested a lock in itself, or probed one that it then wanted. *)
DeadlocksAreEarned == \A u \in LockUsers : u \in Blockers(u) =>
    \E v \in Blockers(u) \cup {u} :
        \/ \E i \in DOMAIN blocks[v] : blocks[v][i] >= blocked[v]
        \/ \E p \in LockPaths : kernel[p] = Owned(v, "probe")

-----------------------------------------------------------------------------
(***************************************************************************)
(* The pool of SQLite connections (storage/pool.py).  Threads initialise   *)
(* the pool, take a connection, use it in a with block and put it back;    *)
(* a failed body gets its connection replaced, a dead connection is        *)
(* replaced when it is met, and close_all may run at any moment.           *)
(***************************************************************************)

CONSTANTS
    PoolUsers,      \* threads
    PoolSize,       \* pool_size
    MaxConnections  \* bound: connections ever created

ASSUME PoolAssumption == PoolSize \in Nat \ {0} /\ MaxConnections \in Nat

VARIABLES
    idle,           \* the queue of connections
    lent,           \* the connection of each thread's with block, 0 for none
    asking,         \* threads that wait in the queue's get
    initialized,
    created,        \* connections created so far; they are numbered
    closedConns,    \* connections that are closed
    closing,        \* close_all has drained the queue
    disturbed       \* history: close_all ran, or a creation failed

poolVars == <<idle, lent, asking, initialized, created, closedConns, closing, disturbed>>

Connections == 1..MaxConnections

PoolTypeOK ==
    /\ idle \in Seq(Connections) /\ Len(idle) <= PoolSize
    /\ lent \in [PoolUsers -> Connections \cup {0}]
    /\ asking \subseteq PoolUsers
    /\ initialized \in BOOLEAN /\ closing \in BOOLEAN /\ disturbed \in BOOLEAN
    /\ created \in 0..MaxConnections
    /\ closedConns \subseteq Connections

PoolInit ==
    /\ idle = <<>>
    /\ lent = [u \in PoolUsers |-> 0]
    /\ asking = {}
    /\ initialized = FALSE
    /\ created = 0
    /\ closedConns = {}
    /\ closing = FALSE
    /\ disturbed = FALSE

(* put_nowait: a full queue raises queue.Full and the connection is lost. *)
PutBack(queue, c) == IF Len(queue) < PoolSize THEN Append(queue, c) ELSE queue

(* _initialize, under its lock: each of the pool_size creations may fail, and
   what does not fit in the queue is lost. *)
Initialize(u) ==
    /\ u \notin asking /\ lent[u] = 0
    /\ asking' = asking \cup {u}
    /\ IF initialized
       THEN UNCHANGED <<idle, initialized, created, disturbed>>
       ELSE \E n \in 0..PoolSize :
              /\ created + n <= MaxConnections
              /\ created' = created + n
              /\ idle' = SubSeq(idle \o [i \in 1..n |-> created + i], 1,
                               IF Len(idle) + n < PoolSize THEN Len(idle) + n ELSE PoolSize)
              /\ initialized' = TRUE
              /\ disturbed' = (disturbed \/ n < PoolSize)
    /\ UNCHANGED <<lent, closedConns, closing>>

(* Wrong: the replacement is created but not put into the queue. *)
ReplacedOnly(queue, c) ==
    /\ created < MaxConnections
    /\ created' = created + 1
    /\ idle' = queue
    /\ UNCHANGED disturbed

(* The except clause closes c and creates another; the finally clause puts
   back the new one, or c itself when the creation raised. *)
Replaced(queue, c) ==
    \/ /\ created < MaxConnections
       /\ created' = created + 1
       /\ idle' = PutBack(queue, created + 1)
       /\ UNCHANGED disturbed
    \/ /\ idle' = PutBack(queue, c)
       /\ disturbed' = TRUE
       /\ UNCHANGED created

(* get() returns; the liveness check of a closed connection raises, and
   nothing is yielded. *)
TakeConnection(u) ==
    /\ u \in asking /\ idle # <<>>
    /\ asking' = asking \ {u}
    /\ IF Head(idle) \notin closedConns
       THEN /\ lent' = [lent EXCEPT ![u] = Head(idle)]
            /\ idle' = Tail(idle)
            /\ UNCHANGED <<created, disturbed>>
       ELSE Replaced(Tail(idle), Head(idle)) /\ UNCHANGED lent
    /\ UNCHANGED <<initialized, closedConns, closing>>

(* get() raises queue.Empty after its 30 seconds. *)
GetTimesOut(u) ==
    /\ u \in asking /\ idle = <<>>
    /\ asking' = asking \ {u}
    /\ UNCHANGED <<idle, lent, initialized, created, closedConns, closing, disturbed>>

(* The body ends normally, or by a BaseException the except clause lets pass. *)
BodyEnds(u) ==
    /\ lent[u] # 0
    /\ idle' = PutBack(idle, lent[u])
    /\ lent' = [lent EXCEPT ![u] = 0]
    /\ UNCHANGED <<asking, initialized, created, closedConns, closing, disturbed>>

(* The body raises an Exception, which the with block swallows. *)
BodyFails(u) ==
    /\ lent[u] # 0
    /\ closedConns' = closedConns \cup {lent[u]}
    /\ lent' = [lent EXCEPT ![u] = 0]
    /\ Replaced(idle, lent[u])
    /\ UNCHANGED <<asking, initialized, closing>>

(* close_all drains the queue, then clears the flag. *)
Drain ==
    /\ ~closing
    /\ closing' = TRUE
    /\ closedConns' = closedConns \cup {idle[i] : i \in DOMAIN idle}
    /\ idle' = <<>>
    /\ disturbed' = TRUE
    /\ UNCHANGED <<lent, asking, initialized, created>>

ClearFlag ==
    /\ closing
    /\ closing' = FALSE
    /\ initialized' = FALSE
    /\ UNCHANGED <<idle, lent, asking, created, closedConns, disturbed>>

PoolNext ==
    \/ Drain \/ ClearFlag
    \/ \E u \in PoolUsers :
          Initialize(u) \/ TakeConnection(u) \/ GetTimesOut(u) \/ BodyEnds(u) \/ BodyFails(u)

-----------------------------------------------------------------------------
(* Properties.                                                             *)

Lent == {u \in PoolUsers : lent[u] # 0}

(* Whatever threads do and whichever bodies fail: a body never works on a
   closed connection or on another body's, not even when close_all overtakes
   it; and unless close_all ran or a connection could not be created, no
   connection is ever lost. *)
PoolIsWhole ==
    /\ \A u \in Lent : lent[u] \notin closedConns
    /\ \A u, v \in Lent : u # v => lent[u] # lent[v]
    /\ \A u \in Lent : \A i \in DOMAIN idle : idle[i] # lent[u]
    /\ initialized /\ ~disturbed => Len(idle) + Cardinality(Lent) = PoolSize

-----------------------------------------------------------------------------
(***************************************************************************)
(* What a start after a crash does: the singleton Database brings the      *)
(* schema up to date (storage/database.py), and CrashRecovery advises on   *)
(* the run that was interrupted (storage/recovery.py).  A storage object   *)
(* with the queries recovery asks for is external: Database has none of    *)
(* them.  Paths, contracts, timestamps and reasons are left out.           *)
(***************************************************************************)

CONSTANTS
    Openers,        \* processes that open the database
    Tables,         \* its tables 1..n in the order of the script
    SessionsTable,  \* the one whose columns were added later
    NewColumns,     \* csrf_token_hash and last_seen_at, numbered 1 and 2
    MaxCalls,       \* bound: tool calls of a run
    MaxFailures     \* bound: statements that fail

ASSUME StorageAssumption ==
    /\ SessionsTable \in Tables /\ IsFiniteSet(Tables) /\ IsFiniteSet(NewColumns)
    /\ Tables = 1..Cardinality(Tables)
    /\ NewColumns = 1..Cardinality(NewColumns)
    /\ MaxCalls \in Nat /\ MaxFailures \in Nat

VARIABLES
    tables,     \* the tables on the disk
    columns,    \* the new columns the sessions table has
    object,     \* each process's Database._instance
    at,         \* the statement each process is about to execute
    lapses,     \* history: statements that failed
    overlooked, \* history: a busy database was taken for an existing column
    calls,      \* recorded tool calls of the run: what they were, how they ended
    process,    \* the process of the run
    advice      \* what reconcile() said at the latest start

storageVars == <<tables, columns, object, at, lapses, overlooked, calls, process, advice>>

LastCall(s) == s[Len(s)]
TableCount == Cardinality(Tables)
ColumnCount == Cardinality(NewColumns)

Call == [kind : {"reads", "changes"}, success : {"yes", "no", "unknown"}]
Advice == {"none", "resume", "rollback", "block"}

StorageTypeOK ==
    /\ tables \subseteq Tables /\ columns \subseteq NewColumns
    /\ object \in [Openers -> {"absent", "building", "raised", "ready"}]
    /\ at \in [Openers -> 1..(TableCount + ColumnCount + 1)]
    /\ lapses \in 0..MaxFailures /\ overlooked \in BOOLEAN
    /\ calls \in Seq(Call) /\ Len(calls) <= MaxCalls
    /\ process \in {"running", "ended", "crashed", "resumed", "rolled back"}
    /\ advice \in Advice

(* A database that is new, or one an older version has made. *)
StorageInit ==
    /\ \/ tables = {} /\ columns = {}
       \/ tables = Tables /\ columns \in SUBSET NewColumns
    /\ object = [o \in Openers |-> "absent"]
    /\ at = [o \in Openers |-> 1]
    /\ lapses = 0
    /\ overlooked = FALSE
    /\ calls = <<>>
    /\ process = "running"
    /\ advice = "none"

(* __new__ and the first lines of __init__, which mark the object initialised
   before there is a schema; a second construction returns at once. *)
Construct(o) ==
    /\ object[o] \in {"absent", "raised"}
    /\ object' = [object EXCEPT ![o] = IF @ = "absent" THEN "building" ELSE "ready"]
    /\ UNCHANGED <<tables, columns, at, lapses, overlooked, calls, process, advice>>

(* CREATE TABLE IF NOT EXISTS. *)
CreateTable(o) ==
    /\ tables' = tables \cup {at[o]}
    /\ columns' = IF at[o] = SessionsTable /\ at[o] \notin tables THEN NewColumns ELSE columns
    /\ at' = [at EXCEPT ![o] = @ + 1]
    /\ UNCHANGED <<object, lapses, overlooked>>

(* ALTER TABLE ADD COLUMN: any OperationalError counts as "already exists". *)
AddColumn(o) ==
    LET c == at[o] - TableCount
    IN  /\ at' = [at EXCEPT ![o] = @ + 1]
        /\ \/ columns' = columns \cup {c} /\ UNCHANGED <<lapses, overlooked>>
           \/ /\ lapses < MaxFailures /\ lapses' = lapses + 1
              /\ overlooked' = (overlooked \/ c \notin columns)
              /\ UNCHANGED columns
        /\ UNCHANGED <<tables, object>>

(* A statement of the script raises, for want of the lock or of space. *)
ScriptRaises(o) ==
    /\ lapses < MaxFailures
    /\ lapses' = lapses + 1
    /\ object' = [object EXCEPT ![o] = "raised"]
    /\ at' = [at EXCEPT ![o] = 1]
    /\ UNCHANGED <<tables, columns, overlooked>>

EnsureSchema(o) ==
    /\ object[o] = "building"
    /\ CASE at[o] <= TableCount -> CreateTable(o) \/ ScriptRaises(o)
         [] at[o] \in TableCount + 1 .. TableCount + ColumnCount -> AddColumn(o)
         [] OTHER -> /\ object' = [object EXCEPT ![o] = "ready"]
                     /\ UNCHANGED <<tables, columns, at, lapses, overlooked>>
    /\ UNCHANGED <<calls, process, advice>>

(* The process dies between two statements and starts again. *)
OpenerDies(o) ==
    /\ object[o] = "building"
    /\ object' = [object EXCEPT ![o] = "absent"]
    /\ at' = [at EXCEPT ![o] = 1]
    /\ UNCHANGED <<tables, columns, lapses, overlooked, calls, process, advice>>

-----------------------------------------------------------------------------
(* The run.                                                                *)

runVars == <<tables, columns, object, at, lapses, overlooked>>

InFlight == IF calls = <<>> THEN FALSE ELSE LastCall(calls).success = "unknown"

RecordCall(kind) ==
    /\ process \in {"running", "resumed"}
    /\ Len(calls) < MaxCalls
    /\ InFlight => process = "resumed"
    /\ calls' = Append(calls, [kind |-> kind, success |-> "unknown"])
    /\ process' = "running"
    /\ UNCHANGED <<runVars, advice>>

RecordResult(s) ==
    /\ process = "running" /\ InFlight
    /\ calls' = [calls EXCEPT ![Len(calls)].success = s]
    /\ UNCHANGED <<runVars, process, advice>>

RunEnds ==
    /\ process = "running" /\ process' = "ended"
    /\ UNCHANGED <<runVars, calls, advice>>

RunCrashes ==
    /\ process \in {"running", "resumed"} /\ process' = "crashed"
    /\ advice' = "none"
    /\ UNCHANGED <<runVars, calls>>

(* reconcile(): from the last call alone, whose result may be missing. *)
Reconcile ==
    IF calls = <<>> THEN "resume"
    ELSE IF LastCall(calls).success = "yes" \/ LastCall(calls).kind = "reads"
         THEN "resume" ELSE "rollback"

(* on_startup() lists the run; resume() asks reconcile() itself; rollback()
   marks the run, whatever the advice was. *)
OnStartup ==
    /\ process = "crashed"
    /\ advice' \in {Reconcile, "block"}
    /\ UNCHANGED <<runVars, calls, process>>

ResumeRun ==
    /\ process = "crashed" /\ Reconcile = "resume"
    /\ process' = "resumed"
    /\ UNCHANGED <<runVars, calls, advice>>

RollBackRun ==
    /\ process = "crashed"
    /\ process' = "rolled back"
    /\ UNCHANGED <<runVars, calls, advice>>

SchemaNext == \E o \in Openers : Construct(o) \/ EnsureSchema(o) \/ OpenerDies(o)

RecoveryNext ==
    \/ \E k \in {"reads", "changes"} : RecordCall(k)
    \/ \E s \in {"yes", "no"} : RecordResult(s)
    \/ RunEnds \/ RunCrashes \/ OnStartup \/ ResumeRun \/ RollBackRun

-----------------------------------------------------------------------------
(* Properties.                                                             *)

(* Processes that die between statements, and others that build the schema at
   the same time, leave nothing out: an object that was built without an error
   sees every table, and every column unless a busy database was mistaken. *)
SchemaIsComplete == \A o \in Openers :
    object[o] = "ready" /\ at[o] > TableCount =>
        tables = Tables /\ (columns = NewColumns \/ overlooked)

(* A run goes on after a crash only where nothing it was changing was cut
   short, and every change that was cut short is the last call when it is. *)
NothingHalfDone ==
    /\ \A i \in DOMAIN calls : calls[i] = [kind |-> "changes", success |-> "unknown"]
          => i = Len(calls) /\ process # "resumed"
    /\ process = "resumed" /\ calls # <<>> =>
          LastCall(calls).kind = "reads" \/ LastCall(calls).success = "yes"

=============================================================================
