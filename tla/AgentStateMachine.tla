------------------------- MODULE AgentStateMachine -------------------------
(***************************************************************************)
(* core/state.py: the explicit state machine of one agent run, and the     *)
(* state file that lets a later process take the run up again.             *)
(*                                                                         *)
(* The machine lives in memory (state, history) and rewrites its whole     *)
(* state file after every transition (disk).  The write is neither atomic  *)
(* nor checked: it may do nothing, or leave a file that cannot be parsed.  *)
(* While the process is down (up = FALSE), state and history keep the      *)
(* values the dead process last had; nothing reads them any more.          *)
(***************************************************************************)
EXTENDS Integers, Sequences, SequencesExt

CONSTANT MaxHistory      \* bound: transitions recorded in one run

ASSUME MaxHistoryAssumption == MaxHistory \in Nat

VARIABLES
    state,      \* AgentStateMachine._state
    history,    \* AgentStateMachine._history
    disk,       \* the content of ~/.rann_agent/state/<run_id>.json
    up          \* the process that owns the machine is alive

machineVars == <<state, history, disk, up>>

TERMINAL_STATES ==
    {"completed", "failed", "cancelled", "timed_out", "blocked", "rolled_back"}

LIVE_STATES ==
    {"queued", "analyzing", "context_ready", "planning", "waiting_policy",
     "executing", "verifying", "recovering", "acceptance_check", "learning"}

AgentState == LIVE_STATES \cup TERMINAL_STATES

\* The successors of each state; a terminal state has none.
VALID_TRANSITIONS ==
    [s \in AgentState |->
        CASE s = "queued"           -> {"analyzing"}
          [] s = "analyzing"        -> {"context_ready", "blocked", "failed", "completed"}
          [] s = "context_ready"    -> {"planning", "blocked", "failed"}
          [] s = "planning"         -> {"waiting_policy", "executing", "failed"}
          [] s = "waiting_policy"   -> {"executing", "blocked", "failed"}
          [] s = "executing"        -> {"verifying", "recovering", "failed", "timed_out"}
          [] s = "verifying"        -> {"acceptance_check", "recovering", "executing", "failed"}
          [] s = "recovering"       -> {"executing", "analyzing", "failed", "rolled_back"}
          [] s = "acceptance_check" -> {"completed", "learning", "executing", "failed"}
          [] s = "learning"         -> {"planning", "completed", "failed"}
          [] OTHER                  -> {}]

\* StateTransitionRecord; the timestamp, the reason and the metadata are left out.
TransitionRecord == [from : AgentState, to : AgentState]

\* PersistedState, or no file, or a file json.loads refuses.
PersistedState ==
    [kind : {"absent", "torn", "saved"}, state : AgentState, history : Seq(TransitionRecord)]

NoFile   == [kind |-> "absent", state |-> "queued", history |-> <<>>]
TornFile == [kind |-> "torn", state |-> "queued", history |-> <<>>]

\* Wrong: LEARNING forgets its way to FAILED.
CannotFailWhileLearning(target) ==
    target \in VALID_TRANSITIONS[state] /\ ~(state = "learning" /\ target = "failed")

can_transition_to(target) == target \in VALID_TRANSITIONS[state]

\* _persist swallows every exception: the file is rewritten, or it keeps its
\* old content, or write_text has truncated it and got no further.
Persist(s, h) ==
    disk' \in {[kind |-> "saved", state |-> s, history |-> h], disk, TornFile}

\* transition(target) when it does not raise StateTransitionError.
Transition(target) ==
    /\ can_transition_to(target)
    /\ Len(history) < MaxHistory
    /\ state' = target
    /\ history' = Append(history, [from |-> state, to |-> target])
    /\ Persist(target, history')

\* Wrong: only the state is restored, the history starts afresh.
LoadStateOnly ==
    IF disk.kind = "saved"
    THEN state' = disk.state /\ history' = <<>>
    ELSE state' = "queued" /\ history' = <<>>

\* AgentStateMachine(run_id) followed by load() in a new process: a missing
\* or unreadable file leaves the machine as it was constructed, queued.
Load ==
    IF disk.kind = "saved"
    THEN state' = disk.state /\ history' = disk.history
    ELSE state' = "queued" /\ history' = <<>>

\* clear_persistence(); its own failure is swallowed too.
ClearPersistence ==
    /\ up
    /\ disk' \in {NoFile, disk}
    /\ UNCHANGED <<state, history, up>>

\* AgentStateMachine(run_id) of a new run.
MachineInit ==
    /\ state = "queued"
    /\ history = <<>>
    /\ disk = NoFile
    /\ up = TRUE

\* The process dies between two steps, or during the write the last step began.
Crash ==
    /\ up
    /\ up' = FALSE
    /\ UNCHANGED <<state, history, disk>>

Resume ==
    /\ ~up
    /\ up' = TRUE
    /\ Load
    /\ UNCHANGED disk

-----------------------------------------------------------------------------
\* Type invariant of the machine and of its file.
MachineTypeOK ==
    /\ state \in AgentState
    /\ history \in Seq(TransitionRecord)
    /\ disk \in PersistedState
    /\ up \in BOOLEAN

\* h is a path of VALID_TRANSITIONS that starts queued and ends in s.
LegalPath(h, s) ==
    /\ h = <<>> => s = "queued"
    /\ h # <<>> => h[1].from = "queued" /\ h[Len(h)].to = s
    /\ \A i \in 1..Len(h) : h[i].to \in VALID_TRANSITIONS[h[i].from]
    /\ \A i \in 1..Len(h) : i > 1 => h[i - 1].to = h[i].from

\* The history a run reports is a legal path from queued to its current
\* state, in memory as well as in the file, however often the process died,
\* the write failed and the run was loaded again ("Every state transition is
\* validated and logged").
HistoryIsLegal ==
    /\ LegalPath(history, state)
    /\ disk.kind = "saved" => LegalPath(disk.history, disk.state)

\* A terminal state is final: no history, in memory or in the file, goes on
\* after one ("Terminal states that cannot transition further").
TerminalIsLast ==
    \A i \in 1..Len(history) : history[i].to \in TERMINAL_STATES => i = Len(history)

\* The file never knows more than the process that wrote it did.
DiskIsBehind == disk.kind = "saved" => IsPrefix(disk.history, history)

\* A process that takes a run up again continues from a point the run really
\* went through: it may have forgotten transitions, it never has other ones.
ResumeForgetsOnly == [][~up /\ up' => IsPrefix(history', history)]_machineVars

=============================================================================
