--------------------------- MODULE AgentLifecycle ---------------------------
(***************************************************************************)
(* core/lifecycle.py over core/state.py and core/events.py: one run of an  *)
(* agent as its callers see it.  run() is a context manager whose body is  *)
(* the caller's code; the body may call any public operation of the        *)
(* lifecycle, in any order, and may return, raise or be cancelled.         *)
(***************************************************************************)
EXTENDS AgentStateMachine

CONSTANT MaxStrategies   \* bound: recovery strategies passed to attempt_recovery

ASSUME StrategiesAssumption == MaxStrategies \in Nat

VARIABLES
    phase,        \* where run() is
    events,       \* EventEmitter._event_counts of the types below
    checkpoint,   \* AgentLifecycle._checkpoint_data is not empty
    loaded,       \* transitions the machine was loaded with
    unrecorded,   \* history: checkpoints that raised before their event
    strategies    \* recovery strategies attempt_recovery has still to try

lifecycleVars == <<phase, events, checkpoint, loaded, unrecorded, strategies>>

EventType == {"run_created", "run_started", "run_completed", "error_occurred",
              "state_changed", "checkpoint_created", "recovery_started"}

\* The ways out of run(): the body returned and the run was closed; the body
\* (or run() itself) raised and the handler failed the run; the handler's own
\* transition was refused; CancelledError passed the handler by.
Exits == {"completed", "failed", "escaped", "cancelled"}

NoEvents == [e \in EventType |-> 0]

\* emit(create_event(..)): create_event has emitted the event already, so
\* every call of the pair counts and stores it twice.
WithEvents(counts, types) ==
    [e \in EventType |-> IF e \in types THEN counts[e] + 2 ELSE counts[e]]

Emit(types) == events' = WithEvents(events, types)

LifecycleInit ==
    /\ MachineInit
    /\ phase = "new"
    /\ events = NoEvents
    /\ checkpoint = FALSE
    /\ loaded = 0
    /\ unrecorded = 0
    /\ strategies = 0

\* The except clause of run(): the run is failed and the error traced, unless
\* the transition to FAILED is itself refused; that error then escapes.
FailRun(created) ==
    \/ /\ can_transition_to("failed")
       /\ Transition("failed")
       /\ Emit(created \cup {"error_occurred"})
       /\ phase' = "failed"
    \/ /\ ~can_transition_to("failed")
       /\ Emit(created)
       /\ phase' = "escaped"
       /\ UNCHANGED <<state, history, disk>>

\* Entering run(): the machine may have been loaded in any state.
EnterRun ==
    /\ phase = "new"
    /\ \/ /\ can_transition_to("analyzing")
          /\ Transition("analyzing")
          /\ Emit({"run_created", "run_started"})
          /\ phase' = "body"
       \/ /\ ~can_transition_to("analyzing")
          /\ FailRun({"run_created"})
    /\ UNCHANGED <<checkpoint, loaded, unrecorded, strategies, up>>

\* The body returns: the run completes, unless the body has left the machine
\* in a state that cannot; the handler then deals with the refused transition.
BodyReturns ==
    /\ phase = "body"
    /\ \/ /\ can_transition_to("completed")
          /\ Transition("completed")
          /\ Emit({"run_completed"})
          /\ phase' = "completed"
       \/ /\ ~can_transition_to("completed")
          /\ FailRun({})
    /\ strategies' = 0
    /\ UNCHANGED <<checkpoint, loaded, unrecorded, up>>

BodyRaises ==
    /\ phase = "body"
    /\ FailRun({})
    /\ strategies' = 0
    /\ UNCHANGED <<checkpoint, loaded, unrecorded, up>>

\* CancelledError is no Exception: run() does nothing about it.
BodyCancelled ==
    /\ phase = "body"
    /\ phase' = "cancelled"
    /\ strategies' = 0
    /\ UNCHANGED <<state, history, disk, events, checkpoint, loaded, unrecorded, up>>

\* Wrong: the machine moves and the event is forgotten.
TransitionUntraced(target) ==
    /\ phase = "body"
    /\ Transition(target)
    /\ UNCHANGED <<events, phase, checkpoint, loaded, unrecorded, strategies, up>>

\* transition_to(target), when the machine accepts it.
TransitionTo(target) ==
    /\ phase = "body"
    /\ Transition(target)
    /\ Emit({"state_changed"})
    /\ UNCHANGED <<phase, checkpoint, loaded, unrecorded, strategies, up>>

\* Wrong: the way into RECOVERING is not recorded.
CheckpointUnrecorded ==
    /\ phase = "body"
    /\ can_transition_to("recovering")
    /\ Len(history) < MaxHistory
    /\ history' = Append(history, [from |-> "recovering", to |-> state])
    /\ disk' \in {[kind |-> "saved", state |-> state, history |-> history'], disk, TornFile}
    /\ checkpoint' = TRUE
    /\ Emit({"checkpoint_created"})
    /\ UNCHANGED <<state, phase, loaded, unrecorded, strategies, up>>

\* checkpoint(data): through RECOVERING and back to the state before it; when
\* there is no transition back, the error leaves the machine in RECOVERING.
CheckpointTaken ==
    /\ phase = "body"
    /\ can_transition_to("recovering")
    /\ LET entered == Append(history, [from |-> state, to |-> "recovering"])
           back    == state \in VALID_TRANSITIONS["recovering"] /\ Len(entered) >= 2
           closed  == Append(entered, [from |-> "recovering", to |-> state])
       IN  /\ Len(closed) <= MaxHistory
           /\ history' = IF back THEN closed ELSE entered
           /\ state' = IF back THEN state ELSE "recovering"
           /\ disk' \in {[kind |-> "saved", state |-> state', history |-> history'],
                         [kind |-> "saved", state |-> "recovering", history |-> entered],
                         disk, TornFile}
    /\ checkpoint' = TRUE
    /\ Emit({"checkpoint_created"})
    /\ UNCHANGED <<phase, loaded, unrecorded, strategies, up>>

\* From 80 % of the time or the cost budget get_status() raises KeyError (the
\* warnings look up data["used"], which those two entries lack): the machine
\* has entered RECOVERING, there is no checkpoint and no event, and the error
\* goes to the body.
CheckpointRaises ==
    /\ phase = "body"
    /\ Transition("recovering")
    /\ unrecorded' = unrecorded + 1
    /\ UNCHANGED <<events, phase, checkpoint, loaded, strategies, up>>

Checkpoint == CheckpointTaken \/ CheckpointRaises

\* attempt_recovery(error, n strategies): the strategies run one by one; each
\* is caller code that may use the lifecycle before it succeeds, declines or
\* raises.  Bound: one attempt_recovery in each process.
StartRecovery ==
    /\ phase = "body"
    /\ strategies = 0
    /\ strategies' \in 1..MaxStrategies
    /\ events["recovery_started"] = 0
    /\ Emit({"recovery_started"})
    /\ UNCHANGED <<machineVars, phase, checkpoint, loaded, unrecorded>>

StrategyEnds ==
    /\ phase = "body"
    /\ strategies > 0
    /\ \/ /\ strategies' = 0
          /\ Emit({"recovery_started"})
       \/ /\ strategies' = strategies - 1
          /\ UNCHANGED events
    /\ UNCHANGED <<machineVars, phase, checkpoint, loaded, unrecorded>>

LifecycleCrash ==
    /\ Crash
    /\ UNCHANGED lifecycleVars

\* A new process builds the lifecycle of the same run and loads its machine;
\* the checkpoint and the events were kept in memory only.
LifecycleResume ==
    /\ Resume
    /\ phase' = "new"
    /\ events' = NoEvents
    /\ checkpoint' = FALSE
    /\ loaded' = Len(history')
    /\ unrecorded' = 0
    /\ strategies' = 0

\* clear_persistence of a run that is over.
Forget ==
    /\ phase \in Exits
    /\ ClearPersistence
    /\ UNCHANGED lifecycleVars

\* can_resume_from_checkpoint()
can_resume_from_checkpoint == checkpoint /\ state = "queued"

LifecycleNext ==
    \/ up /\ EnterRun
    \/ up /\ BodyReturns
    \/ up /\ BodyRaises
    \/ up /\ BodyCancelled
    \/ up /\ \E target \in AgentState : TransitionTo(target)
    \/ up /\ Checkpoint
    \/ up /\ StartRecovery
    \/ up /\ StrategyEnds
    \/ Forget
    \/ LifecycleCrash
    \/ LifecycleResume

LifecycleSpec == LifecycleInit /\ [][LifecycleNext]_<<machineVars, lifecycleVars>>

-----------------------------------------------------------------------------
LifecycleTypeOK ==
    /\ MachineTypeOK
    /\ phase \in {"new", "body"} \cup Exits
    /\ events \in [EventType -> Nat]
    /\ checkpoint \in BOOLEAN
    /\ loaded \in Nat
    /\ unrecorded \in Nat
    /\ strategies \in 0..MaxStrategies

\* However the body misuses the machine, a run that leaves run() by a return
\* or an Exception is in a terminal state; only a cancellation leaves it live.
\* The handler relies on FAILED being reachable from every state a body can be in.
RunEndsTerminal ==
    phase \in {"completed", "failed", "escaped"} => state \in TERMINAL_STATES

\* RUN_COMPLETED and ERROR_OCCURRED tell the truth about the state the run
\* ended in, and no run has both.
OutcomeEventsAgree ==
    /\ events["run_completed"] > 0 <=> phase = "completed"
    /\ events["error_occurred"] > 0 <=> phase = "failed"
    /\ phase = "completed" => state = "completed"
    /\ phase = "failed" => state = "failed"

\* Whatever the body does, and whichever way it is left: the run is terminal
\* and its outcome event says how, unless it was cancelled.
RunEndsHonestly == RunEndsTerminal /\ OutcomeEventsAgree

\* The event trace accounts for the history.  Every transition since the
\* machine was loaded has its event, those of a checkpoint share one, and no
\* event tells of a transition that was not made.  One gap only: a checkpoint
\* that raised on the budget's status has moved the machine into RECOVERING
\* and left no event of it; the number of such gaps is exactly unrecorded.
TraceAccountsForHistory ==
    LET made  == 2 * (Len(history) - loaded - unrecorded)
        plain == events["run_started"] + events["run_completed"]
                 + events["error_occurred"] + events["state_changed"]
    IN  /\ plain + events["checkpoint_created"] <= made
        /\ made <= plain + 2 * events["checkpoint_created"]

=============================================================================
