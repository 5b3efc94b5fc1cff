---------------------------- MODULE RuntimeAgent ----------------------------
(***************************************************************************)
(* core/runtime.py: RuntimeAgent.execute, one step per await, over its own *)
(* AgentLifecycle, with the budget of core/budget.py, the retries of       *)
(* core/llm_provider.py and the verdict of core/verification.py.  The      *)
(* agent may be asked to execute again when a run is over; its turn limit  *)
(* and its mirrored state survive from one run to the next.                *)
(***************************************************************************)
EXTENDS AgentLifecycle, RunChecks

CONSTANTS
    Usage,          \* tokens one model call may be recorded with
    MaxAttempts,    \* config.agent.llm.retry["max_attempts"]
    Fallbacks,      \* number of fallback providers
    MaxCalls,       \* bound: tool calls in one response
    MaxDelay,       \* bound: ticks that pass in one await
    TurnLimits,     \* values of max_turns, the configured one and the callers'
    Levels,         \* verification levels the agent may be built with
    MaxRuns         \* bound: calls of execute on the agent

ASSUME RuntimeAssumption ==
    /\ Usage \subseteq Nat
    /\ MaxAttempts \in Nat \ {0}
    /\ Fallbacks \in Nat
    /\ MaxCalls \in Nat \ {0}
    /\ MaxDelay \in Nat
    /\ TurnLimits \subseteq Nat \ {0}
    /\ Levels \subseteq VerificationLevel
    /\ MaxRuns \in Nat
    /\ MaxHistory >= 2

VARIABLES
    pc,         \* where execute is suspended
    level,      \* the agent's verification level
    memory,     \* the agent was built with memory
    max_turns,  \* _budget_engine.budget.max_turns, shared with the lifecycle
    tracker,    \* lifecycle.budget_engine.tracker
    turn,       \* the local turn counter of _execute_loop
    attempt,    \* provider calls made by complete_with_retry
    retrying,   \* the second complete_with_retry of the turn is running
    calls,      \* tool calls of the response still to execute
    output,     \* the final_result: none yet, text, empty text, or no answer
    result,     \* what execute returned
    learned,    \* what learning_engine was told about this run
    saved,      \* memory.save_session has stored the run
    mirror,     \* RuntimeAgent._state
    runs        \* calls of execute made

agentVars == <<pc, level, memory, max_turns, tracker, turn, attempt, retrying,
               calls, output, result, learned, saved, mirror, runs>>

vars == <<machineVars, lifecycleVars, agentVars>>

\* pc while execute waits for something that can take time or be cancelled.
Awaits == {"thinking", "recalling", "asking", "tools", "verifying", "saving"}

Outputs == {"none", "text", "empty", "unfinished"}

Results == {"none", "done", "verification_failed", "budget", "error", "warning"}

Init ==
    /\ LifecycleInit
    /\ pc = "idle"
    /\ level \in Levels
    /\ memory \in BOOLEAN
    /\ max_turns \in TurnLimits
    /\ tracker = NewTracker
    /\ turn = 0
    /\ attempt = 0
    /\ retrying = FALSE
    /\ calls = 0
    /\ output = "none"
    /\ result = "none"
    /\ learned = {}
    /\ saved = FALSE
    /\ mirror = "queued"
    /\ runs = 0

\* Wrong: the handler sits inside the body, so the lifecycle sees a return.
RunSwallows(why) ==
    /\ BodyReturns
    /\ pc' = "returned"
    /\ result' = why
    /\ learned' = learned \cup {"failure"}

\* An Exception leaves the body: the lifecycle fails the run, execute records
\* the failure and returns the error with its mirrored state.
RunFails(why) ==
    /\ FailRun({})
    /\ pc' = "returned"
    /\ result' = why
    /\ learned' = learned \cup {"failure"}
    /\ UNCHANGED <<checkpoint, loaded, unrecorded, strategies, up>>

\* The body returns: the lifecycle completes the run.
RunReturns(what) ==
    /\ BodyReturns
    /\ pc' = "returned"
    /\ result' = what

StillRunning == UNCHANGED <<machineVars, lifecycleVars, result, learned>>

\* execute(goal, max_turns): a new run id, hence a new machine, file and
\* lifecycle; an override of max_turns stays in the agent's budget.
Execute ==
    /\ pc \in {"idle", "returned", "cancelled"}
    /\ runs < MaxRuns
    /\ \/ UNCHANGED max_turns
       \/ max_turns' \in TurnLimits
    /\ state' = "queued" /\ history' = <<>> /\ disk' = NoFile
    /\ phase' = "new" /\ events' = NoEvents
    /\ checkpoint' = FALSE /\ loaded' = 0 /\ unrecorded' = 0 /\ strategies' = 0
    /\ tracker' = NewTracker
    /\ pc' = "entering"
    /\ turn' = 0 /\ attempt' = 0 /\ retrying' = FALSE /\ calls' = 0
    /\ output' = "none" /\ result' = "none" /\ learned' = {} /\ saved' = FALSE
    /\ runs' = runs + 1
    /\ UNCHANGED <<level, memory, mirror, up>>

\* async with lifecycle.run(), then think().
Enter ==
    /\ pc = "entering"
    /\ EnterRun
    /\ pc' = "thinking"
    /\ mirror' = state'
    /\ UNCHANGED <<level, memory, max_turns, tracker, turn, attempt, retrying,
                   calls, output, result, learned, saved, runs>>

\* think() or get_relevant_context() has finished, or has raised; once the
\* context is ready the second RUN_STARTED of the run is emitted.
Prepare ==
    /\ pc \in {"thinking", "recalling"}
    /\ \E d \in 0..MaxDelay : tracker' = Elapse(tracker, d)
    /\ \/ RunFails("error") /\ UNCHANGED mirror
       \/ /\ pc = "thinking" /\ memory
          /\ pc' = "recalling"
          /\ StillRunning /\ UNCHANGED mirror
       \/ /\ pc = "recalling" \/ ~memory
          /\ pc' = "looping"
          /\ Emit({"run_started"})
          /\ mirror' = state
          /\ UNCHANGED <<machineVars, phase, checkpoint, loaded, unrecorded, strategies, result, learned>>
    /\ UNCHANGED <<level, memory, max_turns, turn, attempt, retrying, calls, output, saved, runs>>

\* The top of _execute_loop: check_budget, then the model is asked.
LoopTop ==
    /\ pc = "looping"
    /\ state \notin TERMINAL_STATES
    /\ \/ /\ is_exhausted(tracker, max_turns)
          /\ RunFails("budget")
          /\ UNCHANGED <<attempt, retrying, mirror>>
       \/ /\ ~is_exhausted(tracker, max_turns)
          /\ pc' = "asking"
          /\ attempt' = 1
          /\ retrying' = FALSE
          /\ mirror' = state
          /\ StillRunning
    /\ UNCHANGED <<level, memory, max_turns, tracker, turn, calls, output, saved, runs>>

\* complete_with_retry tries the primary MaxAttempts times, then every
\* fallback once.
OneAttemptTooMany == attempt <= MaxAttempts + Fallbacks

AttemptsLeft == attempt < MaxAttempts + Fallbacks

\* execute calls complete_with_retry once more before it gives up.
NeverGivesUp == FALSE

RetriedOnce == retrying

\* One provider call failed.  The budget is not checked again in between.
AskFails ==
    /\ pc = "asking"
    /\ \E d \in 0..MaxDelay : tracker' = Elapse(tracker, d)
    /\ \/ /\ AttemptsLeft
          /\ attempt' = attempt + 1
          /\ StillRunning /\ UNCHANGED <<pc, retrying>>
       \/ /\ ~AttemptsLeft /\ ~RetriedOnce
          /\ attempt' = 1
          /\ retrying' = TRUE
          /\ StillRunning /\ UNCHANGED pc
       \/ /\ ~AttemptsLeft /\ RetriedOnce
          /\ RunFails("error")
          /\ UNCHANGED <<attempt, retrying>>
    /\ UNCHANGED <<level, memory, max_turns, turn, calls, output, saved, mirror, runs>>

\* A response arrives: the call is recorded, which raises once 80% of the time
\* is used; then the turn; then an answer without tool calls ends the loop
\* (content None makes len() raise), and tool calls are executed in order.
AskAnswers ==
    /\ pc = "asking"
    /\ \E d \in 0..MaxDelay, tokens \in Usage :
          LET called == record_model_call(Elapse(tracker, d), tokens)
          IN  \/ /\ check_warnings_raises(called)
                 /\ tracker' = called
                 /\ RunFails("warning")
                 /\ UNCHANGED <<output, calls, mirror>>
              \/ /\ ~check_warnings_raises(called)
                 /\ tracker' = record_turn(called)
                 /\ \/ /\ RunFails("error")
                       /\ UNCHANGED <<output, calls, mirror>>
                    \/ /\ output' \in {"text", "empty"}
                       /\ pc' = "verifying"
                       /\ mirror' = state
                       /\ StillRunning /\ UNCHANGED calls
                    \/ /\ calls' \in 1..MaxCalls
                       /\ pc' = "tools"
                       /\ mirror' = state
                       /\ StillRunning /\ UNCHANGED output
    /\ UNCHANGED <<level, memory, max_turns, turn, attempt, retrying, saved, runs>>

\* At the turn limit the loop stops with an unfinished result.
TurnEnds ==
    /\ turn' = turn + 1
    /\ IF turn' >= max_turns
       THEN pc' = "verifying" /\ output' = "unfinished"
       ELSE pc' = "looping" /\ UNCHANGED output

\* One tool has run and is recorded; a KeyError of the recording is taken for
\* a failure of the tool.  After the last one the turn ends.
ToolReturns ==
    /\ pc = "tools"
    /\ \E d \in 0..MaxDelay : tracker' = record_tool_call(Elapse(tracker, d))
    /\ calls' = calls - 1
    /\ IF calls > 1
       THEN UNCHANGED <<pc, turn, output>>
       ELSE TurnEnds
    /\ StillRunning
    /\ UNCHANGED <<level, memory, max_turns, attempt, retrying, saved, mirror, runs>>

\* After the verdict (and the save): the run is learned as a success, then
\* get_status() raises once 80% of the time is used; else execute returns.
Finish ==
    \/ /\ check_warnings_raises(tracker')
       /\ FailRun({})
       /\ pc' = "returned"
       /\ result' = "warning"
       /\ learned' = learned \cup {"success", "failure"}
       /\ UNCHANGED <<checkpoint, loaded, unrecorded, strategies, up>>
    \/ /\ ~check_warnings_raises(tracker')
       /\ RunReturns("done")
       /\ learned' = learned \cup {"success"}

\* Without a pass the result is flagged and returned from the body, which
\* completes the run.
NotVerified ==
    /\ RunReturns("verification_failed")
    /\ UNCHANGED learned

\* verify() has finished.
Verify ==
    /\ pc = "verifying"
    /\ \E d \in 0..MaxDelay : tracker' = Elapse(tracker, d)
    /\ mirror' = state
    /\ LET ok == passed(verify(level, IF output = "text" THEN {HasOutput} ELSE {}))
       IN  \/ ~ok /\ NotVerified
           \/ ok /\ memory /\ pc' = "saving" /\ StillRunning
           \/ ok /\ ~memory /\ Finish
    /\ UNCHANGED <<level, memory, max_turns, turn, attempt, retrying, calls, output, saved, runs>>

\* save_session() has finished or raised.
Save ==
    /\ pc = "saving"
    /\ \E d \in 0..MaxDelay : tracker' = Elapse(tracker, d)
    /\ \/ RunFails("error") /\ UNCHANGED saved
       \/ saved' = TRUE /\ Finish
    /\ UNCHANGED <<level, memory, max_turns, turn, attempt, retrying, calls, output, mirror, runs>>

\* The task is cancelled at an await: no handler sees it.
Cancel ==
    /\ pc \in Awaits
    /\ BodyCancelled
    /\ pc' = "cancelled"
    /\ UNCHANGED <<level, memory, max_turns, tracker, turn, attempt, retrying,
                   calls, output, result, learned, saved, mirror, runs>>

Step == Enter \/ Prepare \/ LoopTop \/ AskFails \/ AskAnswers \/ ToolReturns \/ Verify \/ Save

Next == Execute \/ Step \/ Cancel

\* Every await of a run ends: providers and tools have timeouts, and the event
\* loop goes on scheduling the task.  Nobody has to call execute or cancel.
Spec == Init /\ [][Next]_vars /\ WF_vars(Step)

-----------------------------------------------------------------------------
TypeOK ==
    /\ LifecycleTypeOK
    /\ pc \in {"idle", "entering", "looping", "returned", "cancelled"} \cup Awaits
    /\ level \in Levels
    /\ memory \in BOOLEAN
    /\ max_turns \in TurnLimits
    /\ tracker \in Tracker
    /\ turn \in Nat
    /\ attempt \in 0..(MaxAttempts + Fallbacks)
    /\ retrying \in BOOLEAN
    /\ calls \in 0..MaxCalls
    /\ output \in Outputs
    /\ result \in Results
    /\ learned \subseteq {"success", "failure"}
    /\ saved \in BOOLEAN
    /\ mirror \in {"queued", "analyzing"}
    /\ runs \in 0..MaxRuns

\* The budget is checked once a turn, so it can be overrun, but only by the
\* one turn that follows a check: the last model call's tokens, and the tool
\* calls of the last response.  Model calls and turns are never overrun.
OverrunIsOneTurn ==
    /\ tracker.turns <= max_turns
    /\ tracker.model_calls <= MaxModelCalls
    /\ tracker.tool_calls < MaxToolCalls + MaxCalls
    /\ tracker.tokens < MaxTokens \/ \E u \in Usage : tracker.tokens < MaxTokens + u

\* A run is learned as a failure exactly when it failed, as a success only when
\* it was verified, as both only when the closing get_status raised after the
\* success was recorded; and a run that used up its turns is an unfinished
\* result, never an exhausted budget.
ExitAgrees ==
    /\ pc = "returned" =>
        /\ result \in {"done", "verification_failed"} <=> phase = "completed"
        /\ result \in {"budget", "error", "warning"} <=> phase = "failed"
        /\ phase \in {"completed", "failed"}
        /\ "failure" \in learned <=> state = "failed"
        /\ "success" \in learned => level # "none" /\ output # "none"
        /\ learned = {"success", "failure"} => result = "warning"
        /\ result = "done" => saved = memory
    /\ pc = "looping" => turn = tracker.turns /\ turn < max_turns
    /\ output = "unfinished" => turn = max_turns

\* What execute returns, the way its lifecycle was left and what was learned
\* agree.  One thing it returns does not: the state that goes with an error is
\* the agent's own copy, never the FAILED that the lifecycle is in by then.
OutcomeAgrees ==
    /\ ExitAgrees
    /\ pc = "returned" /\ result \in {"budget", "error", "warning"} => mirror # state

\* Every execute comes to an end.
ExecuteReturns == pc = "entering" ~> pc \in {"returned", "cancelled"}

\* A result flagged as not verified belongs to a failed run: execute sets
\* AgentState.FAILED, "verification_failed".
VerificationFailureFails ==
    pc = "returned" /\ result = "verification_failed" => state = "failed"

=============================================================================
