------------------------------ MODULE RunChecks ------------------------------
(***************************************************************************)
(* What a run is measured against.  core/budget.py: the limits of a run    *)
(* (Budget), what it has used (BudgetTracker) and the checks BudgetEngine  *)
(* makes; max_turns is an argument, not a constant: RuntimeAgent.execute   *)
(* overwrites it.  The cost budget is left out: no caller in the runtime   *)
(* ever records a cost.  core/verification.py: what                        *)
(* VerificationEngine.verify concludes from the outcomes of its checks.    *)
(***************************************************************************)
EXTENDS Integers

CONSTANTS MaxTokens, MaxTime, MaxToolCalls, MaxModelCalls

ASSUME BudgetAssumption ==
    /\ MaxTokens \in Nat \ {0}
    /\ MaxTime \in Nat \ {0}
    /\ MaxToolCalls \in Nat \ {0}
    /\ MaxModelCalls \in Nat \ {0}

\* BudgetTracker; elapsed is now - start_time in ticks and stops at MaxTime,
\* beyond which nothing depends on it.
Tracker == [tokens : Nat, elapsed : 0..MaxTime, tool_calls : Nat,
            model_calls : Nat, turns : Nat]

\* start_run()
NewTracker == [tokens |-> 0, elapsed |-> 0, tool_calls |-> 0, model_calls |-> 0, turns |-> 0]

\* Wrong: a budget is exhausted only once it is exceeded.
ExceededOnly(t, max_turns) ==
    \/ t.tokens > MaxTokens
    \/ t.elapsed > MaxTime
    \/ t.tool_calls > MaxToolCalls
    \/ t.model_calls > MaxModelCalls
    \/ t.turns > max_turns

is_exhausted(t, max_turns) ==
    \/ t.tokens >= MaxTokens
    \/ t.elapsed >= MaxTime
    \/ t.tool_calls >= MaxToolCalls
    \/ t.model_calls >= MaxModelCalls
    \/ t.turns >= max_turns

\* check_warnings() looks up data["used"] even where the entry has "used_seconds"
\* instead: once 80% of the time is used it raises KeyError.
check_warnings_raises(t) == 10 * t.elapsed >= 8 * MaxTime

record_model_call(t, tokens) ==
    [t EXCEPT !.model_calls = @ + 1, !.tokens = @ + tokens]

record_tool_call(t) == [t EXCEPT !.tool_calls = @ + 1]

record_turn(t) == [t EXCEPT !.turns = @ + 1]

\* d ticks pass.
Elapse(t, d) == [t EXCEPT !.elapsed = IF @ + d > MaxTime THEN MaxTime ELSE @ + d]

-----------------------------------------------------------------------------
(* core/verification.py *)

VerificationLevel == {"none", "basic", "moderate", "strict", "paranoid"}

VerificationStatus == {"passed", "failed", "skipped"}

\* What check.verify() did: it returned passed or not, with an error or
\* without, or it raised (passed is then never recorded).
CheckOutcome == [required : BOOLEAN, passed : BOOLEAN, error : BOOLEAN, raised : BOOLEAN]

\* An error of a required check, returned or raised, fails the verification;
\* passed itself counts at the level PARANOID only.
ErrorsFail(outcomes) == \E c \in outcomes : c.required /\ (c.error \/ c.raised)

all_checks_passed(outcomes) == \A c \in outcomes : c.raised \/ c.passed

verify(level, outcomes) ==
    IF level = "none" THEN "skipped"
    ELSE IF \/ ErrorsFail(outcomes)
            \/ level = "paranoid" /\ ~all_checks_passed(outcomes)
    THEN "failed"
    ELSE "passed"

\* VerificationResult.passed
passed(status) == status = "passed"

\* The check execute() adds for a result that has output.
HasOutput == [required |-> TRUE, passed |-> TRUE, error |-> FALSE, raised |-> FALSE]

=============================================================================
