------------------------------ MODULE Planning ------------------------------
(***************************************************************************)
(* Planning a task (planning/planner.py), seeing that it stalls            *)
(* (planning/progress.py), classifying and recovering its failures         *)
(* (planning/recovery.py) and rating what came out of it                   *)
(* (cognition/evaluator.py).                                               *)
(***************************************************************************)
EXTENDS Integers, Sequences, FiniteSets

CONSTANTS
    Outcomes,       \* what an iteration may be: [action, bad, delta]
    MaxHistory,     \* iterations kept (max_history)
    MaxIterations,  \* bound: iterations recorded
    Weightings      \* weights an evaluator is given, in hundredths

ASSUME PlanningAssumption ==
    /\ \A o \in Outcomes : o.bad \in BOOLEAN /\ o.delta \in -1..1
    /\ MaxHistory \in Nat /\ MaxHistory >= 5 /\ MaxIterations \in Nat
    /\ \A w \in Weightings : \A d \in {"correctness", "efficiency", "style", "safety"} : w[d] \in 0..100

VARIABLES
    iterations,   \* the iterations kept
    actionCounts, \* action -> iterations with it, ever
    errorCounts,  \* action -> iterations with it whose result was an error, ever
    past,         \* history: all the iterations
    plan,         \* the plan asked for: [objective, risk, issues], or NoPlan
    failure,      \* the failure analysed: [keywords, type], or NoFailure
    recovery,     \* what recover() answered: its strategy_used, or "none yet"
    weights,      \* those of the evaluator, or NoWeights
    rated         \* what it rated last and how: [output, score, passed], or Unrated

progressVars == <<iterations, actionCounts, errorCounts, past>>
planVars == <<plan, failure, recovery>>
ratingVars == <<weights, rated>>
planningVars == <<progressVars, planVars, ratingVars>>

Actions == {o.action : o \in Outcomes}
NoPlan == [objective |-> FALSE, risk |-> "none", issues |-> {}]
NoFailure == [keywords |-> {}, type |-> "none"]

-----------------------------------------------------------------------------
(* Progress. *)

Trimmed(its) ==
    IF Len(its) > MaxHistory THEN SubSeq(its, Len(its) - MaxHistory + 1, Len(its)) ELSE its

RecordIteration(o) ==
    /\ Len(past) < MaxIterations
    /\ past' = Append(past, o)
    /\ iterations' = Trimmed(Append(iterations, o))
    /\ actionCounts' = [actionCounts EXCEPT ![o.action] = @ + 1]
    /\ errorCounts' = IF o.bad THEN [errorCounts EXCEPT ![o.action] = @ + 1] ELSE errorCounts

(* detect_stall looks at the last five iterations, and at all the errors. *)
Recent == IF Len(iterations) > 5
            THEN SubSeq(iterations, Len(iterations) - 4, Len(iterations)) ELSE iterations
TimesIn(its, a) == Cardinality({i \in DOMAIN its : its[i].action = a})

Repeated == \E a \in Actions : actionCounts[a] >= 3 /\ TimesIn(Recent, a) >= 3
NoProgress == \A i \in DOMAIN Recent : Recent[i].delta = 0
Oscillates ==
    /\ Len(Recent) >= 4 /\ Recent[1].delta # 0
    /\ \A i \in 2..Len(Recent) : Recent[i].delta = -Recent[i - 1].delta
ErrorsRepeat == \E a \in Actions : errorCounts[a] >= 3

(* stall_type; the checks in their order. *)
DetectStall ==
    IF Len(iterations) < 3 THEN "none"
    ELSE IF Repeated THEN "repeated_command"
    ELSE IF NoProgress THEN "zero_progress"
    ELSE IF Oscillates THEN "oscillation"
    ELSE IF ErrorsRepeat THEN "repeated_error"
    ELSE "none"

-----------------------------------------------------------------------------
(* Plans.  plan() fills in no actions, no files and no expected results.     *)

(* PlanQualityGate.check: the issues of a plan. *)
GateIssues(p) ==
    {i \in {"objective", "inspection", "actions", "rollback", "verification", "results"} :
        \/ i = "objective" /\ ~p.objective
        \/ i = "inspection" /\ ~p.inspects /\ p.changes
        \/ i = "actions" /\ ~p.actions
        \/ i = "rollback" /\ ~p.rollback /\ p.risk = "high"
        \/ i = "verification" /\ ~p.verifies
        \/ i = "results" /\ ~p.expects}

PlanOf(objective, risk) ==
    [objective |-> objective, risk |-> risk, inspects |-> FALSE, changes |-> FALSE,
     actions |-> FALSE, rollback |-> TRUE, verifies |-> TRUE, expects |-> FALSE]

MakePlan(objective, risk) ==
    /\ plan = NoPlan
    /\ plan' = [objective |-> objective, risk |-> risk,
                issues |-> GateIssues(PlanOf(objective, risk))]
    /\ UNCHANGED <<failure, recovery>>

-----------------------------------------------------------------------------
(* Failures.  analyze: the first of these that the message mentions. *)

Keywords == <<"syntax", "import", "timeout", "permission", "network", "test", "resource", "security">>
FailureOf(words) ==
    LET hits == {i \in DOMAIN Keywords : Keywords[i] \in words}
    IN IF hits = {} THEN "runtime" ELSE Keywords[CHOOSE i \in hits : \A j \in hits : i <= j]

(* _register_default_strategies; none of the strategies recovers anything. *)
Strategies == [type \in {"syntax", "import", "dependency", "runtime", "test",
                         "timeout", "resource", "network"} |->
    CASE type = "syntax" -> "PatchSyntax"
      [] type \in {"import", "dependency"} -> "InstallDeps"
      [] type = "runtime" -> "AddErrorHandling"
      [] type = "test" -> "FixTest"
      [] type \in {"timeout", "resource"} -> "ReduceScope"
      [] type = "network" -> "RetryWithBackoff"]

Analyze(words) ==
    /\ failure = NoFailure
    /\ failure' = [keywords |-> words, type |-> FailureOf(words)]
    /\ UNCHANGED <<plan, recovery>>

Recover ==
    /\ failure # NoFailure /\ recovery = "none yet"
    /\ recovery' = IF failure.type \in DOMAIN Strategies THEN "exhausted" ELSE "none"
    /\ UNCHANGED <<plan, failure>>

-----------------------------------------------------------------------------
(* The rubric.  Scores are tenths, weights hundredths; an output is what the *)
(* heuristics see in it: its kind, whether it mentions the goal, and how many *)
(* issues of each sort.                                                        *)

NoWeights == [correctness |-> 0, efficiency |-> 0, style |-> 0, safety |-> 0]
DefaultWeights == [correctness |-> 40, efficiency |-> 25, style |-> 15, safety |-> 20]
PassThreshold == 7000
Outputs == {o \in [kind : {"none", "error", "short", "long"}, covers : BOOLEAN,
                   slow : BOOLEAN, untidy : BOOLEAN, risks : 0..5] :
              /\ o.kind = "none" => ~o.slow /\ ~o.untidy /\ o.risks = 0
              /\ o.kind = "short" => ~o.slow /\ o.risks <= 1
              /\ o.kind # "long" => ~o.covers}
Unrated == [output |-> CHOOSE o \in Outputs : o.kind = "none", score |-> 0, passed |-> FALSE]

Correctness(o) ==
    CASE o.kind = "none" -> 0
      [] o.kind = "error" -> 20
      [] o.kind = "short" -> 40
      [] OTHER -> IF o.covers THEN 75 ELSE 50
Efficiency(o) == IF o.slow THEN 60 ELSE 80
Style(o) == IF o.untidy THEN 60 ELSE 80
Safety(o) == IF o.risks > 3 THEN 10 ELSE 100 - 30 * o.risks

(* The weighted score, in thousandths. *)
Score(o, w) == Correctness(o) * w.correctness + Efficiency(o) * w.efficiency
                 + Style(o) * w.style + Safety(o) * w.safety

(* The constructor raises unless the weights add up to one. *)
MakeEvaluator(w) ==
    /\ weights = NoWeights
    /\ w.correctness + w.efficiency + w.style + w.safety = 100
    /\ weights' = w /\ UNCHANGED rated

(* evaluate awaits nothing that can wait, so its timeout never cuts it short. *)
Evaluate(o) ==
    /\ weights # NoWeights /\ rated = Unrated
    /\ rated' = [output |-> o, score |-> Score(o, weights),
                 passed |-> Score(o, weights) >= PassThreshold]
    /\ UNCHANGED weights

PlanningInit ==
    /\ iterations = <<>> /\ past = <<>>
    /\ actionCounts = [a \in Actions |-> 0] /\ errorCounts = [a \in Actions |-> 0]
    /\ plan = NoPlan /\ failure = NoFailure /\ recovery = "none yet"
    /\ weights = NoWeights /\ rated = Unrated

ProgressNext == (\E o \in Outcomes : RecordIteration(o)) /\ UNCHANGED <<planVars, ratingVars>>
PlanNext ==
    /\ \/ \E objective \in BOOLEAN, risk \in {"low", "medium", "high", "critical"} :
            MakePlan(objective, risk)
       \/ \E w, v \in {Keywords[i] : i \in DOMAIN Keywords} \cup {"other"} : Analyze({w, v})
       \/ Recover
    /\ UNCHANGED <<progressVars, ratingVars>>
RatingNext ==
    /\ (\E w \in Weightings : MakeEvaluator(w)) \/ \E o \in Outputs : Evaluate(o)
    /\ UNCHANGED <<progressVars, planVars>>
PlanningNext == ProgressNext \/ PlanNext \/ RatingNext

PlanningTypeOK ==
    /\ iterations \in Seq(Outcomes) /\ Len(iterations) <= MaxHistory
    /\ actionCounts \in [Actions -> 0..MaxIterations]
    /\ errorCounts \in [Actions -> 0..MaxIterations]
    /\ plan.risk \in {"none", "low", "medium", "high", "critical"}
    /\ recovery \in {"none yet", "none", "exhausted"}
    /\ weights \in Weightings \cup {NoWeights} /\ rated.output \in Outputs

(* What the last five iterations show is reported however long the history was
   before it was cut, and a stall that they do not show is one of three errors of
   one action - of the whole run, since the counts are never reset
   (planning/progress.py detect_stall). *)
StallsAreSeen ==
    LET n == Len(past)
        last == SubSeq(past, IF n > 5 THEN n - 4 ELSE 1, n)
    IN /\ (\E a \in Actions : TimesIn(last, a) >= 3) <=> DetectStall = "repeated_command"
       /\ (n >= 3 /\ \A i \in DOMAIN last : last[i].delta = 0) =>
            DetectStall \in {"repeated_command", "zero_progress"}
       /\ DetectStall = "repeated_error" =>
            \E a \in Actions :
              Cardinality({i \in DOMAIN past : past[i].action = a /\ past[i].bad}) >= 3

(* The planner's own plans never pass its gate, and no failure is ever reported
   recovered: those with a strategy exhaust it (planning/planner.py,
   planning/recovery.py). *)
PlansAreNotReady ==
    /\ plan # NoPlan => {"actions", "results"} \subseteq plan.issues
    /\ recovery = "exhausted" => failure.type \notin {"permission", "security"}

\* What a score can be, 0 to 10 in thousandths.
Scores == 0..10000

(* A score is between 0 and 10; one more issue never raises it; an output that is
   empty or an error does not pass while correctness has its default weight or
   more, and with the default weights neither does a short one.  That is all: one
   that misses the goal, and one with two risks, pass by default
   (cognition/evaluator.py). *)
RubricsHold == rated # Unrated =>
    LET o == rated.output
        worse == {[o EXCEPT !.slow = TRUE], [o EXCEPT !.untidy = TRUE],
                  [o EXCEPT !.covers = FALSE], [o EXCEPT !.risks = @ + 1]}
    IN /\ rated.score \in Scores
       /\ \A p \in worse : Score(p, weights) <= rated.score
       /\ rated.passed =>
            /\ o.kind \in {"none", "error"} => weights.correctness < DefaultWeights.correctness
            /\ o.kind = "short" => weights # DefaultWeights

-----------------------------------------------------------------------------
(***************************************************************************)
(* The choice of a strategy for a goal (cognition/strategy.py) and the     *)
(* impact of a change of a file (planning/semantic_diff.py).  Of a goal    *)
(* there is left how many keywords of each strategy and how many signs of  *)
(* complexity it has; of a file its definitions in the order ast.walk      *)
(* meets them: those of the module, then those of its classes.             *)
(***************************************************************************)

CONSTANTS
    KeywordCounts,  \* keywords of one strategy in a goal
    SignCounts,     \* signs of complexity of a goal
    Threshold,      \* complexity_threshold
    Files           \* contents of a file: sequences of [name, owner, async, typed, body]

ASSUME JudgementAssumption ==
    /\ KeywordCounts \subseteq Nat /\ SignCounts \subseteq Nat /\ Threshold \in Nat
    /\ Files \subseteq Seq([name : STRING, owner : STRING, async : BOOLEAN, typed : BOOLEAN,
                           body : Nat])

VARIABLES
    selected,   \* the goal, its context and the strategy selected, or Unselected
    compared    \* the contents before and after and the impact, or Uncompared

StrategyTypes == <<"direct", "planner", "multi_agent", "research">>
StrategyNames == {StrategyTypes[i] : i \in DOMAIN StrategyTypes}

(* Of context: nothing (given is FALSE), or the preference, whether the budget is
   below 1000 and the tools are fewer than five; parallel is a word of the goal. *)
Contexts == {c \in [given : BOOLEAN, preferred : StrategyNames \cup {"none"},
                    poor : BOOLEAN, fewTools : BOOLEAN] :
               ~c.given => c.preferred = "none" /\ ~c.poor /\ ~c.fewTools}
Goal == [hits : [StrategyNames -> KeywordCounts], complexity : SignCounts, parallel : BOOLEAN]
Unselected == [strategy |-> "none"]

(* Scores are thousandths. *)
ScoreStrategies(hits) ==
    [t \in StrategyNames |->
        IF hits[t] > 0 THEN (IF hits[t] * 250 > 900 THEN 900 ELSE hits[t] * 250)
        ELSE IF t = "direct" /\ \A u \in StrategyNames : hits[u] = 0 THEN 500 ELSE 0]

AtLeast(score, bound) == IF score < bound THEN bound ELSE score

(* _apply_context, its adjustments in their order. *)
ApplyContext(scores, c, parallel) ==
    LET preferred == [t \in StrategyNames |->
                        IF t = c.preferred THEN AtLeast(scores[t], 800) ELSE scores[t]]
        poor == IF ~c.poor THEN preferred
                ELSE [preferred EXCEPT !["multi_agent"] = (@ * 5) \div 10,
                                       !["research"] = (@ * 7) \div 10]
        few == IF c.fewTools THEN [poor EXCEPT !["multi_agent"] = (@ * 6) \div 10] ELSE poor
    IN IF ~c.given THEN scores
       ELSE IF parallel THEN [few EXCEPT !["multi_agent"] = AtLeast(@, 700)] ELSE few

Boosted(scores, complexity) ==
    [scores EXCEPT
        !["planner"] = IF complexity >= Threshold /\ @ < 700 THEN @ + 200 ELSE @,
        !["multi_agent"] = IF complexity >= Threshold + 1 THEN @ + 150 ELSE @]

(* max over the dict: the first of the highest, in the order of StrategyType. *)
Highest(scores) ==
    StrategyTypes[CHOOSE i \in DOMAIN StrategyTypes : \A j \in DOMAIN StrategyTypes :
        /\ scores[StrategyTypes[i]] >= scores[StrategyTypes[j]]
        /\ j < i => scores[StrategyTypes[i]] > scores[StrategyTypes[j]]]

SelectStrategy(goal, c) ==
    /\ selected' = [goal |-> goal, context |-> c,
          strategy |-> Highest(Boosted(ApplyContext(ScoreStrategies(goal.hits), c, goal.parallel),
                                       goal.complexity))]
    /\ UNCHANGED compared

-----------------------------------------------------------------------------
(* The dict of functions: of one name the definition met last, and no async    *)
(* ones.                                                                       *)
Functional(file) == {i \in DOMAIN file : ~file[i].async}
FunctionsIn(file) == {file[i].name : i \in Functional(file)}
FunctionIn(file, n) ==
    file[CHOOSE i \in Functional(file) :
            file[i].name = n /\ \A j \in Functional(file) : file[j].name = n => j <= i]
ClassesIn(file) == {file[i].owner : i \in DOMAIN file} \ {"module"}

(* Annotations are compared as nodes of two trees, which are never equal. *)
SignatureChanged(b, a) == b.typed \/ a.typed

DiffFunctions(before, after) ==
    [n \in {n \in FunctionsIn(before) \cup FunctionsIn(after) :
              n \in FunctionsIn(before) \cap FunctionsIn(after) =>
                 LET b == FunctionIn(before, n)
                     a == FunctionIn(after, n)
                 IN SignatureChanged(b, a) \/ b.body # a.body} |->
        IF n \notin FunctionsIn(after) THEN "removed"
        ELSE IF n \notin FunctionsIn(before) THEN "added" ELSE "modified"]

(* A class in both is modified, whether it changed or not. *)
DiffClasses(before, after) ==
    [k \in ClassesIn(before) \cup ClassesIn(after) |->
        IF k \notin ClassesIn(after) THEN "removed"
        ELSE IF k \notin ClassesIn(before) THEN "added" ELSE "modified"]

HasBreakingChanges(functions, classes) ==
    \/ \E n \in DOMAIN functions : functions[n] # "added"
    \/ \E k \in DOMAIN classes : classes[k] # "added"

(* ImpactAnalyzer.analyze; low means "Safe to merge". *)
ImpactOf(functions, classes, callers) ==
    IF HasBreakingChanges(functions, classes) THEN (IF callers THEN "critical" ELSE "high")
    ELSE IF DOMAIN functions # {} \/ DOMAIN classes # {} THEN "medium" ELSE "low"

Uncompared == [impact |-> "none"]
CompareFiles(before, after, callers) ==
    /\ compared' = [before |-> before, after |-> after,
          impact |-> ImpactOf(DiffFunctions(before, after), DiffClasses(before, after), callers)]
    /\ UNCHANGED selected

judgementVars == <<selected, compared>>
JudgementInit == selected = Unselected /\ compared = Uncompared
StrategyNext ==
    selected = Unselected /\ \E goal \in Goal, c \in Contexts : SelectStrategy(goal, c)
DiffNext ==
    compared = Uncompared /\ \E before, after \in Files, callers \in BOOLEAN : CompareFiles(before, after, callers)

JudgementTypeOK ==
    /\ selected.strategy \in StrategyNames \cup {"none"}
    /\ compared.impact \in {"none", "low", "medium", "high", "critical"}

(* A goal without a keyword that is not complex is done directly; a preference
   for doing it directly or by a plan is overridden only by a strategy with four
   keywords, or by several agents for a goal that is complex; a small budget
   gets several agents only for want of anything better, unless the goal says
   "parallel", which overrides the budget (cognition/strategy.py select). *)
StrategiesFit == selected # Unselected =>
    LET g == selected.goal
        c == selected.context
        s == selected.strategy
    IN /\ (\A t \in StrategyNames : g.hits[t] = 0) /\ ~c.given /\ g.complexity <= Threshold
            => s = "direct"
       /\ c.preferred \in {"direct", "planner"} =>
            \/ s = c.preferred \/ g.hits[s] >= 4
            \/ s = "multi_agent" /\ g.complexity > Threshold /\ (g.parallel \/ g.hits[s] >= 3)
       /\ c.poor /\ ~g.parallel /\ s = "multi_agent" => g.hits["planner"] <= 1 /\ g.hits["direct"] <= 2

(* A change that is called safe to merge leaves every function that is not async
   and not hidden by a later one of its name as it was, and there is no class
   before or after it.  Without classes and annotations, what is called breaking
   did remove or change a function (planning/semantic_diff.py). *)
SafeChangesAreSafe == compared # Uncompared =>
    LET before == compared.before
        after == compared.after
        plain == ClassesIn(before) \cup ClassesIn(after) = {}
                   /\ \A f \in {before, after} : \A i \in DOMAIN f : ~f[i].typed
    IN /\ compared.impact = "low" =>
            /\ FunctionsIn(before) = FunctionsIn(after)
            /\ \A n \in FunctionsIn(before) : FunctionIn(before, n).body = FunctionIn(after, n).body
            /\ ClassesIn(before) \cup ClassesIn(after) = {}
       /\ plain /\ compared.impact \in {"high", "critical"} =>
            \E n \in FunctionsIn(before) :
               n \in FunctionsIn(after) => FunctionIn(before, n).body # FunctionIn(after, n).body
=============================================================================
