------------------------------ MODULE AgentLoop ------------------------------
(***************************************************************************)
(* The conversation loop of core/agent.py: a model is asked through        *)
(* LLMProvider.complete_with_retry (core/llm_provider.py), the tools it    *)
(* calls run side by side or one by one through ToolRegistry.execute       *)
(* (tools/registry.py), and their results go back into the context, until  *)
(* an answer calls no tool or the turns are used up.                       *)
(* The loop's branch for errors (_self_heal) is not modelled: no turn      *)
(* returns an "error", so it is never taken.                               *)
(***************************************************************************)
EXTENDS Naturals, Sequences, FiniteSets

CONSTANTS
    LoopTurns,      \* max_turns, of which a goal has one at least
    LoopAttempts,   \* retry["max_attempts"]: the primary is asked
    Providers,      \* the providers, primary first: "custom" or another
    MaxToolCalls,   \* bound: tool calls of one answer
    MaxGoals        \* bound: goals given to one agent

ASSUME LoopAssumption ==
    /\ LoopTurns \in Nat \ {0} /\ LoopAttempts \in Nat \ {0} /\ MaxToolCalls \in Nat
    /\ MaxGoals \in Nat
    /\ Providers \in Seq({"custom", "other"}) \ {<<>>}

VARIABLES
    loopAt,         \* what the loop awaits
    turn,
    attempt,        \* requests to the primary provider in this turn
    askedProvider,         \* the provider that is asked
    toolCalls,      \* what became of each tool call of the answer
    parallel,       \* advanced.parallel_tools
    remembers,      \* the agent has a memory
    context,        \* messages of the context: who wrote each
    savedGoals,     \* goals whose session is in the memory
    goal,           \* the current goal; goals are numbered
    outcomes        \* history: how execute() ended for each goal

loopVars == <<loopAt, turn, attempt, askedProvider, toolCalls, parallel, remembers,
              context, savedGoals, goal, outcomes>>

Goals == 1..MaxGoals
ToolStates == {"waiting", "running", "success", "failure"}

LoopTypeOK ==
    /\ loopAt \in {"idle", "memory", "model", "pause", "tools", "saving"}
    /\ turn \in 0..LoopTurns
    /\ attempt \in 0..LoopAttempts
    /\ askedProvider \in 0..Len(Providers)
    /\ toolCalls \in UNION {[1..n -> ToolStates] : n \in 0..MaxToolCalls}
    /\ parallel \in BOOLEAN /\ remembers \in BOOLEAN
    /\ \A k \in DOMAIN context : context[k] \in {"user", "system", "results", "answer"}
    /\ savedGoals \subseteq Goals
    /\ goal \in 0..MaxGoals
    /\ outcomes \in [Goals -> {"none", "answer", "max_turns", "raised"}]

LoopInit ==
    /\ loopAt = "idle"
    /\ turn = 0 /\ attempt = 0 /\ askedProvider = 0
    /\ toolCalls = <<>>
    /\ parallel \in BOOLEAN /\ remembers \in BOOLEAN
    /\ context = <<>>
    /\ savedGoals = {}
    /\ goal = 0
    /\ outcomes = [g \in Goals |-> "none"]

LoopEnds(how) ==
    /\ loopAt' = "idle"
    /\ outcomes' = [outcomes EXCEPT ![goal] = how]

(* The while loop: the next turn asks the primary provider, or there is none. *)
NextTurn ==
    IF turn < LoopTurns
    THEN /\ loopAt' = "model"
         /\ turn' = turn + 1 /\ attempt' = 1 /\ askedProvider' = 1
         /\ UNCHANGED outcomes
    ELSE LoopEnds("max_turns") /\ UNCHANGED <<turn, attempt, askedProvider>>

(* execute: the context goes on from the earlier goals. *)
Execute ==
    /\ loopAt = "idle" /\ goal < MaxGoals
    /\ goal' = goal + 1
    /\ context' = Append(context, "user")
    /\ toolCalls' = <<>>
    /\ IF remembers
       THEN /\ loopAt' = "memory" /\ turn' = 0
            /\ UNCHANGED <<attempt, askedProvider>>
       ELSE /\ loopAt' = "model"
            /\ turn' = 1 /\ attempt' = 1 /\ askedProvider' = 1
    /\ UNCHANGED <<parallel, remembers, savedGoals, outcomes>>

(* get_relevant_context: what it finds goes into the context; when it finds
   nothing, or the database fails, there is no message. *)
Remembered(found) ==
    /\ loopAt = "memory"
    /\ context' = IF found THEN Append(context, "system") ELSE context
    /\ NextTurn
    /\ UNCHANGED <<toolCalls, parallel, remembers, savedGoals, goal>>

(* Only CustomProvider.complete takes the tools argument complete_with_retry
   passes; the others raise before they ask anybody. *)
TakesTools(p) == Providers[p] = "custom"

(* A provider raised: the primary one is asked again after a pause, then each
   fallback once; after the last one complete_with_retry and execute raise. *)
ProviderFails ==
    /\ loopAt = "model"
    /\ IF askedProvider = 1 /\ attempt < LoopAttempts
       THEN loopAt' = "pause" /\ UNCHANGED <<askedProvider, outcomes>>
       ELSE IF askedProvider < Len(Providers)
            THEN askedProvider' = askedProvider + 1 /\ UNCHANGED <<loopAt, outcomes>>
            ELSE LoopEnds("raised") /\ UNCHANGED askedProvider
    /\ UNCHANGED <<turn, attempt, toolCalls, parallel, remembers, context, savedGoals, goal>>

PauseEnds ==
    /\ loopAt = "pause"
    /\ loopAt' = "model"
    /\ attempt' = attempt + 1
    /\ UNCHANGED <<turn, askedProvider, toolCalls, parallel, remembers, context, savedGoals, goal, outcomes>>

(* The answer calls n tools: the turn runs them, all at once or the first;
   or it calls none, and the loop saves and ends. *)
ModelAnswers(n) ==
    /\ loopAt = "model" /\ TakesTools(askedProvider)
    /\ IF n > 0
       THEN /\ loopAt' = "tools"
            /\ toolCalls' = [k \in 1..n |-> IF parallel \/ k = 1 THEN "running" ELSE "waiting"]
            /\ UNCHANGED <<context, outcomes>>
       ELSE /\ context' = Append(context, "answer")
            /\ toolCalls' = <<>>
            /\ IF remembers THEN loopAt' = "saving" /\ UNCHANGED outcomes
               ELSE LoopEnds("answer")
    /\ UNCHANGED <<turn, attempt, askedProvider, parallel, remembers, savedGoals, goal>>

(* ToolRegistry.execute: a tool that is unknown, not enabled, called with too
   few parameters or that raises is a failure, and never an exception. *)
ToolEnds(k, how) ==
    /\ loopAt = "tools" /\ k \in DOMAIN toolCalls
    /\ toolCalls[k] = "running"
    /\ how \in {"success", "failure"}
    /\ toolCalls' = [j \in DOMAIN toolCalls |->
          IF j = k THEN how
          ELSE IF j = k + 1 /\ toolCalls[j] = "waiting" THEN "running"
          ELSE toolCalls[j]]
    /\ UNCHANGED <<loopAt, turn, attempt, askedProvider, parallel, remembers, context,
                   savedGoals, goal, outcomes>>

ToolsDone == \A k \in DOMAIN toolCalls : toolCalls[k] \in {"success", "failure"}

(* gather returned, or the last tool did: add_tool_results. *)
ResultsIn ==
    /\ loopAt = "tools" /\ ToolsDone
    /\ context' = Append(context, "results")
    /\ NextTurn
    /\ UNCHANGED <<toolCalls, parallel, remembers, savedGoals, goal>>

(* save_session: a failure is logged only, and the answer is returned. *)
SessionSaved(ok) ==
    /\ loopAt = "saving"
    /\ savedGoals' = IF ok THEN savedGoals \cup {goal} ELSE savedGoals
    /\ LoopEnds("answer")
    /\ UNCHANGED <<turn, attempt, askedProvider, toolCalls, parallel, remembers, context, goal>>

LoopNext ==
    \/ Execute
    \/ \E found \in BOOLEAN : Remembered(found)
    \/ ProviderFails
    \/ PauseEnds
    \/ \E n \in 0..MaxToolCalls : ModelAnswers(n)
    \/ \E k \in 1..MaxToolCalls, how \in {"success", "failure"} : ToolEnds(k, how)
    \/ ResultsIn
    \/ \E ok \in BOOLEAN : SessionSaved(ok)
-----------------------------------------------------------------------------

\* execute() returns an answer only if the model gave one in answer to
\* everything before it, from a provider that can be asked at all, and a goal
\* is in the memory only if it was answered; running out of turns never
\* loses the results of the last tools.
LoopEndsHonestly ==
    loopAt = "idle" /\ goal > 0 =>
        /\ outcomes[goal] = "answer" =>
              context[Len(context)] = "answer" /\ TakesTools(askedProvider)
        /\ outcomes[goal] = "max_turns" /\ turn > 0 => context[Len(context)] = "results"
        /\ \A g \in savedGoals : remembers /\ outcomes[g] = "answer"

=============================================================================
