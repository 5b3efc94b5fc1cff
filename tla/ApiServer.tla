------------------------------ MODULE ApiServer ------------------------------
(***************************************************************************)
(* The routes of api/server.py that reach a model: POST /api/execute and   *)
(* the web socket /api/stream, with the table of active agents and the     *)
(* providers of core/llm_provider.py behind them.  The routes run on one   *)
(* event loop and share one Config, which an Agent made for a request that *)
(* names a provider changes for good.  As it stands the file cannot be     *)
(* imported: it defines AuthUser and require_auth, which list_agents names *)
(* (line 324), only where the import of the auth router failed, and then   *)
(* its other routers cannot be imported.  Modelled is what the routes do   *)
(* once the two names are there, as the repository's tests call them.      *)
(***************************************************************************)
EXTENDS Naturals, FiniteSets

CONSTANTS
    ApiClients,       \* requests and sockets that are open at a time
    ModelProviders,   \* names a request may give; the four valid ones and others
    UsableProviders,  \* those whose constructor does not raise: valid, with a key
    DefaultProvider,  \* config.agent.llm.provider at the start
    MaxApiCalls,      \* bound: requests and streams
    MaxTokens         \* bound: tokens of a stream

ASSUME ApiAssumption ==
    /\ UsableProviders \subseteq ModelProviders
    /\ DefaultProvider \in ModelProviders
    /\ "none" \notin ModelProviders \cup ApiClients
    /\ MaxApiCalls \in Nat /\ MaxTokens \in Nat

VARIABLES
    configured,   \* config.agent.llm.provider
    awaited,        \* client -> what its route awaits and with which provider
    activeAgent,  \* whose agent active_agents holds under the key None, or "none"
    lastAnswer,       \* client -> the last answer of its route
    namedBefore,  \* history: providers named so far
    streamsBegun, \* history: streams that made an agent
    apiCalls      \* bound

apiVars == <<configured, awaited, activeAgent, lastAnswer, namedBefore, streamsBegun, apiCalls>>

NoCall == [at |-> "nothing", mode |-> "none", provider |-> "none", named |-> FALSE]
NoAnswer == [status |-> 0, mode |-> "none", success |-> FALSE, provider |-> "none",
             named |-> FALSE, tokens |-> 0, sentId |-> FALSE]

ApiInit ==
    /\ configured = DefaultProvider
    /\ awaited = [c \in ApiClients |-> NoCall]
    /\ activeAgent = "none"
    /\ lastAnswer = [c \in ApiClients |-> NoAnswer]
    /\ namedBefore = {} /\ streamsBegun = 0 /\ apiCalls = 0

-----------------------------------------------------------------------------
(* Agent(config, provider): the shared config takes the name first; then the  *)
(* constructor of LLMProvider raises for one it cannot use.                    *)

Chooses(named) == IF named = "none" THEN configured ELSE named

Begin(c) ==
    /\ awaited[c] = NoCall /\ apiCalls < MaxApiCalls
    /\ apiCalls' = apiCalls + 1

Answers(c, code, mode, success, provider, named) ==
    lastAnswer' = [lastAnswer EXCEPT ![c] =
        [status |-> code, mode |-> mode, success |-> success, provider |-> provider, named |-> named,
         tokens |-> 0, sentId |-> FALSE]]

(* dry_run goes first: no model, no tool, always a success. *)
DryRun(c) ==
    /\ Begin(c)
    /\ Answers(c, 200, "dry_run", TRUE, "none", FALSE)
    /\ UNCHANGED <<configured, awaited, activeAgent, namedBefore, streamsBegun>>

(* execute_tools is refused, also together with conversation_only. *)
RefuseTools(c) ==
    /\ Begin(c)
    /\ Answers(c, 403, "none", FALSE, "none", FALSE)
    /\ UNCHANGED <<configured, awaited, activeAgent, namedBefore, streamsBegun>>

(* Else the text of the model, in one of two modes that only differ in name. *)
Configure(named) ==
    /\ configured' = Chooses(named)
    /\ namedBefore' = namedBefore \cup ({named} \ {"none"})
ExecuteTask(c, mode, named) ==
    /\ Begin(c)
    /\ Configure(named)
    /\ IF Chooses(named) \in UsableProviders
       THEN /\ awaited' = [awaited EXCEPT ![c] = [at |-> "model", mode |-> mode,
                           provider |-> Chooses(named), named |-> named # "none"]]
            /\ lastAnswer' = [lastAnswer EXCEPT ![c] = NoAnswer]
       ELSE /\ Answers(c, 500, mode, FALSE, Chooses(named), named # "none")
            /\ UNCHANGED awaited
    /\ UNCHANGED <<activeAgent, streamsBegun>>

(* The model answers, with or without tool calls that nobody executes, or the *)
(* provider raises.                                                           *)
CompletionEnds(c, ok) ==
    /\ awaited[c].at = "model"
    /\ Answers(c, 200, awaited[c].mode, ok, awaited[c].provider, awaited[c].named)
    /\ awaited' = [awaited EXCEPT ![c] = NoCall]
    /\ UNCHANGED <<configured, activeAgent, namedBefore, streamsBegun, apiCalls>>

-----------------------------------------------------------------------------
(* The stream.  Every await may find the peer gone: then the route ends, or   *)
(* its error message raises as well, and it ends all the same.                *)

StreamEnds(c, mode, success) ==
    /\ awaited' = [awaited EXCEPT ![c] = NoCall]
    /\ lastAnswer' = [lastAnswer EXCEPT ![c].mode = mode, ![c].success = success]

(* accept and receive_json; a first message without a goal is an error. *)
StreamOpens(c) ==
    /\ Begin(c)
    /\ awaited' = [awaited EXCEPT ![c] = [NoCall EXCEPT !.at = "goal"]]
    /\ lastAnswer' = [lastAnswer EXCEPT ![c] = NoAnswer]
    /\ UNCHANGED <<configured, activeAgent, namedBefore, streamsBegun>>

NoGoal(c) ==
    /\ awaited[c].at = "goal"
    /\ StreamEnds(c, "error", FALSE)
    /\ UNCHANGED <<configured, activeAgent, namedBefore, streamsBegun, apiCalls>>

(* The agent's session_id is None until stream() runs, so every agent goes under *)
(* that one key, and session_started tells the peer null.                        *)
GoalArrives(c) ==
    /\ awaited[c].at = "goal"
    /\ IF configured \in UsableProviders
       THEN /\ awaited' = [awaited EXCEPT ![c].at = "starting", ![c].provider = configured]
            /\ activeAgent' = c
            /\ streamsBegun' = streamsBegun + 1
            /\ UNCHANGED lastAnswer
       ELSE StreamEnds(c, "error", FALSE) /\ UNCHANGED <<activeAgent, streamsBegun>>
    /\ UNCHANGED <<configured, namedBefore, apiCalls>>

SessionStarted(c) ==
    /\ awaited[c].at = "starting"
    /\ awaited' = [awaited EXCEPT ![c].at = "tokens"]
    /\ lastAnswer' = [lastAnswer EXCEPT ![c].provider = awaited[c].provider]
    /\ UNCHANGED <<configured, activeAgent, namedBefore, streamsBegun, apiCalls>>

TokenArrives(c) ==
    /\ awaited[c].at = "tokens" /\ lastAnswer[c].tokens < MaxTokens
    /\ lastAnswer' = [lastAnswer EXCEPT ![c].tokens = @ + 1]
    /\ UNCHANGED <<configured, awaited, activeAgent, namedBefore, streamsBegun, apiCalls>>

StreamCompletes(c) ==
    /\ awaited[c].at = "tokens"
    /\ awaited' = [awaited EXCEPT ![c] = NoCall]
    /\ lastAnswer' = [lastAnswer EXCEPT ![c].mode = "complete", ![c].success = TRUE, ![c].sentId = TRUE]
    /\ UNCHANGED <<configured, activeAgent, namedBefore, streamsBegun, apiCalls>>

(* The provider raises: the error is the last message. *)
StreamFails(c) ==
    /\ awaited[c].at = "tokens"
    /\ StreamEnds(c, "error", FALSE)
    /\ UNCHANGED <<configured, activeAgent, namedBefore, streamsBegun, apiCalls>>

StreamPeerLeaves(c) ==
    /\ awaited[c].at \in {"goal", "starting", "tokens"}
    /\ StreamEnds(c, "gone", FALSE)
    /\ UNCHANGED <<configured, activeAgent, namedBefore, streamsBegun, apiCalls>>

ApiNext == \E c \in ApiClients :
    \/ DryRun(c) \/ RefuseTools(c)
    \/ \E mode \in {"conversation_only", "text_only"}, named \in ModelProviders \cup {"none"} :
         ExecuteTask(c, mode, named)
    \/ \E ok \in BOOLEAN : CompletionEnds(c, ok)
    \/ StreamOpens(c) \/ NoGoal(c) \/ GoalArrives(c) \/ SessionStarted(c)
    \/ TokenArrives(c) \/ StreamCompletes(c) \/ StreamFails(c) \/ StreamPeerLeaves(c)

-----------------------------------------------------------------------------
ApiTypeOK ==
    /\ configured \in ModelProviders
    /\ \A c \in ApiClients :
         /\ awaited[c].at \in {"nothing", "model", "goal", "starting", "tokens"}
         /\ awaited[c].provider \in ModelProviders \cup {"none"}
         /\ lastAnswer[c].status \in {0, 200, 403, 500} /\ lastAnswer[c].tokens \in 0..MaxTokens
    /\ activeAgent \in ApiClients \cup {"none"}
    /\ namedBefore \subseteq ModelProviders
    /\ apiCalls \in 0..MaxApiCalls /\ streamsBegun \in 0..MaxApiCalls

(* A route that asks a model asks one that can be used, however the requests
   interleave; one that named no provider is given the default, or one that some
   other request named; and what fails to make its agent fails for that one cannot
   be used, so that one request may decide for all later ones, until another is
   named.  A stream that completed was served, and its agent, or that of a later
   stream, is the one that is held (api/server.py execute_task, stream_task). *)
RoutesAreServed ==
    /\ \A c \in ApiClients :
         /\ awaited[c].provider \in UsableProviders \cup {"none"}
         /\ ~lastAnswer[c].named =>
              lastAnswer[c].provider \in {DefaultProvider, "none"} \cup namedBefore
         /\ lastAnswer[c].status = 500 =>
              lastAnswer[c].provider \in ModelProviders \ UsableProviders
         /\ lastAnswer[c].sentId => lastAnswer[c].provider \in UsableProviders /\ activeAgent # "none"
    /\ configured \in {DefaultProvider} \cup namedBefore
    /\ streamsBegun > 0 <=> activeAgent # "none"
=============================================================================
