---------------------------- MODULE AgentSessions ----------------------------
(***************************************************************************)
(* Agent sessions and their web sockets (api/agent_sessions.py): sessions  *)
(* are made and closed by routes without an await, and a socket may name   *)
(* any session.  Its handler iterates over the WebSocket itself (line      *)
(* 327), which the WebSocket of Starlette does not support: the loop       *)
(* raises before the first message and the handler closes the socket.  So  *)
(* the code that would create, execute and cancel runs is never reached,   *)
(* and is not modelled.  Ownership checks and listings are left out.       *)
(***************************************************************************)
EXTENDS Naturals, FiniteSets

CONSTANTS
    AgentSockets,   \* web sockets
    AgentSessionIds \* ids that sockets name; the sessions are given some of them

VARIABLES
    sessionsMade,   \* sessions that were created
    sessionsOpen,   \* _sessions
    listed,         \* _agent_websockets
    peers,          \* sockets whose other side is connected
    handler         \* what each socket's handler does, and for which session

agentVars == <<sessionsMade, sessionsOpen, listed, peers, handler>>

Stages == {"accepting", "closing", "gone", "refused"}
NotConnected == [does |-> "nothing", session |-> "none"]

AgentTypeOK ==
    /\ sessionsMade \subseteq AgentSessionIds /\ sessionsOpen \subseteq sessionsMade
    /\ listed \in [AgentSessionIds -> SUBSET AgentSockets]
    /\ peers \subseteq AgentSockets
    /\ handler \in [AgentSockets ->
          {NotConnected} \cup [does : Stages, session : AgentSessionIds]]

AgentSessionsInit ==
    /\ sessionsMade = {} /\ sessionsOpen = {}
    /\ listed = [i \in AgentSessionIds |-> {}]
    /\ peers = {}
    /\ handler = [s \in AgentSockets |-> NotConnected]

CreateAgentSession(i) ==
    /\ i \notin sessionsMade
    /\ sessionsMade' = sessionsMade \cup {i}
    /\ sessionsOpen' = sessionsOpen \cup {i}
    /\ UNCHANGED <<listed, peers, handler>>

(* close_agent_session: there is no run to cancel; the sockets stay listed. *)
CloseAgentSession(i) ==
    /\ i \in sessionsOpen
    /\ sessionsOpen' = sessionsOpen \ {i}
    /\ UNCHANGED <<sessionsMade, listed, peers, handler>>

(* The handler starts, for a session that need not exist, and awaits accept(). *)
ConnectSocket(s, i) ==
    /\ handler[s] = NotConnected
    /\ peers' = peers \cup {s}
    /\ handler' = [handler EXCEPT ![s] = [does |-> "accepting", session |-> i]]
    /\ UNCHANGED <<sessionsMade, sessionsOpen, listed>>

PeerVanishes(s) ==
    /\ s \in peers
    /\ peers' = peers \ {s}
    /\ UNCHANGED <<sessionsMade, sessionsOpen, listed, handler>>

(* accept() returned: the socket is listed, the loop raises, close() is awaited. *)
ListenRaises(s) ==
    /\ handler[s].does = "accepting"
    /\ listed' = [listed EXCEPT ![handler[s].session] = @ \cup {s}]
    /\ handler' = [handler EXCEPT ![s].does = "closing"]
    /\ UNCHANGED <<sessionsMade, sessionsOpen, peers>>

(* accept() raised, outside the try block. *)
AcceptRaises(s) ==
    /\ handler[s].does = "accepting" /\ s \notin peers
    /\ handler' = [handler EXCEPT ![s].does = "refused"]
    /\ UNCHANGED <<sessionsMade, sessionsOpen, listed, peers>>

(* close() returned, or raised for a peer that is gone. *)
SocketClosed(s) ==
    /\ handler[s].does = "closing"
    /\ handler' = [handler EXCEPT ![s].does = "gone"]
    /\ peers' = peers \ {s}
    /\ UNCHANGED <<sessionsMade, sessionsOpen, listed>>

AgentSessionsNext ==
    \/ \E i \in AgentSessionIds : CreateAgentSession(i) \/ CloseAgentSession(i)
    \/ \E s \in AgentSockets :
          \/ \E i \in AgentSessionIds : ConnectSocket(s, i)
          \/ PeerVanishes(s) \/ ListenRaises(s) \/ AcceptRaises(s) \/ SocketClosed(s)

-----------------------------------------------------------------------------
(* Whatever sockets, peers and sessions do: a socket that was accepted is in the
   list of the session it named and in no other, is served by nobody, and is never
   taken off again, nor when its peer or the session is gone; and once its handler
   is over its peer is gone. *)
SocketsAreDropped == \A s \in AgentSockets :
    /\ {i \in AgentSessionIds : s \in listed[i]} =
          IF handler[s].does \in {"closing", "gone"} THEN {handler[s].session} ELSE {}
    /\ handler[s].does \in {"gone", "refused"} => s \notin peers
=============================================================================
