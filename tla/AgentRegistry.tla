---------------------------- MODULE AgentRegistry ----------------------------
(***************************************************************************)
(* The registry of agents (orchestration/agent_registry.py).  Every update *)
(* holds one asyncio.Lock and, but for deregister(), awaits nothing while  *)
(* it does, so it is one step; the clean-up of stale agents reads without  *)
(* the lock and leaves the removals to tasks that run later.  deregister() *)
(* of an agent with children calls itself under the lock, which is not     *)
(* reentrant: that call never returns and no update follows it.  Names,    *)
(* roles, capabilities, counters and subprocesses are left out.            *)
(***************************************************************************)
EXTENDS Naturals, Sequences, SequencesExt

CONSTANTS
    Agents,      \* the agent ids
    None,        \* no agent
    MaxJoins,    \* bound: registrations
    MaxCleanups  \* bound: removal tasks waiting per agent

ASSUME RegistryAssumption ==
    /\ None \notin Agents
    /\ {MaxJoins, MaxCleanups} \subseteq Nat

VARIABLES
    agents,    \* the keys of _agents
    parent,    \* AgentInfo.parent_id
    children,  \* AgentInfo.child_ids
    stale,     \* the agents whose last_heartbeat is older than the ttl
    cleanups,  \* the tasks cleanup_stale_agents has created
    hung,      \* the agent whose deregister() holds the lock for ever
    linked,    \* history: agents registered under a registered parent
    again,     \* history: ids registered more than once
    known,     \* history: ids ever registered
    joins

registryVars == <<agents, parent, children, stale, cleanups, hung, linked,
                  again, known, joins>>

RegistryTypeOK ==
    /\ agents \subseteq Agents
    /\ parent \in [Agents -> Agents \cup {None}]
    /\ children \in [Agents -> Seq(Agents)]
    /\ stale \subseteq Agents
    /\ cleanups \in [Agents -> 0..MaxCleanups]
    /\ hung \in Agents \cup {None}
    /\ linked \subseteq Agents
    /\ again \subseteq Agents
    /\ known \subseteq Agents
    /\ joins \in 0..MaxJoins

RegistryInit ==
    /\ agents = {}
    /\ parent = [a \in Agents |-> None]
    /\ children = [a \in Agents |-> <<>>]
    /\ stale = {}
    /\ cleanups = [a \in Agents |-> 0]
    /\ hung = None
    /\ linked = {}
    /\ again = {}
    /\ known = {}
    /\ joins = 0

LockFree == hung = None

(* register, and register_with_id, which may name a known id: its entry is
   replaced, its children are forgotten, its old parent still lists it. *)
Register(a, p) ==
    /\ LockFree
    /\ p # a
    /\ joins < MaxJoins
    /\ joins' = joins + 1
    /\ known' = known \cup {a}
    /\ agents' = agents \cup {a}
    /\ parent' = [parent EXCEPT ![a] = p]
    /\ children' = [c \in Agents |->
          IF c = a THEN <<>>
          ELSE IF c = p /\ p \in agents THEN Append(children[c], a)
          ELSE children[c]]
    /\ stale' = stale \ {a}
    /\ linked' = IF p \in agents THEN linked \cup {a} ELSE linked \ {a}
    /\ again' = IF a \in known THEN again \cup {a} ELSE again
    /\ UNCHANGED <<cleanups, hung>>

(* Wrong: the parent keeps its reference to the agent that left. *)
KeepListed(a) == children

(* The parent's list without the first mention of the agent. *)
Unlisted(a) ==
    LET p == parent[a]
    IN  IF p \in agents
        THEN [children EXCEPT ![p] = RemoveFirst(@, a)]
        ELSE children

Leave(a) ==
    /\ children' = Unlisted(a)
    /\ IF children'[a] = <<>>
       THEN agents' = agents \ {a} /\ UNCHANGED hung
       ELSE hung' = a /\ UNCHANGED agents

Deregister(a) ==
    /\ LockFree
    /\ a \in agents
    /\ Leave(a)
    /\ UNCHANGED <<parent, stale, cleanups, linked, again, known, joins>>

Heartbeat(a) ==
    /\ LockFree
    /\ a \in agents
    /\ stale' = stale \ {a}
    /\ UNCHANGED <<agents, parent, children, cleanups, hung, linked, again,
                   known, joins>>

(* The agent has not sent a heartbeat for the ttl. *)
TimePasses(a) ==
    /\ a \in agents
    /\ stale' = stale \cup {a}
    /\ UNCHANGED <<agents, parent, children, cleanups, hung, linked, again,
                   known, joins>>

(* cleanup_stale_agents: a removal task for each stale agent without
   children. *)
Cleanup ==
    LET chosen == {a \in agents \cap stale : children[a] = <<>>}
    IN  /\ chosen # {}
        /\ \A a \in chosen : cleanups[a] < MaxCleanups
        /\ cleanups' = [a \in Agents |->
              IF a \in chosen THEN cleanups[a] + 1 ELSE cleanups[a]]
        /\ UNCHANGED <<agents, parent, children, stale, hung, linked, again,
                       known, joins>>

(* Such a task runs, whatever has happened to the agent since. *)
CleanupTask(a) ==
    /\ LockFree
    /\ cleanups[a] > 0
    /\ cleanups' = [cleanups EXCEPT ![a] = @ - 1]
    /\ IF a \in agents THEN Leave(a) ELSE UNCHANGED <<agents, children, hung>>
    /\ UNCHANGED <<parent, stale, linked, again, known, joins>>

RegistryNext ==
    \/ Cleanup
    \/ \E a \in Agents :
          \/ \E p \in Agents \cup {None} : Register(a, p)
          \/ Deregister(a) \/ Heartbeat(a) \/ TimePasses(a) \/ CleanupTask(a)

RegistrySpec == RegistryInit /\ [][RegistryNext]_registryVars

-----------------------------------------------------------------------------
(* Properties.                                                             *)

Listed(p) == {children[p][i] : i \in 1..Len(children[p])}

(* The two directions of the tree agree, whatever removals, late clean-ups
   and new children follow each other: a listed child is registered and
   names the agent that lists it, and an agent that joined a registered
   parent still has it and is listed by it, unless its own removal hangs.
   Ids that were registered twice are left out: their lists are lost. *)
TreesAgree ==
    /\ \A p \in agents \ again : \A a \in Listed(p) \ again :
          a \in agents /\ parent[a] = p
    /\ \A a \in (agents \cap linked) \ again :
          parent[a] \notin again =>
              parent[a] \in agents /\ (a \in Listed(parent[a]) \/ hung = a)
=============================================================================
