----------------------------- MODULE MessageBus -----------------------------
(***************************************************************************)
(* The message bus of the agents (orchestration/message_bus.py): messages  *)
(* go through an asyncio.PriorityQueue to a delivery loop, which resolves  *)
(* the future of a waiting request or awaits the matching handlers one by  *)
(* one; requests wait under a timeout.  Queue entries are pairs (255 -     *)
(* priority, message) and messages have no order, so comparing two entries *)
(* of one priority raises, inside heapq.  The heap is modelled for at most *)
(* three entries, where every sift compares once; the order of handlers,   *)
(* recipients and observers are left out, and what expires is chosen.      *)
(***************************************************************************)
EXTENDS Naturals, Sequences, FiniteSets

CONSTANTS
    Subs,         \* the subscriptions that may be made
    Wild,         \* those whose topic pattern is "*"; the others name "task.x"
    Requesters,   \* the callers of request(), each with its correlation id
    NoRequest,    \* a message without correlation id
    MaxMessages,  \* bound: messages published
    MaxStops      \* bound: calls of stop()

ASSUME BusAssumption ==
    /\ Wild \subseteq Subs
    /\ NoRequest \notin Requesters
    /\ {MaxMessages, MaxStops} \subseteq Nat

QueueBound == 3

VARIABLES
    msgs,      \* history: the messages published, in order
    queue,     \* _queue: the heap, an array of indices of msgs
    subs,      \* _subscriptions
    stats,     \* the topics that have an entry in _delivery_stats
    pending,   \* _pending: the correlation ids waited for
    req,       \* what each request() is doing
    running,   \* _running
    loop,      \* the delivery task
    current,   \* the message its handlers are awaited for, or 0
    todo,      \* the handlers of that message that are still to run
    dead,      \* _dead_letter
    handled,   \* history: the pairs <<message, subscription>> handled
    stops

busVars == <<msgs, queue, subs, stats, pending, req, running, loop, current,
             todo, dead, handled, stops>>

(* A request that nothing will be returned from any more. *)
GivenUp == {"expiring", "timeout", "keyerror", "raised", "cancelled"}

RequestState == {"idle", "waiting", "set", "answered"} \cup GivenUp

Topics == {"task", "result"}
Priorities == {"normal", "high"}

BusTypeOK ==
    /\ msgs \in Seq([topic : Topics, prio : Priorities,
                     corr : Requesters \cup {NoRequest}])
    /\ Len(msgs) <= MaxMessages
    /\ queue \in Seq(1..Len(msgs))
    /\ Len(queue) <= QueueBound
    /\ subs \subseteq Subs
    /\ stats \subseteq Topics \cup {"*"}
    /\ pending \subseteq Requesters
    /\ req \in [Requesters -> RequestState]
    /\ running \in BOOLEAN
    /\ loop \in {"off", "idle", "handling", "dead"}
    /\ current \in 0..Len(msgs)
    /\ todo \subseteq Subs
    /\ loop = "handling" <=> current # 0
    /\ loop = "handling" <=> todo # {}
    /\ dead \subseteq 1..Len(msgs)
    /\ handled \subseteq (1..Len(msgs)) \X Subs
    /\ stops \in 0..MaxStops

BusInit ==
    /\ msgs = <<>>
    /\ queue = <<>>
    /\ subs = {}
    /\ stats = {}
    /\ pending = {}
    /\ req = [r \in Requesters |-> "idle"]
    /\ running = FALSE
    /\ loop = "off"
    /\ current = 0
    /\ todo = {}
    /\ dead = {}
    /\ handled = {}
    /\ stops = 0

-----------------------------------------------------------------------------
(* The heap.                                                               *)

(* Entry a goes before entry b; entries of one priority cannot be compared. *)
Before(all, a, b) == all[a].prio = "high" /\ all[b].prio = "normal"
Tied(all, a, b) == all[a].prio = all[b].prio

(* heappush compares the new entry with its parent, the root.  When that
   raises, the entry has already been appended. *)
PushRaises(all, m) == queue # <<>> /\ Tied(all, m, queue[1])

Pushed(all, m) ==
    IF queue # <<>> /\ Before(all, m, queue[1])
    THEN <<m>> \o Tail(queue) \o <<queue[1]>>
    ELSE Append(queue, m)

(* heappop of three entries compares the two that remain.  When that raises,
   the root is gone from the heap and from the caller. *)
PopRaises == Len(queue) = 3 /\ Tied(msgs, queue[2], queue[3])

Popped ==
    IF Len(queue) = 3 /\ Before(msgs, queue[3], queue[2])
    THEN <<queue[3], queue[2]>>
    ELSE Tail(queue)

-----------------------------------------------------------------------------
(* Subscribing and publishing.                                             *)

Pattern(s) == IF s \in Wild THEN "*" ELSE "task"

Matches(s, topic) == s \in Wild \/ Pattern(s) = topic

(* subscribe: the statistics get an entry for the pattern. *)
Subscribe(s) ==
    /\ s \notin subs
    /\ subs' = subs \cup {s}
    /\ stats' = stats \cup {Pattern(s)}
    /\ UNCHANGED <<msgs, queue, pending, req, running, loop, current, todo,
                   dead, handled, stops>>

(* unsubscribe: a delivery under way keeps its list of handlers. *)
Unsubscribe(s) ==
    /\ s \in subs
    /\ subs' = subs \ {s}
    /\ UNCHANGED <<msgs, queue, stats, pending, req, running, loop, current,
                   todo, dead, handled, stops>>

Put(message) ==
    /\ Len(msgs) < MaxMessages
    /\ Len(queue) < QueueBound
    /\ msgs' = Append(msgs, message)
    /\ queue' = Pushed(msgs', Len(msgs'))

(* publish, which may raise although the message has been queued. *)
Publish ==
    /\ Put([topic |-> "task", prio |-> "normal", corr |-> NoRequest])
    /\ UNCHANGED <<subs, stats, pending, req, running, loop, current, todo,
                   dead, handled, stops>>

(* request, up to its await: the correlation id is remembered first. *)
Request(r) ==
    /\ req[r] = "idle"
    /\ Put([topic |-> "task", prio |-> "high", corr |-> r])
    /\ pending' = pending \cup {r}
    /\ req' = [req EXCEPT ![r] =
                 IF PushRaises(msgs', Len(msgs')) THEN "raised" ELSE "waiting"]
    /\ UNCHANGED <<subs, stats, running, loop, current, todo, dead, handled,
                   stops>>

(* respond, by whoever was handed the request. *)
Respond(r) ==
    /\ \E m \in 1..Len(msgs), s \in Subs :
          <<m, s>> \in handled /\ msgs[m].corr = r /\ msgs[m].topic = "task"
    /\ Put([topic |-> "result", prio |-> "high", corr |-> r])
    /\ UNCHANGED <<subs, stats, pending, req, running, loop, current, todo,
                   dead, handled, stops>>

(* Wrong: a request waits for its response without a limit. *)
NeverExpires(r) == FALSE /\ UNCHANGED busVars

(* The timeout of wait_for cancels the future; the request's task runs
   later, so the bus may still meet the cancelled future. *)
Expire(r) ==
    /\ req[r] \in {"waiting", "set"}
    /\ req' = [req EXCEPT ![r] = "expiring"]
    /\ UNCHANGED <<msgs, queue, subs, stats, pending, running, loop, current,
                   todo, dead, handled, stops>>

(* Wrong: a request that timed out stays in _pending. *)
ResumeForgetful(r) ==
    /\ req[r] \in {"set", "expiring"}
    /\ req' = [req EXCEPT ![r] = IF @ = "set" THEN "answered" ELSE "timeout"]
    /\ UNCHANGED <<msgs, queue, subs, stats, pending, running, loop, current,
                   todo, dead, handled, stops>>

(* The request's task runs: it returns the message, or deletes its entry in
   _pending, which the delivery may have taken away. *)
Resume(r) ==
    /\ \/ /\ req[r] = "set"
          /\ req' = [req EXCEPT ![r] = "answered"]
          /\ UNCHANGED pending
       \/ /\ req[r] = "expiring"
          /\ req' = [req EXCEPT ![r] =
                       IF r \in pending THEN "timeout" ELSE "keyerror"]
          /\ pending' = pending \ {r}
    /\ UNCHANGED <<msgs, queue, subs, stats, running, loop, current, todo,
                   dead, handled, stops>>

(* The task that awaits request() is cancelled: CancelledError is no
   TimeoutError, so the entry in _pending stays. *)
Cancel(r) ==
    /\ req[r] \in {"waiting", "set", "expiring"}
    /\ req' = [req EXCEPT ![r] = "cancelled"]
    /\ UNCHANGED <<msgs, queue, subs, stats, pending, running, loop, current,
                   todo, dead, handled, stops>>

-----------------------------------------------------------------------------
(* The delivery loop.                                                      *)

Start ==
    /\ ~running
    /\ running' = TRUE
    /\ loop' = "idle"
    /\ UNCHANGED <<msgs, queue, subs, stats, pending, req, current, todo, dead,
                   handled, stops>>

(* Wrong: what the loop was doing survives its cancellation. *)
StopOnly ==
    /\ running
    /\ stops < MaxStops
    /\ stops' = stops + 1
    /\ running' = FALSE
    /\ loop' = "off"
    /\ UNCHANGED <<msgs, queue, subs, stats, pending, req, current, todo, dead,
                   handled>>

(* stop cancels the task wherever it waits; of a task that died it passes
   the exception on, after it has set _running. *)
Stop ==
    /\ running
    /\ stops < MaxStops
    /\ stops' = stops + 1
    /\ running' = FALSE
    /\ loop' = "off"
    /\ current' = 0
    /\ todo' = {}
    /\ UNCHANGED <<msgs, queue, subs, stats, pending, req, dead, handled>>

(* Wrong: the loop treats an exception of get() like its timeout. *)
GetIgnored ==
    /\ loop = "idle"
    /\ PopRaises
    /\ queue' = Tail(queue)
    /\ UNCHANGED <<msgs, subs, stats, pending, req, running, loop, current,
                   todo, dead, handled, stops>>

(* get() raises: the loop only catches its timeout, so its task ends. *)
GetRaises ==
    /\ loop = "idle"
    /\ PopRaises
    /\ queue' = Tail(queue)
    /\ loop' = "dead"
    /\ UNCHANGED <<msgs, subs, stats, pending, req, running, current, todo,
                   dead, handled, stops>>

Get(m) ==
    /\ loop = "idle"
    /\ queue # <<>>
    /\ ~PopRaises
    /\ m = queue[1]
    /\ queue' = Popped

(* The message waited longer than its ttl. *)
GetExpired(m) ==
    /\ Get(m)
    /\ dead' = dead \cup {m}
    /\ UNCHANGED <<msgs, subs, stats, pending, req, running, loop, current,
                   todo, handled, stops>>

(* _deliver, a correlation id that is waited for: the future gets this
   message, whatever it is, unless it is cancelled. *)
Answer(m) ==
    /\ Get(m)
    /\ msgs[m].corr \in pending
    /\ pending' = pending \ {msgs[m].corr}
    /\ req' = [req EXCEPT ![msgs[m].corr] = IF @ = "waiting" THEN "set" ELSE @]
    /\ UNCHANGED <<msgs, subs, stats, running, loop, current, todo, dead,
                   handled, stops>>

(* _deliver, otherwise: the matching handlers are called, if any. *)
Deliver(m) ==
    LET matching == {s \in subs : Matches(s, msgs[m].topic)}
    IN  /\ Get(m)
        /\ msgs[m].corr \notin pending
        /\ IF matching = {}
           THEN stats' = stats \cup {msgs[m].topic}
                /\ UNCHANGED <<loop, current, todo>>
           ELSE /\ loop' = "handling"
                /\ current' = m
                /\ todo' = matching
                /\ UNCHANGED stats
        /\ UNCHANGED <<msgs, subs, pending, req, running, dead, handled, stops>>

(* A handler returns or raises; then its call is counted under the topic,
   which raises when only patterns have statistics: the other handlers are
   not called and the message becomes a dead letter. *)
HandlerEnds(s) ==
    /\ loop = "handling"
    /\ s \in todo
    /\ handled' = handled \cup {<<current, s>>}
    /\ IF msgs[current].topic \in stats
       THEN todo' = todo \ {s} /\ UNCHANGED dead
       ELSE todo' = {} /\ dead' = dead \cup {current}
    /\ loop' = IF todo' = {} THEN "idle" ELSE "handling"
    /\ current' = IF todo' = {} THEN 0 ELSE current
    /\ UNCHANGED <<msgs, queue, subs, stats, pending, req, running, stops>>

-----------------------------------------------------------------------------
BusNext ==
    \/ Publish \/ Start \/ Stop \/ GetRaises
    \/ \E s \in Subs : Subscribe(s) \/ Unsubscribe(s) \/ HandlerEnds(s)
    \/ \E r \in Requesters : Request(r) \/ Respond(r) \/ Expire(r) \/ Resume(r)
                           \/ Cancel(r)
    \/ \E m \in 1..Len(msgs) : GetExpired(m) \/ Answer(m) \/ Deliver(m)

(* The event loop runs the timer and the task of each request. *)
BusFairness == \A r \in Requesters :
    WF_busVars(Expire(r)) /\ WF_busVars(Resume(r))

BusSpec == BusInit /\ [][BusNext]_busVars /\ BusFairness

-----------------------------------------------------------------------------
(* Properties.                                                             *)

InBus == {queue[i] : i \in 1..Len(queue)} \cup ({current} \ {0})

(* How a message leaves the bus while the loop goes on: as a dead letter; as
   the result of the request that waits under its correlation id; handed to its
   handlers; without any handler; or, popped for a request that has given up
   (its future is done, or nobody awaits it), thrown away. *)
Accounted(m) ==
    \/ m \in dead' \ dead
    \/ /\ msgs[m].corr \in pending \ pending'
       /\ \/ req[msgs[m].corr] = "waiting" /\ req'[msgs[m].corr] = "set"
          \/ req[msgs[m].corr] \in GivenUp
    \/ m = current /\ todo \subseteq {s \in Subs : <<m, s>> \in handled'}
    \/ m # current /\ {s \in subs : Matches(s, msgs[m].topic)} = {}

(* A message is lost in two ways only: with the delivery loop, which ends in
   that very step, or as the late message of a request that was cancelled, timed
   out or raised, which _deliver throws away while the loop goes on.  Whatever
   get(), handlers and stop() raise, no other message disappears. *)
NoSilentLoss == [][\A m \in InBus \ InBus' :
    Accounted(m) \/ loop' \in {"dead", "off"}]_busVars

(* A handler has run, or runs, for message m. *)
Handed(m) == m = current \/ \E s \in Subs : <<m, s>> \in handled

(* A dead letter reached one handler at most, and no handler still works on
   it: handing it in again repeats at most one call.  _pending holds requests
   that wait, and leaks those that were cancelled or whose publish() raised; one
   that was answered or timed out never takes a later message.  And a request's
   own message resolves its future, so what a handler is handed, and may respond
   to, is only ever a request that has given up. *)
NothingStray ==
    /\ \A m \in dead :
          m \notin InBus /\ Cardinality({s \in Subs : <<m, s>> \in handled}) <= 1
    /\ \A r \in pending : req[r] \in {"waiting", "expiring", "raised", "cancelled"}
    /\ \A m \in 1..Len(msgs) : Handed(m) /\ msgs[m].corr # NoRequest =>
          req[msgs[m].corr] \in GivenUp

(* request() ends: by a message, its timeout or an exception, or with the task
   that awaits it, even if the loop is stopped or dead. *)
RequestsEnd == \A r \in Requesters :
    req[r] = "waiting" ~>
        req[r] \in {"answered", "timeout", "keyerror", "cancelled"}

(* Claim of the repository ("At-least-once delivery (messages queued until
   ACK)"): no message is lost that anyone still waits for. *)
AtLeastOnce == [][\A m \in InBus \ InBus' : Accounted(m)]_busVars
=============================================================================
