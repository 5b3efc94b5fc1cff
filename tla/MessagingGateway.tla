-------------------------- MODULE MessagingGateway --------------------------
(***************************************************************************)
(* The gateway to chat platforms (gateway/messaging_gateway.py): a table   *)
(* of handlers with a "connected" flag each, and calls that await a        *)
(* handler and write the flag afterwards, while other calls replace the    *)
(* entry or take the connection down.  A handler is external: it connects  *)
(* or raises, and its connection may break at any time.                    *)
(***************************************************************************)
EXTENDS Naturals, Sequences, FiniteSets

CONSTANTS
    Platforms,
    GatewayCallers, \* tasks that call the gateway
    MaxHandlers,    \* bound: handlers ever registered
    MaxGatewayCalls \* bound: calls made

ASSUME GatewayAssumption == MaxHandlers \in Nat /\ MaxGatewayCalls \in Nat

VARIABLES
    gateway,    \* platforms: the handler and the flag of each, in order
    made,       \* handlers registered so far; they are numbered
    online,     \* handlers whose connection is up
    visits,     \* what each caller awaits, and the platforms still to visit
    served,     \* calls made so far
    gatewayOn,  \* running
    unsettled   \* history: platforms disturbed by others than these calls

gatewayVars == <<gateway, made, online, visits, served, gatewayOn, unsettled>>

Handlers == 1..MaxHandlers
NoVisit == [call |-> "none", what |-> "none", platform |-> "none",
            handler |-> 0, rest |-> <<>>]

Registered == {gateway[k].platform : k \in DOMAIN gateway}
Slot(p) == CHOOSE k \in DOMAIN gateway : gateway[k].platform = p
Flag(p) == \E k \in DOMAIN gateway : gateway[k].platform = p /\ gateway[k].connected
HandlerOf(p) == gateway[Slot(p)].handler
Flagged(p, value) == [gateway EXCEPT ![Slot(p)].connected = value]
Order == [k \in DOMAIN gateway |-> gateway[k].platform]

GatewayTypeOK ==
    /\ \A k \in DOMAIN gateway :
          /\ gateway[k].platform \in Platforms
          /\ gateway[k].handler \in 1..made
          /\ gateway[k].connected \in BOOLEAN
    /\ Cardinality(Registered) = Len(gateway)
    /\ online \subseteq 1..made
    /\ made \in 0..MaxHandlers
    /\ \A c \in GatewayCallers :
          /\ visits[c].call \in {"none", "one", "start", "stop", "broadcast"}
          /\ visits[c].what \in {"none", "connect", "disconnect", "reconnect", "send"}
          /\ visits[c].handler \in 0..made
    /\ unsettled \subseteq Platforms

GatewayInit ==
    /\ gateway = <<>>
    /\ made = 0
    /\ online = {}
    /\ visits = [c \in GatewayCallers |-> NoVisit]
    /\ served = 0
    /\ gatewayOn = FALSE
    /\ unsettled = {}

(* register_platform: an entry that is there is replaced by one that is not
   connected, and nobody takes its handler's connection down. *)
RegisterPlatform(p) ==
    /\ made < MaxHandlers
    /\ made' = made + 1
    /\ LET entry == [platform |-> p, handler |-> made + 1, connected |-> FALSE]
       IN gateway' = IF p \in Registered THEN [gateway EXCEPT ![Slot(p)] = entry]
                     ELSE Append(gateway, entry)
    /\ unsettled' = IF \E c \in GatewayCallers : visits[c].platform = p
                    THEN unsettled \cup {p} ELSE unsettled
    /\ UNCHANGED <<online, visits, served, gatewayOn>>

(* The handler call a visit to platform p awaits first: send_message connects
   a platform that is not connected. *)
VisitTo(call, what, p, rest) ==
    [call |-> call, platform |-> p, handler |-> HandlerOf(p), rest |-> rest,
     what |-> IF what = "send" /\ ~Flag(p) THEN "reconnect" ELSE what]

(* connect, disconnect, send_message of one platform; unknown ones refuse. *)
CallPlatform(c, what, p) ==
    /\ visits[c] = NoVisit /\ served < MaxGatewayCalls
    /\ p \in Registered
    /\ visits' = [visits EXCEPT ![c] = VisitTo("one", what, p, <<>>)]
    /\ served' = served + 1
    /\ UNCHANGED <<gateway, made, online, gatewayOn, unsettled>>

(* start, stop and broadcast visit one platform after the other. *)
CallAll(c, call) ==
    /\ visits[c] = NoVisit /\ served < MaxGatewayCalls
    /\ served' = served + 1
    /\ gatewayOn' = CASE call = "start" -> TRUE [] call = "stop" -> FALSE
                      [] OTHER -> gatewayOn
    /\ visits' = IF gateway = <<>> THEN visits
                 ELSE [visits EXCEPT ![c] =
                    VisitTo(call, CASE call = "start" -> "connect"
                                    [] call = "stop" -> "disconnect" [] OTHER -> "send",
                            Head(Order), Tail(Order))]
    /\ UNCHANGED <<gateway, made, online, unsettled>>

(* Where the call of c goes on: start and stop walk the table itself, and the
   loop raises if a platform was added meanwhile; broadcast walks a copy. *)
Continue(c) ==
    LET v == visits[c]
        grown == v.call \in {"start", "stop"} /\ Len(v.rest) # Len(gateway) - Slot(v.platform)
        next == Head(v.rest)
    IN IF v.rest = <<>> \/ grown THEN NoVisit
       ELSE VisitTo(v.call, IF v.call = "broadcast" THEN "send" ELSE v.what,
                    next, Tail(v.rest))

(* The handler's connect, disconnect or send returned, or raised, and the
   call resumes.  The flag goes into the entry that is there by now. *)
ConnectReturns(c, ok) ==
    /\ visits[c].what \in {"connect", "reconnect"}
    /\ online' = IF ok THEN online \cup {visits[c].handler} ELSE online
    /\ gateway' = IF ok THEN Flagged(visits[c].platform, TRUE) ELSE gateway
    /\ visits' = [visits EXCEPT ![c] =
          IF visits[c].what = "connect" THEN Continue(c)
          ELSE [@ EXCEPT !.what = "send", !.handler = HandlerOf(visits[c].platform)]]
    /\ UNCHANGED <<made, served, gatewayOn, unsettled>>

DisconnectReturns(c, ok) ==
    /\ visits[c].what = "disconnect"
    /\ online' = IF ok THEN online \ {visits[c].handler} ELSE online
    /\ gateway' = IF ok THEN Flagged(visits[c].platform, FALSE) ELSE gateway
    /\ visits' = [visits EXCEPT ![c] = Continue(c)]
    /\ UNCHANGED <<made, served, gatewayOn, unsettled>>

SendReturns(c) ==
    /\ visits[c].what = "send"
    /\ visits' = [visits EXCEPT ![c] = Continue(c)]
    /\ UNCHANGED <<gateway, made, online, served, gatewayOn, unsettled>>

(* A connection breaks; a disconnect that raised may have ended it, too. *)
ConnectionBreaks(p) ==
    /\ p \in Registered /\ HandlerOf(p) \in online
    /\ online' = online \ {HandlerOf(p)}
    /\ unsettled' = unsettled \cup {p}
    /\ UNCHANGED <<gateway, made, visits, served, gatewayOn>>

GatewayNext ==
    \/ \E p \in Platforms : RegisterPlatform(p) \/ ConnectionBreaks(p)
    \/ \E c \in GatewayCallers :
          \/ \E p \in Platforms, w \in {"connect", "disconnect", "send"} :
                CallPlatform(c, w, p)
          \/ \E call \in {"start", "stop", "broadcast"} : CallAll(c, call)
          \/ \E ok \in BOOLEAN : ConnectReturns(c, ok) \/ DisconnectReturns(c, ok)
          \/ SendReturns(c)

-----------------------------------------------------------------------------

\* The gateway's table says of a platform that it is connected exactly when
\* its handler is, whatever calls overlap and fail: only a connection that
\* broke by itself, or an entry replaced under a call, makes it wrong.
GatewayIsHonest ==
    \A p \in Registered \ unsettled : Flag(p) <=> HandlerOf(p) \in online

=============================================================================
