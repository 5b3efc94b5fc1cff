----------------------------- MODULE EventsAndEvidence -----------------------
(***************************************************************************)
(* What a run leaves behind while it runs: the events it publishes and the *)
(* evidence it records. The two parts have no state in common.             *)
(***************************************************************************)
EXTENDS Integers, Sequences, FiniteSets

-----------------------------------------------------------------------------
(***************************************************************************)
(* The event bus (core/event_bus.py) for one event type.  publish() calls  *)
(* the handlers one after the other while it goes over the list itself; a  *)
(* handler may subscribe, unsubscribe, clear and publish in its turn, and  *)
(* what it raises is logged.                                               *)
(***************************************************************************)

CONSTANTS
    Subscribers,    \* handlers
    MaxNested,      \* bound: publishes inside one another
    MaxChanges      \* bound: changes of the list while something is published

ASSUME BusAssumption == MaxNested \in Nat \ {0} /\ MaxChanges \in Nat

VARIABLES
    handlers,       \* _handlers of the type
    publishing,     \* the calls of publish(), innermost last
    changes         \* changes made while something was published

busVars == <<handlers, publishing, changes>>

Elements(list) == {list[i] : i \in DOMAIN list}

(* A call of publish(): the list it goes over, which is _handlers until that
   is replaced; how far it is; and, as history, who was called how often, who
   has been subscribed all along, and whether the list was shortened. *)
Frames == [live : BOOLEAN, list : Seq(Subscribers), next : Nat,
           called : [Subscribers -> Nat], stayed : SUBSET Subscribers, shortened : BOOLEAN]
ListOf(f) == IF f.live THEN handlers ELSE f.list

BusTypeOK ==
    /\ handlers \in Seq(Subscribers)
    /\ Cardinality(Elements(handlers)) = Len(handlers)
    /\ publishing \in Seq(Frames) /\ Len(publishing) <= MaxNested
    /\ changes \in 0..MaxChanges

BusInit ==
    /\ handlers \in {<<>>} \cup {<<h>> : h \in Subscribers}
    /\ publishing = <<>> /\ changes = 0

(* The bound: changes count while something is published. *)
Changes ==
    /\ changes < MaxChanges
    /\ changes' = IF publishing = <<>> THEN changes ELSE changes + 1

Subscribe(h) ==
    /\ h \notin Elements(handlers) /\ Changes
    /\ handlers' = Append(handlers, h)
    /\ UNCHANGED publishing

(* list.remove shifts what follows. *)
Removed(k, list) ==
    [j \in 1..(Len(list) - 1) |-> IF j < k THEN list[j] ELSE list[j + 1]]

Unsubscribe(h) ==
    /\ Changes
    /\ \E k \in DOMAIN handlers : handlers[k] = h /\ handlers' = Removed(k, handlers)
    /\ publishing' = [i \in DOMAIN publishing |->
          [publishing[i] EXCEPT !.stayed = @ \ {h},
                                !.shortened = @ \/ publishing[i].live]]

(* clear_handlers takes a new list; a call that goes on keeps the old one. *)
ClearHandlers ==
    /\ handlers # <<>> /\ Changes
    /\ handlers' = <<>>
    /\ publishing' = [i \in DOMAIN publishing |->
          [publishing[i] EXCEPT !.live = FALSE, !.list = ListOf(publishing[i]), !.stayed = {}]]

Publish ==
    /\ Len(publishing) < MaxNested
    /\ publishing' = Append(publishing,
          [live |-> TRUE, list |-> <<>>, next |-> 1, called |-> [h \in Subscribers |-> 0],
           stayed |-> Elements(handlers), shortened |-> FALSE])
    /\ UNCHANGED <<handlers, changes>>

(* The innermost call goes on to its next handler. *)
CallHandler ==
    /\ publishing # <<>>
    /\ LET f == publishing[Len(publishing)]
       IN  /\ f.next <= Len(ListOf(f))
           /\ publishing' = [publishing EXCEPT ![Len(publishing)] =
                 [f EXCEPT !.next = @ + 1, !.called[ListOf(f)[f.next]] = @ + 1]]
    /\ UNCHANGED <<handlers, changes>>

Over(f) == f.next > Len(ListOf(f))

PublishReturns ==
    /\ publishing # <<>> /\ Over(publishing[Len(publishing)])
    /\ publishing' = SubSeq(publishing, 1, Len(publishing) - 1)
    /\ changes' = IF Len(publishing) = 1 THEN 0 ELSE changes
    /\ UNCHANGED handlers

BusNext ==
    \/ \E h \in Subscribers : Subscribe(h) \/ Unsubscribe(h)
    \/ ClearHandlers \/ Publish \/ CallHandler \/ PublishReturns

-----------------------------------------------------------------------------
(* Properties.                                                             *)

(* An event reaches everyone who is subscribed from its publication to its
   end, once, however the handlers publish and change the list meanwhile,
   unless one of them unsubscribed: then the loop skips the one that moved up
   (publish's "to all subscribers" does not hold). *)
EventsReachAll == \A i \in DOMAIN publishing :
    LET f == publishing[i]
    IN  Over(f) /\ ~f.shortened => \A h \in f.stayed : f.called[h] = 1

-----------------------------------------------------------------------------
(***************************************************************************)
(* The evidence ledger (core/evidence.py): records in memory, one file for  *)
(* each, and two ledgers of one id, in one process or in two, that share   *)
(* the directory.  Writing a file may fail and is logged only.             *)
(***************************************************************************)

CONSTANTS
    Ledgers,        \* EvidenceLedger objects of one ledger_id
    Evidence        \* records

VARIABLES
    ledger,         \* _evidence of each object
    evidenceFiles,  \* what the file of each record holds
    latestMark,     \* history: what was last done to each record
    behind,         \* history: object and record whose last change was another's
    filesBehind     \* history: records whose last change did not reach the file

evidenceVars == <<ledger, evidenceFiles, latestMark, behind, filesBehind>>

Marks == {"none", "recorded", "validated"}

EvidenceTypeOK ==
    /\ ledger \in [Ledgers -> [Evidence -> Marks]]
    /\ evidenceFiles \in [Evidence -> Marks \cup {"torn"}]
    /\ latestMark \in [Evidence -> Marks]
    /\ behind \subseteq Ledgers \X Evidence /\ filesBehind \subseteq Evidence

EvidenceInit ==
    /\ ledger = [l \in Ledgers |-> [e \in Evidence |-> "none"]]
    /\ evidenceFiles = [e \in Evidence |-> "none"]
    /\ latestMark = [e \in Evidence |-> "none"]
    /\ behind = {}
    /\ filesBehind = {}

(* _persist_evidence: the file is written, or opened and not written, or the
   write fails before. *)
Persisted(e, mark) ==
    \/ evidenceFiles' = [evidenceFiles EXCEPT ![e] = mark] /\ filesBehind' = filesBehind \ {e}
    \/ /\ evidenceFiles' \in {evidenceFiles, [evidenceFiles EXCEPT ![e] = "torn"]}
       /\ filesBehind' = filesBehind \cup {e}

(* record, validate and invalidate change the memory first. *)
SetMark(l, e, mark) ==
    /\ ledger' = [ledger EXCEPT ![l][e] = mark]
    /\ latestMark' = [latestMark EXCEPT ![e] = mark]
    /\ behind' = (behind \ {<<l, e>>}) \cup ((Ledgers \ {l}) \X {e})
    /\ Persisted(e, mark)

Record(l, e) ==
    /\ \A m \in Ledgers : ledger[m][e] = "none"
    /\ evidenceFiles[e] = "none"
    /\ SetMark(l, e, "recorded")

Validate(l, e) == ledger[l][e] # "none" /\ SetMark(l, e, "validated")

Invalidate(l, e) == ledger[l][e] # "none" /\ SetMark(l, e, "recorded")

(* load_all adds what the files hold and drops nothing. *)
LoadAll(l) ==
    LET loaded == {e \in Evidence : evidenceFiles[e] \in {"recorded", "validated"}}
    IN  /\ ledger' = [ledger EXCEPT ![l] = [e \in Evidence |->
              IF e \in loaded THEN evidenceFiles[e] ELSE ledger[l][e]]]
        /\ behind' = (behind \ ({l} \X loaded)) \cup ({l} \X (loaded \cap filesBehind))
        /\ UNCHANGED <<evidenceFiles, latestMark, filesBehind>>

(* clear: the memory first; the first file that cannot be removed ends it. *)
Clear(l) ==
    /\ ledger' = [ledger EXCEPT ![l] = [e \in Evidence |-> "none"]]
    /\ latestMark' = [e \in Evidence |-> "none"]
    /\ behind' = {x \in behind : x[1] # l} \cup ((Ledgers \ {l}) \X Evidence)
    /\ \E left \in SUBSET {e \in Evidence : evidenceFiles[e] # "none"} :
          /\ evidenceFiles' = [e \in Evidence |-> IF e \in left THEN evidenceFiles[e] ELSE "none"]
          /\ filesBehind' = left

EvidenceNext == \E l \in Ledgers :
    \/ \E e \in Evidence : Record(l, e) \/ Validate(l, e) \/ Invalidate(l, e)
    \/ LoadAll(l) \/ Clear(l)

-----------------------------------------------------------------------------
(* Properties.                                                             *)

(* A ledger says of a record, and its file says, what was last done to it,
   unless that was done by another object, not loaded since, or did not get
   to the file: a record that was cleared or invalidated comes back by no
   other way. *)
EvidenceIsCurrent ==
    /\ \A l \in Ledgers, e \in Evidence :
          <<l, e>> \notin behind => ledger[l][e] = latestMark[e]
    /\ \A e \in Evidence \ filesBehind : evidenceFiles[e] = latestMark[e]

=============================================================================
