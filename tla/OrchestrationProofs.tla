------------------------- MODULE OrchestrationProofs -------------------------
(***************************************************************************)
(* The parts of the orchestration package, each for every value of its     *)
(* constants: the tree of the registry, the edges of the task graph and    *)
(* the plans made from it, the delegation of tasks, the messages of the    *)
(* bus and the shared context; then the types of all of them together.     *)
(***************************************************************************)
EXTENDS MCOrchestration, SequenceTheorems, FiniteSetTheorems,
        WellFoundedInduction, TLAPS

-----------------------------------------------------------------------------
(* Sequences.                                                              *)

(* A set of numbers that is not empty has a least one. *)
LEMMA LeastNumber ==
    ASSUME NEW I \in SUBSET Nat, I # {}
    PROVE  Min(I) \in I /\ \A i \in I : Min(I) <= i
<1>1. PICK x \in I : \A y \in I : ~(<<y, x>> \in OpToRel(<, Nat))
  BY NatLessThanWellFounded, WFMin
<1>2. \A y \in I : x <= y
  <2> SUFFICES ASSUME NEW y \in I PROVE x <= y
    OBVIOUS
  <2>1. ~(y < x)
    BY <1>1 DEF OpToRel
  <2> QED
    BY <2>1
<1> QED
  BY <1>2 DEF Min

(* r is s without one e: the items before keep their place, the others move up. *)
OneFewer(s, e, r) == \E i \in 1..Len(s) :
    /\ s[i] = e
    /\ Len(r) = Len(s) - 1
    /\ \A j \in 1..(Len(s) - 1) : r[j] = IF j < i THEN s[j] ELSE s[j + 1]

(* No item stands in two places, those in T aside. *)
Once(s, T) == \A i, j \in 1..Len(s) : s[i] = s[j] /\ s[i] \notin T => i = j

Items(s) == {s[i] : i \in 1..Len(s)}

LEMMA RemovedFirst ==
    ASSUME NEW S, NEW s \in Seq(S), NEW e,
           NEW n \in 1..Len(s), s[n] = e
    PROVE  RemoveFirst(s, e) \in Seq(S) /\ OneFewer(s, e, RemoveFirst(s, e))
<1> DEFINE I == {j \in 1..Len(s) : s[j] = e}
           i == Min(I)
<1>1. i \in I
  <2>1. n \in I /\ I \in SUBSET Nat
    OBVIOUS
  <2>2. I # {}
    BY <2>1
  <2> QED
    BY <2>1, <2>2, LeastNumber
<1>2. RemoveFirst(s, e) = RemoveAt(s, i)
  BY DEF RemoveFirst, SelectInSeq
<1> HIDE DEF i
<1>3. i \in 1..Len(s) /\ s[i] = e /\ Len(s) \in Nat
  BY <1>1, LenProperties
<1>4. \A j \in 1..Len(s) : s[j] \in S
  BY ElementOfSeq
<1> DEFINE before == SubSeq(s, 1, i - 1)
           after == SubSeq(s, i + 1, Len(s))
<1>5. /\ before \in Seq(S) /\ Len(before) = i - 1
      /\ \A j \in 1..(i - 1) : before[j] = s[j]
  <2>1. /\ before \in Seq(S)
        /\ Len(before) = IF 1 <= i - 1 THEN i - 1 - 1 + 1 ELSE 0
        /\ \A j \in 1..(i - 1 - 1 + 1) : before[j] = s[1 + j - 1]
    BY <1>3, <1>4, SubSeqProperties
  <2> QED
    BY <2>1, <1>3
<1>6. /\ after \in Seq(S) /\ Len(after) = Len(s) - i
      /\ \A j \in 1..(Len(s) - i) : after[j] = s[i + j]
  <2>1. /\ after \in Seq(S)
        /\ Len(after) = IF i + 1 <= Len(s) THEN Len(s) - (i + 1) + 1 ELSE 0
        /\ \A j \in 1..(Len(s) - (i + 1) + 1) : after[j] = s[i + 1 + j - 1]
    BY <1>3, <1>4, SubSeqProperties
  <2> QED
    BY <2>1, <1>3
<1> HIDE DEF before, after
<1>7. /\ before \o after \in Seq(S)
      /\ Len(before \o after) = Len(s) - 1
      /\ \A j \in 1..(Len(s) - 1) : (before \o after)[j] =
            IF j <= i - 1 THEN before[j] ELSE after[j - (i - 1)]
  BY <1>3, <1>5, <1>6, ConcatProperties
<1>8. ASSUME NEW j \in 1..(Len(s) - 1)
      PROVE  (before \o after)[j] = IF j < i THEN s[j] ELSE s[j + 1]
  <2>1. CASE j < i
    BY <1>3, <1>5, <1>7, <2>1
  <2>2. CASE j >= i
    <3>1. j - (i - 1) \in 1..(Len(s) - i) /\ i + (j - (i - 1)) = j + 1
      BY <1>3, <2>2
    <3>2. after[j - (i - 1)] = s[j + 1]
      BY <3>1, <1>6
    <3> QED
      BY <1>3, <1>7, <2>2, <3>2
  <2>3. j < i \/ j >= i
    BY <1>3
  <2> QED
    BY <2>1, <2>2, <2>3
<1>9. RemoveFirst(s, e) = before \o after
  BY <1>2 DEF RemoveAt, before, after
<1> QED
  BY <1>3, <1>7, <1>8, <1>9 DEF OneFewer

(* Of the items only e may leave, and it does unless it stood in two places. *)
LEMMA OneFewerItems ==
    ASSUME NEW S, NEW s \in Seq(S), NEW e, NEW T, Once(s, T),
           NEW r \in Seq(S), OneFewer(s, e, r)
    PROVE  /\ Items(r) \subseteq Items(s)
           /\ Items(s) \ {e} \subseteq Items(r)
           /\ e \notin T => e \notin Items(r)
           /\ Once(r, T)
<1>1. PICK k \in 1..Len(s) :
         /\ s[k] = e
         /\ Len(r) = Len(s) - 1
         /\ \A j \in 1..(Len(s) - 1) : r[j] = IF j < k THEN s[j] ELSE s[j + 1]
  BY DEF OneFewer
<1>2. Len(s) \in Nat
  BY LenProperties
<1> DEFINE at(j) == IF j < k THEN j ELSE j + 1
<1>3. \A j \in 1..Len(r) : at(j) \in 1..Len(s) /\ at(j) # k /\ r[j] = s[at(j)]
  BY <1>1, <1>2
<1>4. \A i, j \in 1..Len(r) : at(i) = at(j) => i = j
  BY <1>1, <1>2
<1>5. ASSUME NEW i \in 1..Len(s), s[i] # e
      PROVE  \E j \in 1..Len(r) : r[j] = s[i]
  <2>1. i # k
    BY <1>1, <1>5
  <2>2. CASE i < k
    <3>1. i \in 1..Len(r) /\ r[i] = s[i]
      BY <1>1, <1>2, <2>2
    <3> QED
      BY <3>1
  <2>3. CASE i > k
    <3>1. i - 1 \in 1..Len(r) /\ ~(i - 1 < k) /\ (i - 1) + 1 = i
      BY <1>1, <1>2, <2>3
    <3>2. r[i - 1] = s[i]
      BY <1>1, <3>1
    <3> QED
      BY <3>1, <3>2
  <2> QED
    BY <1>2, <2>1, <2>2, <2>3
<1> HIDE DEF at
<1>6. Items(r) \subseteq Items(s)
  BY <1>3 DEF Items
<1>7. Items(s) \ {e} \subseteq Items(r)
  BY <1>5 DEF Items
<1>8. e \notin T => e \notin Items(r)
  BY <1>1, <1>3 DEF Items, Once
<1>9. Once(r, T)
  BY <1>3, <1>4 DEF Once
<1> QED
  BY <1>6, <1>7, <1>8, <1>9

LEMMA RemovedFromList ==
    ASSUME NEW S, NEW s \in Seq(S), NEW e, NEW T, Once(s, T)
    PROVE  /\ RemoveFirst(s, e) \in Seq(S)
           /\ Items(RemoveFirst(s, e)) \subseteq Items(s)
           /\ Items(s) \ {e} \subseteq Items(RemoveFirst(s, e))
           /\ e \notin T => e \notin Items(RemoveFirst(s, e))
           /\ Once(RemoveFirst(s, e), T)
<1>1. CASE \A i \in 1..Len(s) : s[i] # e
  <2>1. RemoveFirst(s, e) = s
    BY <1>1 DEF RemoveFirst
  <2>2. e \notin Items(s)
    BY <1>1 DEF Items
  <2> QED
    BY <2>1, <2>2
<1>2. ASSUME NEW n \in 1..Len(s), s[n] = e
      PROVE  RemoveFirst(s, e) \in Seq(S) /\ OneFewer(s, e, RemoveFirst(s, e))
  BY <1>2, RemovedFirst
<1>3. CASE \E n \in 1..Len(s) : s[n] = e
  BY <1>2, <1>3, OneFewerItems
<1> QED
  BY <1>1, <1>3

-----------------------------------------------------------------------------
(* The registry (AgentRegistry).                                           *)

(* No list of children that still counts mentions an agent twice, unless the
   agent registered twice. *)
ListedOnce == \A p \in agents \ again : Once(children[p], again)

RegistryInv ==
    /\ TreesAgree
    /\ ListedOnce
    /\ agents \subseteq known

(* Leaving keeps the types. *)
LEMMA LeaveTypes ==
    ASSUME RegistryTypeOK, NEW a \in agents, Leave(a)
    PROVE  /\ children' \in [Agents -> Seq(Agents)]
           /\ agents' \subseteq agents
           /\ hung' \in Agents \cup {None}
<1>1. Unlisted(a) \in [Agents -> Seq(Agents)]
  <2>1. ASSUME NEW p \in Agents PROVE RemoveFirst(children[p], a) \in Seq(Agents)
    <3>1. children[p] \in Seq(Agents)
      BY DEF RegistryTypeOK
    <3>2. CASE \A i \in 1..Len(children[p]) : children[p][i] # a
      BY <3>1, <3>2 DEF RemoveFirst
    <3>3. ASSUME NEW i \in 1..Len(children[p]), children[p][i] = a
          PROVE  RemoveFirst(children[p], a) \in Seq(Agents)
      BY <3>1, <3>3, RemovedFirst
    <3> QED
      BY <3>2, <3>3
  <2>2. children \in [Agents -> Seq(Agents)] /\ agents \subseteq Agents
    BY DEF RegistryTypeOK
  <2> QED
    BY <2>1, <2>2 DEF Unlisted
<1>2. children' = Unlisted(a)
  BY DEF Leave
<1>3. agents' \subseteq agents /\ hung' \in Agents \cup {None}
  BY DEF Leave, RegistryTypeOK
<1> QED
  BY <1>1, <1>2, <1>3

LEMMA RegistryStarts == RegistryInit => RegistryTypeOK
BY RegistryAssumption DEF RegistryInit, RegistryTypeOK

LEMMA RegistryTypesKept ==
    ASSUME RegistryTypeOK, [RegistryNext]_registryVars
    PROVE  RegistryTypeOK'
<1>1. ASSUME NEW a \in Agents, NEW p \in Agents \cup {None}, Register(a, p)
      PROVE  RegistryTypeOK'
  <2>1. children' \in [Agents -> Seq(Agents)]
    <3>1. children \in [Agents -> Seq(Agents)]
      BY DEF RegistryTypeOK
    <3>2. \A c \in Agents : Append(children[c], a) \in Seq(Agents)
      BY <3>1, AppendProperties
    <3>3. <<>> \in Seq(Agents)
      BY EmptySeq
    <3> QED
      BY <1>1, <3>1, <3>2, <3>3 DEF Register
  <2> QED
    BY <1>1, <2>1, RegistryAssumption DEF Register, RegistryTypeOK
<1>2. ASSUME NEW a \in Agents, Deregister(a)
      PROVE  RegistryTypeOK'
  <2>1. a \in agents /\ Leave(a)
    BY <1>2 DEF Deregister
  <2> QED
    BY <1>2, <2>1, LeaveTypes DEF Deregister, RegistryTypeOK
<1>3. ASSUME NEW a \in Agents, CleanupTask(a)
      PROVE  RegistryTypeOK'
  <2>1. cleanups' \in [Agents -> 0..MaxCleanups]
    BY <1>3, RegistryAssumption DEF CleanupTask, RegistryTypeOK
  <2>2. CASE a \in agents
    <3>1. Leave(a)
      BY <1>3, <2>2 DEF CleanupTask
    <3> QED
      BY <1>3, <2>1, <2>2, <3>1, LeaveTypes DEF CleanupTask, RegistryTypeOK
  <2>3. CASE a \notin agents
    BY <1>3, <2>1, <2>3 DEF CleanupTask, RegistryTypeOK
  <2> QED
    BY <2>2, <2>3
<1>4. ASSUME NEW a \in Agents, Heartbeat(a) \/ TimePasses(a)
      PROVE  RegistryTypeOK'
  BY <1>4 DEF Heartbeat, TimePasses, RegistryTypeOK
<1>5. CASE Cleanup
  <2>1. cleanups' \in [Agents -> 0..MaxCleanups]
    BY <1>5, RegistryAssumption DEF Cleanup, RegistryTypeOK
  <2> QED
    BY <1>5, <2>1 DEF Cleanup, RegistryTypeOK
<1>6. CASE UNCHANGED registryVars
  BY <1>6 DEF registryVars, RegistryTypeOK
<1> QED
  BY <1>1, <1>2, <1>3, <1>4, <1>5, <1>6 DEF RegistryNext

(* All variables of the registry keep their types. *)
THEOREM RegistryTypes == RegistrySpec => []RegistryTypeOK
BY RegistryStarts, RegistryTypesKept, PTL DEF RegistrySpec

LEMMA LeaveKeeps ==
    ASSUME RegistryTypeOK, RegistryInv, NEW a \in agents, LockFree, Leave(a),
           UNCHANGED <<parent, linked, again, known>>
    PROVE  RegistryInv'
<1>1. /\ agents \subseteq Agents
      /\ children \in [Agents -> Seq(Agents)]
      /\ hung = None /\ None \notin Agents
      /\ again \subseteq Agents
  BY RegistryAssumption DEF RegistryTypeOK, LockFree
<1>2. /\ children' = Unlisted(a)
      /\ agents' \subseteq agents
      /\ \A b \in agents : b # a => b \in agents'
      /\ a \in agents' => hung' = a
      /\ a \notin agents' => hung' = hung /\ children'[a] = <<>>
  BY DEF Leave
(* Of the lists of agents that registered once. *)
<1>3. ASSUME NEW p \in agents \ again
      PROVE  /\ Listed(p)' \subseteq Listed(p)
             /\ Listed(p) \ {a} \subseteq Listed(p)'
             /\ parent[a] = p /\ a \notin again => a \notin Listed(p)'
             /\ Once(children'[p], again)
  <2>1. Listed(p) = Items(children[p]) /\ Listed(p)' = Items(children'[p])
    BY DEF Listed, Items
  <2>2. Once(children[p], again) /\ children[p] \in Seq(Agents)
    BY <1>1 DEF RegistryInv, ListedOnce
  <2>3. CASE p = parent[a]
    <3>1. children'[p] = RemoveFirst(children[p], a)
      BY <1>1, <1>2, <2>3 DEF Unlisted
    <3> QED
      BY <2>1, <2>2, <3>1, RemovedFromList
  <2>4. CASE p # parent[a]
    <3>1. children'[p] = children[p]
      BY <1>1, <1>2, <2>4 DEF Unlisted
    <3> QED
      BY <2>1, <2>2, <2>4, <3>1
  <2> QED
    BY <2>3, <2>4
<1>4. ASSUME NEW p \in (agents \ again)', NEW b \in Listed(p)' \ again'
      PROVE  b \in agents' /\ parent'[b] = p
  <2>1. p \in agents \ again /\ b \in Listed(p) \ again
    BY <1>2, <1>3
  <2>2. b \in agents /\ parent[b] = p
    BY <2>1 DEF RegistryInv, TreesAgree
  <2>3. b # a
    BY <1>3, <1>4, <2>1, <2>2
  <2> QED
    BY <1>2, <2>2, <2>3
<1>5. ASSUME NEW b \in (agents \cap linked)' \ again', parent'[b] \notin again'
      PROVE  (parent[b] \in agents /\ (b \in Listed(parent[b]) \/ hung = b))'
  <2> DEFINE p == parent[b]
  <2>1. b \in (agents \cap linked) \ again /\ p \notin again /\ parent'[b] = p
    BY <1>2, <1>5
  <2>2. p \in agents /\ b \in Listed(p)
    BY <1>1, <2>1 DEF RegistryInv, TreesAgree
  <2>3. CASE b = a
    <3>1. hung' = b
      BY <1>2, <1>5, <2>3
    <3>2. p \in agents'
      <4>1. CASE p = a
        BY <1>5, <2>3, <4>1
      <4>2. CASE p # a
        BY <1>2, <2>2, <4>2
      <4> QED
        BY <4>1, <4>2
    <3> QED
      BY <2>1, <3>1, <3>2
  <2>4. CASE b # a
    <3>1. b \in Listed(p)'
      BY <1>3, <2>1, <2>2, <2>4
    <3>2. p \in agents'
      <4>1. ASSUME p \notin agents' PROVE FALSE
        <5>1. p = a /\ children'[a] = <<>>
          BY <1>2, <2>2, <4>1
        <5>2. Listed(p)' = {}
          BY <5>1, EmptySeq DEF Listed
        <5> QED
          BY <3>1, <5>2
      <4> QED
        BY <4>1
    <3> QED
      BY <2>1, <3>1, <3>2
  <2> QED
    BY <2>3, <2>4
<1>6. ListedOnce'
  BY <1>2, <1>3 DEF ListedOnce
<1>7. agents' \subseteq known'
  BY <1>2 DEF RegistryInv
<1>8. TreesAgree'
  BY <1>4, <1>5 DEF TreesAgree
<1> QED
  BY <1>6, <1>7, <1>8 DEF RegistryInv

LEMMA RegisterKeeps ==
    ASSUME RegistryTypeOK, RegistryInv,
           NEW a \in Agents, NEW p \in Agents \cup {None}, Register(a, p)
    PROVE  RegistryInv'
<1>1. /\ agents \subseteq Agents
      /\ children \in [Agents -> Seq(Agents)]
      /\ parent \in [Agents -> Agents \cup {None}]
      /\ hung = None /\ None \notin Agents
      /\ agents \subseteq known
  BY RegistryAssumption DEF RegistryTypeOK, RegistryInv, Register, LockFree
<1>2. /\ p # a
      /\ hung' = hung
      /\ known' = known \cup {a}
      /\ agents' = agents \cup {a}
      /\ parent' = [parent EXCEPT ![a] = p]
      /\ linked' = IF p \in agents THEN linked \cup {a} ELSE linked \ {a}
      /\ again' = IF a \in known THEN again \cup {a} ELSE again
  BY DEF Register
<1>3. \A c \in Agents : children'[c] =
         IF c = a THEN <<>>
         ELSE IF c = p /\ p \in agents THEN Append(children[c], a) ELSE children[c]
  BY DEF Register
<1>4. a \notin again' => a \notin known /\ again' = again
  BY <1>2
(* Who registers for the first time is in no list that counts. *)
<1>5. ASSUME a \notin again', NEW q \in agents \ again PROVE a \notin Listed(q)
  BY <1>1, <1>4, <1>5 DEF RegistryInv, TreesAgree
(* The lists. *)
<1>6. Listed(a)' = {}
  BY <1>3, EmptySeq DEF Listed
<1>7. ASSUME NEW q \in agents, q # a
      PROVE  /\ Listed(q)' = IF q = p THEN Listed(q) \cup {a} ELSE Listed(q)
             /\ q \notin again' => Once(children'[q], again')
  <2>1. q \in Agents /\ children[q] \in Seq(Agents)
    BY <1>1
  <2>2. q \notin again' => q \in agents \ again
    BY <1>2
  <2>3. q \notin again' => \A i, j \in 1..Len(children[q]) :
           children[q][i] = children[q][j] /\ children[q][i] \notin again' => i = j
    BY <1>2, <2>2 DEF RegistryInv, ListedOnce, Once
  <2>4. CASE q = p
    <3> DEFINE s == children[q]
    <3>1. children'[q] = Append(s, a)
      BY <1>3, <1>7, <2>1, <2>4
    <3>2. /\ Len(children'[q]) = Len(s) + 1 /\ Len(s) \in Nat
          /\ \A i \in 1..Len(s) : children'[q][i] = s[i]
          /\ children'[q][Len(s) + 1] = a
      BY <2>1, <3>1, AppendProperties, LenProperties
    <3>3. \A i \in 1..(Len(s) + 1) : i \in 1..Len(s) \/ i = Len(s) + 1
      BY <3>2
    <3>4. Listed(q)' = Listed(q) \cup {a}
      <4>1. Listed(q)' = {children'[q][i] : i \in 1..(Len(s) + 1)}
        BY <3>2 DEF Listed
      <4>2. Len(s) + 1 \in 1..(Len(s) + 1) /\ 1..Len(s) \subseteq 1..(Len(s) + 1)
        BY <3>2
      <4> QED
        BY <3>2, <3>3, <4>1, <4>2 DEF Listed
    <3>5. q \notin again' /\ a \notin again' => \A i \in 1..Len(s) : s[i] # a
      BY <1>5, <2>2 DEF Listed
    <3>6. ASSUME q \notin again', NEW i \in 1..Len(children'[q]),
                 NEW j \in 1..Len(children'[q]),
                 children'[q][i] = children'[q][j], children'[q][i] \notin again'
          PROVE  i = j
      <4>1. (i \in 1..Len(s) \/ i = Len(s) + 1) /\ (j \in 1..Len(s) \/ j = Len(s) + 1)
        BY <3>2, <3>3
      <4>2. CASE i \in 1..Len(s) /\ j \in 1..Len(s)
        BY <2>3, <3>2, <3>6, <4>2
      <4>3. CASE i = Len(s) + 1 \/ j = Len(s) + 1
        BY <3>2, <3>5, <3>6, <4>1, <4>3
      <4> QED
        BY <4>1, <4>2, <4>3
    <3> QED
      BY <2>4, <3>4, <3>6 DEF Once
  <2>5. CASE q # p
    <3>1. children'[q] = children[q]
      BY <1>3, <1>7, <2>1, <2>5
    <3>2. Listed(q)' = Listed(q)
      BY <3>1 DEF Listed
    <3> QED
      BY <2>3, <2>5, <3>1, <3>2 DEF Once
  <2> QED
    BY <2>4, <2>5
<1>8. ASSUME NEW q \in (agents \ again)', NEW b \in Listed(q)' \ again'
      PROVE  b \in agents' /\ parent'[b] = q
  <2>1. q \in agents /\ q # a /\ q \notin again /\ b \notin again
    BY <1>2, <1>6, <1>8
  <2>2. CASE b = a
    <3>1. a \notin again' /\ a \notin Listed(q)
      BY <1>5, <1>8, <2>1, <2>2
    <3>2. q = p
      BY <1>7, <1>8, <2>1, <2>2, <3>1
    <3> QED
      BY <1>1, <1>2, <2>2, <3>2
  <2>3. CASE b # a
    <3>1. b \in Listed(q)
      BY <1>7, <1>8, <2>1, <2>3
    <3>2. b \in agents /\ parent[b] = q
      BY <2>1, <3>1 DEF RegistryInv, TreesAgree
    <3> QED
      BY <1>1, <1>2, <2>3, <3>2
  <2> QED
    BY <2>2, <2>3
<1>9. ASSUME NEW b \in (agents \cap linked)' \ again', parent'[b] \notin again'
      PROVE  (parent[b] \in agents /\ (b \in Listed(parent[b]) \/ hung = b))'
  <2>1. CASE b = a
    <3>1. p \in agents /\ parent'[b] = p
      BY <1>1, <1>2, <1>9, <2>1
    <3>2. a \in Listed(p)'
      BY <1>2, <1>7, <3>1
    <3> QED
      BY <1>2, <2>1, <3>1, <3>2
  <2>2. CASE b # a
    <3>0. PICK q \in Agents \cup {None} : q = parent[b]
      BY <1>1, <1>2, <1>9, <2>2
    <3>1. b \in (agents \cap linked) \ again /\ q \notin again /\ parent'[b] = q
      BY <1>1, <1>2, <1>9, <2>2, <3>0
    <3>2. q \in agents /\ b \in Listed(q)
      BY <1>1, <3>0, <3>1 DEF RegistryInv, TreesAgree
    <3>3. q # a
      <4>1. q = a => a \in again'
        BY <1>1, <1>2, <3>2
      <4> QED
        BY <1>9, <3>1, <4>1
    <3>4. b \in Listed(q)'
      BY <1>7, <3>2, <3>3
    <3> QED
      BY <1>2, <3>1, <3>2, <3>4
  <2> QED
    BY <2>1, <2>2
<1>10. ListedOnce'
  <2> SUFFICES ASSUME NEW q \in (agents \ again)' PROVE Once(children'[q], again')
    BY DEF ListedOnce
  <2>1. CASE q = a
    <3>1. Len(children'[q]) = 0
      BY <1>3, <2>1, EmptySeq
    <3> QED
      BY <3>1 DEF Once
  <2>2. CASE q # a
    BY <1>2, <1>7, <2>2
  <2> QED
    BY <2>1, <2>2
<1>11. agents' \subseteq known'
  BY <1>1, <1>2
<1>12. TreesAgree'
  BY <1>8, <1>9 DEF TreesAgree
<1> QED
  BY <1>10, <1>11, <1>12 DEF RegistryInv

(* Parents and children agree, whatever removals, late clean-ups and new
   children follow each other: between register_with_id and _remove_agent no
   list ends up naming an agent that is gone, and no child loses its parent. *)
THEOREM TreesAlwaysAgree == RegistrySpec => []TreesAgree
<1>1. RegistryInit => RegistryInv
  <2> SUFFICES ASSUME RegistryInit PROVE RegistryInv
    OBVIOUS
  <2>1. agents = {} /\ known = {}
    BY DEF RegistryInit
  <2> QED
    BY <2>1 DEF RegistryInv, TreesAgree, ListedOnce
<1>2. RegistryTypeOK /\ RegistryInv /\ [RegistryNext]_registryVars => RegistryInv'
  <2> SUFFICES ASSUME RegistryTypeOK, RegistryInv, [RegistryNext]_registryVars
               PROVE  RegistryInv'
    OBVIOUS
  <2>1. ASSUME NEW a \in Agents, NEW p \in Agents \cup {None}, Register(a, p)
        PROVE  RegistryInv'
    BY <2>1, RegisterKeeps
  <2>2. ASSUME NEW a \in Agents, Deregister(a) PROVE RegistryInv'
    <3>1. /\ a \in agents /\ LockFree /\ Leave(a)
          /\ UNCHANGED <<parent, linked, again, known>>
      BY <2>2 DEF Deregister
    <3> QED
      BY <3>1, LeaveKeeps
  <2>3. ASSUME UNCHANGED <<agents, parent, children, hung, linked, again, known>>
        PROVE  RegistryInv'
    BY <2>3 DEF RegistryInv, TreesAgree, ListedOnce, Listed
  <2>4. ASSUME NEW a \in Agents, CleanupTask(a) PROVE RegistryInv'
    <3>1. CASE a \in agents
      <4>1. /\ LockFree /\ Leave(a)
            /\ UNCHANGED <<parent, linked, again, known>>
        BY <2>4, <3>1 DEF CleanupTask
      <4> QED
        BY <3>1, <4>1, LeaveKeeps
    <3>2. CASE a \notin agents
      <4>1. UNCHANGED <<agents, parent, children, hung, linked, again, known>>
        BY <2>4, <3>2 DEF CleanupTask
      <4> QED
        BY <2>3, <4>1
    <3> QED
      BY <3>1, <3>2
  <2>5. ASSUME NEW a \in Agents, Heartbeat(a) \/ TimePasses(a) PROVE RegistryInv'
    BY <2>3, <2>5 DEF Heartbeat, TimePasses
  <2>6. CASE Cleanup
    BY <2>3, <2>6 DEF Cleanup
  <2>7. CASE UNCHANGED registryVars
    BY <2>3, <2>7 DEF registryVars
  <2> QED
    BY <2>1, <2>2, <2>4, <2>5, <2>6, <2>7 DEF RegistryNext
<1>3. RegistryInv => TreesAgree
  BY DEF RegistryInv
<1> QED
  BY <1>1, <1>2, <1>3, RegistryTypes, PTL DEF RegistrySpec

-----------------------------------------------------------------------------
(* The task graph (TaskGraph).                                             *)

(* EdgesAgree, with what the operations rely on: a list of dependents names
   registered tasks only, also while it is not looked at. *)
EdgesInv ==
    /\ EdgesAgree
    /\ \A d \in Tasks : dependents[d] \subseteq tasks
    /\ \A t \in Tasks : t \notin tasks => deps[t] = {} /\ dependents[t] = {}

LEMMA GraphStarts == GraphInit => GraphTypeOK
BY EditsAssumption DEF GraphInit, GraphTypeOK, TaskStatus

LEMMA GraphTypesKept ==
    ASSUME GraphTypeOK, [GraphNext]_graphVars
    PROVE  GraphTypeOK'
<1> USE EditsAssumption DEF GraphTypeOK
<1>1. CASE GetBlocked
  BY <1>1 DEF GetBlocked, TaskStatus
<1>2. ASSUME NEW t \in Tasks, NEW D \in SUBSET Tasks, AddTask(t, D)
      PROVE  GraphTypeOK'
  <2>1. tasks' \subseteq Tasks /\ deps' \in [Tasks -> SUBSET Tasks]
    BY <1>2 DEF AddTask
  <2>2. dependents' \in [Tasks -> SUBSET Tasks]
    BY <1>2, <2>1 DEF AddTask, UpdatedDependents
  <2> QED
    BY <1>2, <2>1, <2>2 DEF AddTask, Edit, TaskStatus
<1>3. ASSUME NEW t \in Tasks, NEW u \in Tasks, Link(t, u)
      PROVE  GraphTypeOK'
  BY <1>3 DEF Link, Edit
<1>4. ASSUME NEW t \in Tasks, RemoveTask(t)
      PROVE  GraphTypeOK'
  BY <1>4 DEF RemoveTask, Edit
<1>5. ASSUME NEW t \in Tasks, StartTask(t) \/ EndTask(t)
      PROVE  GraphTypeOK'
  BY <1>5 DEF StartTask, EndTask, TaskStatus
<1>6. CASE UNCHANGED graphVars
  BY <1>6 DEF graphVars
<1> QED
  BY <1>1, <1>2, <1>3, <1>4, <1>5, <1>6 DEF GraphNext

(* All variables of the graph keep their types. *)
THEOREM GraphTypes == GraphSpec => []GraphTypeOK
BY GraphStarts, GraphTypesKept, PTL DEF GraphSpec

LEMMA EdgesHold == GraphSpec => []EdgesInv
<1>1. GraphInit => EdgesInv
  BY DEF GraphInit, EdgesInv, EdgesAgree
<1>2. GraphTypeOK /\ EdgesInv /\ [GraphNext]_graphVars => EdgesInv'
  <2> SUFFICES ASSUME GraphTypeOK, EdgesInv, [GraphNext]_graphVars
               PROVE  EdgesInv'
    OBVIOUS
  <2> USE DEF GraphTypeOK, EdgesInv, EdgesAgree
  <2>1. ASSUME NEW t \in Tasks, NEW D \in SUBSET Tasks, AddTask(t, D)
        PROVE  EdgesInv'
    <3>1. /\ tasks' = tasks \cup {t}
          /\ t \notin tasks
          /\ deps' = [deps EXCEPT ![t] = D]
          /\ dependents' = UpdatedDependents(t, D)
      BY <2>1 DEF AddTask
    <3>2. \A u \in Tasks : deps'[u] = IF u = t THEN D ELSE deps[u]
      BY <3>1
    <3>3. \A d \in Tasks :
             dependents'[d] = IF d = t \/ d \in D \cap tasks
                              THEN {u \in tasks' : d \in deps'[u]}
                              ELSE dependents[d]
      BY <3>1, Zenon DEF UpdatedDependents
    <3>4. ASSUME NEW d \in tasks'
          PROVE  dependents'[d] = {u \in tasks' : d \in deps'[u]}
      <4>1. CASE d = t \/ d \in D
        <5>1. d \in Tasks /\ (d = t \/ d \in D \cap tasks)
          BY <3>1, <4>1
        <5> QED
          BY <3>3, <5>1, Zenon
      <4>2. CASE d # t /\ d \notin D
        <5>1. d \in tasks /\ dependents'[d] = dependents[d]
          BY <3>1, <3>3, <4>2
        <5>2. {u \in tasks' : d \in deps'[u]} = {u \in tasks : d \in deps[u]}
          BY <3>1, <3>2, <4>2
        <5> QED
          BY <5>1, <5>2
      <4> QED
        BY <4>1, <4>2
    <3>5. \A d \in Tasks : dependents'[d] \subseteq tasks'
      <4> TAKE d \in Tasks
      <4>1. dependents[d] \subseteq tasks'
        BY <3>1
      <4>2. {u \in tasks' : d \in deps'[u]} \subseteq tasks'
        OBVIOUS
      <4>3. CASE d = t \/ d \in D \cap tasks
        <5>1. dependents'[d] = {u \in tasks' : d \in deps'[u]}
          BY <3>3, <4>3, Zenon
        <5> QED
          BY <4>2, <5>1, Zenon
      <4>4. CASE ~(d = t \/ d \in D \cap tasks)
        <5>1. dependents'[d] = dependents[d]
          BY <3>3, <4>4, Zenon
        <5> QED
          BY <4>1, <5>1, Zenon
      <4> QED
        BY <4>3, <4>4, Zenon
    <3>6. ASSUME NEW u \in Tasks, u \notin tasks'
          PROVE  deps'[u] = {} /\ dependents'[u] = {}
      BY <3>1, <3>2, <3>3, <3>6
    <3>7. EdgesAgree'
      BY <3>4
    <3> QED
      BY <3>5, <3>6, <3>7
  <2>2. ASSUME NEW t \in Tasks, NEW u \in Tasks, Link(t, u)
        PROVE  EdgesInv'
    BY <2>2 DEF Link
  <2>3. ASSUME NEW t \in Tasks, RemoveTask(t)
        PROVE  EdgesInv'
    BY <2>3 DEF RemoveTask
  <2>4. CASE UNCHANGED <<tasks, deps, dependents>>
    BY <2>4
  <2> QED
    BY <2>1, <2>2, <2>3, <2>4
       DEF GraphNext, GetBlocked, StartTask, EndTask, graphVars
<1> QED
  BY <1>1, <1>2, GraphTypes, PTL DEF GraphSpec

(* The lists of dependencies and of dependents agree, in whatever order
   tasks are added, linked, removed and run. *)
THEOREM EdgesAlwaysAgree == GraphSpec => []EdgesAgree
<1>1. EdgesInv => EdgesAgree
  BY DEF EdgesInv
<1> QED
  BY <1>1, EdgesHold, PTL

-----------------------------------------------------------------------------
(* The algorithms of the task graph (TaskOrder): numbers and iterations.    *)

(* What holds of 0, and of n + 1 when it holds of n, holds up to any bound. *)
LEMMA UpTo ==
    ASSUME NEW N \in Nat, NEW S, 0 \in S, \A n \in 0..(N - 1) : n \in S => n + 1 \in S
    PROVE  \A n \in 0..N : n \in S
<1> SUFFICES ASSUME {n \in 0..N : n \notin S} # {} PROVE FALSE
  OBVIOUS
<1>1. PICK x \in {n \in 0..N : n \notin S} : \A y \in {n \in 0..N : n \notin S} : x <= y
  <2>1. {n \in 0..N : n \notin S} \in SUBSET Nat
    OBVIOUS
  <2> QED
    BY <2>1, LeastNumber
<1>2. x \in 0..N /\ x \notin S /\ x # 0
  OBVIOUS
<1>3. x - 1 \in 0..(N - 1) /\ x - 1 \in 0..N /\ ~(x <= x - 1) /\ (x - 1) + 1 = x
  BY <1>2
<1> QED
  BY <1>1, <1>2, <1>3

(* A bounded set of numbers that is not empty has a greatest one. *)
LEMMA GreatestNumber ==
    ASSUME NEW N \in Nat, NEW I \in SUBSET (0..N), I # {}
    PROVE  Max(I) \in I /\ \A i \in I : i <= Max(I)
<1>1. {N - i : i \in I} \in SUBSET Nat /\ {N - i : i \in I} # {}
  <2>1. \A i \in I : N - i \in Nat
    OBVIOUS
  <2> QED
    BY <2>1
<1>2. PICK m \in {N - i : i \in I} : \A k \in {N - i : i \in I} : m <= k
  BY <1>1, LeastNumber
<1>3. PICK x \in I : m = N - x
  OBVIOUS
<1>4. \A i \in I : N - x <= N - i
  BY <1>2, <1>3
<1>5. \A i \in I : x >= i
  BY <1>4
<1> QED
  BY <1>5 DEF Max

(* A state b of X can be stepped on by G any number of times. *)
Iteration(f, N, X, b, G) ==
    f \in [0..N -> X] /\ f[0] = b /\ \A n \in 1..N : f[n] = G[f[n - 1]]

LEMMA IterationsExist ==
    ASSUME NEW N \in Nat, NEW X, NEW b \in X, NEW G \in [X -> X]
    PROVE  \E f : Iteration(f, N, X, b, G)
<1> DEFINE Iterates(f, k) == f \in [0..k -> X] /\ f[0] = b /\ \A n \in 1..k : f[n] = G[f[n - 1]]
           S == {k \in Nat : \E f : Iterates(f, k)}
<1>1. 0 \in S
  <2>1. Iterates([n \in 0..0 |-> b], 0)
    OBVIOUS
  <2> QED
    BY <2>1
<1>2. \A k \in 0..(N - 1) : k \in S => k + 1 \in S
  <2> SUFFICES ASSUME NEW k \in 0..(N - 1), NEW f, Iterates(f, k) PROVE k + 1 \in S
    OBVIOUS
  <2>1. k \in Nat /\ f[k] \in X /\ G[f[k]] \in X
    OBVIOUS
  <2>2. PICK h : h = [n \in 0..(k + 1) |-> IF n <= k THEN f[n] ELSE G[f[k]]]
    OBVIOUS
  <2>3. h \in [0..(k + 1) -> X] /\ h[0] = b
    BY <2>1, <2>2
  <2>4. \A n \in 1..(k + 1) : h[n] = G[h[n - 1]]
    <3> TAKE n \in 1..(k + 1)
    <3>1. CASE n <= k
      BY <2>1, <2>2, <3>1
    <3>2. CASE n = k + 1
      BY <2>1, <2>2, <3>2
    <3> QED
      BY <2>1, <3>1, <3>2
  <2>5. Iterates(h, k + 1)
    BY <2>3, <2>4
  <2> HIDE DEF Iterates
  <2> QED
    BY <2>1, <2>5
<1> HIDE DEF S
<1>3. N \in S
  <2>1. \A n \in 0..N : n \in S
    BY <1>1, <1>2, UpTo
  <2> QED
    BY <2>1
<1> QED
  BY <1>3 DEF S, Iteration

(* An injective list of members of a finite set is no longer than the set. *)
LEMMA ListFits ==
    ASSUME NEW T, IsFiniteSet(T), NEW n \in Nat, NEW f \in [1..n -> T],
           \A i, j \in 1..n : f[i] = f[j] => i = j
    PROVE  n <= Cardinality(T)
<1>1. IsFiniteSet(1..n) /\ Cardinality(1..n) = n
  BY FS_Interval
<1>2. Cardinality(T) \in Nat
  BY FS_CardinalityType
<1>3. ~(Cardinality(T) < Cardinality(1..n))
  BY <1>1, FS_PigeonHole
<1> QED
  BY <1>1, <1>2, <1>3

-----------------------------------------------------------------------------
(* Cycles: a graph without one has, in any group of its tasks, a task that  *)
(* depends on none of them, and the other way round.                        *)

Known == \A t \in tasks : deps[t] \subseteq tasks

Rooted(T) == \A U \in SUBSET T : U # {} => \E t \in U : deps[t] \cap U = {}

LEMMA TasksFinite ==
    ASSUME GraphTypeOK
    PROVE  IsFiniteSet(tasks) /\ Cardinality(tasks) \in Nat
BY FS_Subset, FS_CardinalityType, DurationAssumption DEF GraphTypeOK

(* A chain in U: each task at most once, each in the dependencies of the next. *)
ChainIn(U, n, c) ==
    /\ c \in [1..n -> U]
    /\ \A i, j \in 1..n : c[i] = c[j] => i = j
    /\ \A i \in 1..(n - 1) : c[i] \in deps[c[i + 1]]

LEMMA ChainsAre ==
    ASSUME GraphTypeOK, NEW n \in Nat \ {0}, NEW c, ChainIn(tasks, n, c)
    PROVE  c \in Chains /\ Len(c) = n /\ n <= Cardinality(tasks)
<1>1. PICK N \in Nat : N = Cardinality(tasks)
  BY TasksFinite
<1>2. n <= N /\ n \in 1..N
  BY <1>1, TasksFinite, ListFits DEF ChainIn
<1>3. DOMAIN c = 1..n /\ Len(c) = n
  BY DEF ChainIn
<1>4. c \in UNION {[1..k -> tasks] : k \in 1..N}
  BY <1>2 DEF ChainIn
<1> QED
  BY <1>1, <1>2, <1>3, <1>4 DEF Chains, ChainIn

LEMMA ChainOf ==
    ASSUME GraphTypeOK, NEW c \in Chains
    PROVE  Len(c) \in Nat \ {0} /\ ChainIn(tasks, Len(c), c)
<1>1. PICK N \in Nat : N = Cardinality(tasks)
  BY TasksFinite
<1>2. PICK n \in 1..N : c \in [1..n -> tasks]
  BY <1>1 DEF Chains
<1>3. Len(c) = n /\ DOMAIN c = 1..n
  BY <1>2
<1> QED
  BY <1>2, <1>3 DEF Chains, ChainIn

(* A group in which everybody depends on another one has a cycle. *)
LEMMA CycleIn ==
    ASSUME GraphTypeOK, NEW U \in SUBSET tasks, U # {}, \A t \in U : deps[t] \cap U # {}
    PROVE  ~Valid
<1>1. PICK N \in Nat : N = Cardinality(tasks)
  BY TasksFinite
<1> DEFINE L == {n \in 1..N : \E c : ChainIn(U, n, c)}
<1>2. L # {}
  <2>1. PICK t \in U : TRUE
    OBVIOUS
  <2>2. ChainIn(U, 1, [i \in 1..1 |-> t])
    BY DEF ChainIn
  <2>3. ChainIn(tasks, 1, [i \in 1..1 |-> t])
    BY DEF ChainIn
  <2>4. 1 <= N
    BY <1>1, <2>3, ChainsAre
  <2> QED
    BY <2>2, <2>4
<1>3. PICK n \in L : \A m \in L : m <= n
  <2>1. L \in SUBSET (0..N)
    OBVIOUS
  <2> HIDE DEF L
  <2> QED
    BY <1>2, <2>1, GreatestNumber
<1>4. PICK c : ChainIn(U, n, c)
  OBVIOUS
<1>5. n \in Nat /\ 1 \in 1..n /\ n >= 1 /\ c \in [1..n -> U]
  BY <1>4 DEF ChainIn
<1>6. PICK d \in U : d \in deps[c[1]]
  BY <1>5
<1>7. ASSUME \A i \in 1..n : c[i] # d PROVE FALSE
  <2>1. PICK e : e = [i \in 1..(n + 1) |-> IF i = 1 THEN d ELSE c[i - 1]]
    OBVIOUS
  <2>2. e \in [1..(n + 1) -> U]
    BY <1>5, <2>1
  <2>3. \A i, j \in 1..(n + 1) : e[i] = e[j] => i = j
    <3> SUFFICES ASSUME NEW i \in 1..(n + 1), NEW j \in 1..(n + 1), e[i] = e[j] PROVE i = j
      OBVIOUS
    <3>1. i # 1 => i - 1 \in 1..n /\ e[i] = c[i - 1]
      BY <1>5, <2>1
    <3>2. j # 1 => j - 1 \in 1..n /\ e[j] = c[j - 1]
      BY <1>5, <2>1
    <3>3. e[1] = d
      BY <1>5, <2>1
    <3>4. CASE i = 1 \/ j = 1
      BY <1>7, <3>1, <3>2, <3>3, <3>4
    <3>5. CASE i # 1 /\ j # 1
      <4>1. i - 1 = j - 1
        BY <1>4, <3>1, <3>2, <3>5 DEF ChainIn
      <4> QED
        BY <4>1
    <3> QED
      BY <3>4, <3>5
  <2>4. \A i \in 1..n : e[i] \in deps[e[i + 1]]
    <3> TAKE i \in 1..n
    <3>1. i + 1 \in 1..(n + 1) /\ i + 1 # 1 /\ (i + 1) - 1 = i
      BY <1>5
    <3>2. e[i + 1] = c[i]
      BY <2>1, <3>1
    <3>3. CASE i = 1
      BY <1>5, <1>6, <2>1, <3>2, <3>3
    <3>4. CASE i # 1
      <4>1. i - 1 \in 1..(n - 1) /\ (i - 1) + 1 = i /\ i \in 1..(n + 1)
        BY <1>5, <3>4
      <4>2. e[i] = c[i - 1]
        BY <2>1, <3>4, <4>1
      <4> QED
        BY <1>4, <3>2, <4>1, <4>2 DEF ChainIn
    <3> QED
      BY <3>3, <3>4
  <2>5. n + 1 \in Nat \ {0} /\ (n + 1) - 1 = n
    BY <1>5
  <2>6. ChainIn(U, n + 1, e) /\ ChainIn(tasks, n + 1, e)
    <3>1. e \in [1..(n + 1) -> tasks]
      BY <2>2
    <3> QED
      BY <2>2, <2>3, <2>4, <2>5, <3>1 DEF ChainIn
  <2>7. n + 1 <= N
    BY <1>1, <2>5, <2>6, ChainsAre
  <2>8. n + 1 \in L
    BY <2>5, <2>6, <2>7
  <2> QED
    BY <1>3, <1>5, <2>8
<1>8. PICK k \in 1..n : c[k] = d
  BY <1>7
<1>9. PICK e : e = [i \in 1..k |-> c[i]]
  OBVIOUS
<1>10. k \in Nat \ {0} /\ k <= n /\ 1 \in 1..k /\ \A i \in 1..k : i \in 1..n
  BY <1>5
<1>11. ChainIn(tasks, k, e)
  <2>1. e \in [1..k -> tasks]
    BY <1>5, <1>9, <1>10
  <2>2. \A i, j \in 1..k : e[i] = e[j] => i = j
    BY <1>4, <1>9, <1>10 DEF ChainIn
  <2>3. \A i \in 1..(k - 1) : e[i] \in deps[e[i + 1]]
    <3> TAKE i \in 1..(k - 1)
    <3>1. i \in 1..k /\ i + 1 \in 1..k /\ i \in 1..(n - 1)
      BY <1>5, <1>10
    <3> QED
      BY <1>4, <1>9, <3>1 DEF ChainIn
  <2> QED
    BY <2>1, <2>2, <2>3 DEF ChainIn
<1>12. e \in Chains /\ Len(e) = k
  BY <1>10, <1>11, ChainsAre
<1>13. e[k] \in deps[e[1]]
  BY <1>6, <1>8, <1>9, <1>10
<1> QED
  BY <1>12, <1>13 DEF Valid

LEMMA ValidIs == GraphTypeOK => (Valid <=> Known /\ Rooted(tasks))
<1> SUFFICES ASSUME GraphTypeOK PROVE Valid <=> Known /\ Rooted(tasks)
  OBVIOUS
<1>1. ASSUME Valid PROVE Known /\ Rooted(tasks)
  BY <1>1, CycleIn DEF Known, Valid, Rooted
<1>2. ASSUME Known, Rooted(tasks) PROVE Valid
  <2> SUFFICES ASSUME NEW c \in Chains, c[Len(c)] \in deps[c[1]] PROVE FALSE
    BY <1>2 DEF Known, Valid
  <2>1. PICK n \in Nat \ {0} : n = Len(c) /\ ChainIn(tasks, n, c)
    BY ChainOf
  <2>2. c \in [1..n -> tasks] /\ 1 \in 1..n /\ n \in 1..n
    BY <2>1 DEF ChainIn
  <2>3. PICK U \in SUBSET tasks : U = {c[i] : i \in 1..n}
    BY <2>2
  <2>4. U # {}
    BY <2>2, <2>3
  <2>5. PICK i \in 1..n : deps[c[i]] \cap U = {}
    <3>1. PICK t \in U : deps[t] \cap U = {}
      BY <1>2, <2>4 DEF Rooted
    <3> QED
      BY <2>3, <3>1
  <2>6. CASE i = 1
    BY <2>1, <2>2, <2>3, <2>5, <2>6
  <2>7. CASE i # 1
    <3>1. i - 1 \in 1..(n - 1) /\ i - 1 \in 1..n /\ (i - 1) + 1 = i
      BY <2>7
    <3>2. c[i - 1] \in deps[c[i]]
      BY <2>1, <3>1 DEF ChainIn
    <3> QED
      BY <2>3, <2>5, <3>1, <3>2
  <2> QED
    BY <2>6, <2>7
<1> QED
  BY <1>1, <1>2

-----------------------------------------------------------------------------
(* validate(): the tasks in the middle of their visit are a path, and those *)
(* that were left depend on each other only and have no cycle.              *)

OnPath(p, L) ==
    /\ \A i, j \in 1..Len(p) : p[i] = p[j] => i = j
    /\ \A i \in 1..Len(p) : p[i] \notin L
    /\ \A i \in 1..(Len(p) - 1) : p[i + 1] \in deps[p[i]]

Searched(p, L) == OnPath(p, L) /\ Rooted(L) /\ \A t \in L : deps[t] \subseteq L

LEMMA EnterKeeps ==
    ASSUME GraphTypeOK, NEW p \in Seq(tasks), NEW L \in SUBSET tasks, Searched(p, L),
           NEW t \in tasks, t \notin L, \A i \in 1..Len(p) : p[i] # t,
           p # <<>> => t \in deps[p[Len(p)]]
    PROVE  Append(p, t) \in Seq(tasks) /\ Searched(Append(p, t), L)
<1>1. PICK n \in Nat : n = Len(p)
  OBVIOUS
<1>2. PICK q : q = Append(p, t)
  OBVIOUS
<1>3. /\ q \in Seq(tasks) /\ Len(q) = n + 1 /\ q[n + 1] = t
      /\ \A i \in 1..n : q[i] = p[i]
  BY <1>1, <1>2
<1>4. /\ \A i, j \in 1..n : p[i] = p[j] => i = j
      /\ \A i \in 1..n : p[i] \notin L /\ p[i] # t
      /\ \A i \in 1..(n - 1) : p[i + 1] \in deps[p[i]]
  BY <1>1 DEF Searched, OnPath
<1>5. \A i \in 1..(n + 1) : i \in 1..n \/ i = n + 1
  OBVIOUS
<1>6. \A i, j \in 1..(n + 1) : q[i] = q[j] => i = j
  BY <1>3, <1>4, <1>5
<1>7. \A i \in 1..(n + 1) : q[i] \notin L
  BY <1>3, <1>4, <1>5
<1>8. \A i \in 1..n : q[i + 1] \in deps[q[i]]
  <2> TAKE i \in 1..n
  <2>1. CASE i = n
    <3>1. p # <<>>
      BY <1>1, <2>1
    <3> QED
      BY <1>1, <1>3, <2>1, <3>1
  <2>2. CASE i # n
    <3>1. i \in 1..(n - 1) /\ i + 1 \in 1..n
      BY <2>2
    <3> QED
      BY <1>3, <1>4, <3>1
  <2> QED
    BY <2>1, <2>2
<1>9. OnPath(q, L)
  BY <1>3, <1>6, <1>7, <1>8 DEF OnPath
<1> QED
  BY <1>2, <1>3, <1>9 DEF Searched

(* A task whose dependencies were left has no cycle through it. *)
LEMMA RootedWith ==
    ASSUME NEW L, NEW t, t \notin L, deps[t] \subseteq L, Rooted(L),
           \A u \in L : deps[u] \subseteq L
    PROVE  Rooted(L \cup {t})
<1> SUFFICES ASSUME NEW U \in SUBSET (L \cup {t}), U # {}
             PROVE  \E u \in U : deps[u] \cap U = {}
  BY DEF Rooted
<1>1. CASE U \ {t} = {}
  <2>1. t \in U /\ deps[t] \cap U = {}
    BY <1>1
  <2> QED
    BY <2>1
<1>2. CASE U \ {t} # {}
  <2>1. PICK u \in U \ {t} : deps[u] \cap (U \ {t}) = {}
    BY <1>2 DEF Rooted
  <2>2. u \in L /\ t \notin deps[u]
    BY <2>1
  <2> QED
    BY <2>1, <2>2
<1> QED
  BY <1>1, <1>2

LEMMA FrontIs ==
    ASSUME NEW T, NEW p \in Seq(T), p # <<>>
    PROVE  Front(p) \in Seq(T) /\ Len(Front(p)) = Len(p) - 1
<1>1. PICK n \in Nat : n = Len(p)
  OBVIOUS
<1>2. n # 0
  BY <1>1
<1>3. PICK q : q = SubSeq(p, 1, n - 1)
  OBVIOUS
<1>4. q \in Seq(T) /\ Len(q) = n - 1
  BY <1>1, <1>2, <1>3
<1>5. Front(p) = q
  BY <1>1, <1>3 DEF Front
<1> QED
  BY <1>1, <1>4, <1>5

LEMMA ReturnKeeps ==
    ASSUME GraphTypeOK, NEW p \in Seq(tasks), NEW L \in SUBSET tasks, Searched(p, L),
           p # <<>>, deps[p[Len(p)]] \subseteq L
    PROVE  p[Len(p)] \in tasks \ L /\ Searched(Front(p), L \cup {p[Len(p)]})
<1>1. PICK n \in Nat : n = Len(p)
  OBVIOUS
<1>2. n # 0 /\ n \in 1..n
  BY <1>1
<1>3. PICK t \in tasks : t = p[n]
  BY <1>1, <1>2
<1>4. PICK q : q = Front(p)
  OBVIOUS
<1>5. /\ q \in Seq(tasks) /\ Len(q) = n - 1
      /\ \A i \in 1..(n - 1) : q[i] = p[i]
  BY <1>1, <1>2, <1>4 DEF Front
<1>6. /\ \A i, j \in 1..n : p[i] = p[j] => i = j
      /\ \A i \in 1..n : p[i] \notin L
      /\ \A i \in 1..(n - 1) : p[i + 1] \in deps[p[i]]
  BY <1>1 DEF Searched, OnPath
<1>7. \A i \in 1..(n - 1) : i \in 1..n /\ i # n
  OBVIOUS
<1>8. \A i \in 1..(n - 1) : q[i] \notin L \cup {t}
  BY <1>2, <1>3, <1>5, <1>6, <1>7
<1>9. \A i, j \in 1..(n - 1) : q[i] = q[j] => i = j
  BY <1>5, <1>6, <1>7
<1>10. \A i \in 1..((n - 1) - 1) : q[i + 1] \in deps[q[i]]
  <2> TAKE i \in 1..((n - 1) - 1)
  <2>1. i \in 1..(n - 1) /\ i + 1 \in 1..(n - 1)
    BY <1>2
  <2> QED
    BY <1>5, <1>6, <2>1
<1>11. OnPath(q, L \cup {t})
  BY <1>5, <1>8, <1>9, <1>10 DEF OnPath
<1>12. t \notin L
  BY <1>2, <1>3, <1>6
<1>13. Rooted(L \cup {t}) /\ \A u \in L \cup {t} : deps[u] \subseteq L \cup {t}
  BY <1>1, <1>3, <1>12, RootedWith DEF Searched
<1>14. Searched(q, L \cup {t})
  BY <1>11, <1>13 DEF Searched
<1>15. p[Len(p)] = t /\ t \in tasks \ L
  BY <1>1, <1>3, <1>12
<1>16. Searched(Front(p), L \cup {p[Len(p)]})
  BY Zenon, <1>4, <1>14, <1>15
<1> QED
  BY <1>15, <1>16

(* A task that calls itself, through others or not, is in a cycle. *)
LEMMA RaiseIsRight ==
    ASSUME GraphTypeOK, NEW p \in Seq(tasks), NEW L, Searched(p, L), p # <<>>,
           NEW t \in deps[p[Len(p)]], t \in tasks => \E k \in 1..Len(p) : p[k] = t
    PROVE  ~(Known /\ Rooted(tasks))
<1> SUFFICES ASSUME Known, Rooted(tasks) PROVE FALSE
  OBVIOUS
<1>1. PICK n \in Nat : n = Len(p)
  OBVIOUS
<1>2. n # 0 /\ n \in 1..n /\ \A i \in 1..n : p[i] \in tasks
  BY <1>1
<1>3. PICK k \in 1..n : p[k] = t
  <2>1. t \in deps[p[n]] /\ p[n] \in tasks
    BY <1>1, <1>2
  <2>2. t \in tasks
    BY <2>1 DEF Known
  <2> QED
    BY <1>1, <2>2
<1>4. PICK U \in SUBSET tasks : U = {p[i] : i \in k..n}
  <2>1. \A i \in k..n : i \in 1..n
    OBVIOUS
  <2>2. {p[i] : i \in k..n} \in SUBSET tasks
    BY <1>2, <2>1
  <2> QED
    BY <2>2
<1>5. p[k] \in U
  BY <1>4
<1>6. PICK u \in U : deps[u] \cap U = {}
  BY <1>5 DEF Rooted
<1>7. PICK i \in k..n : u = p[i]
  BY <1>4, <1>6
<1>8. CASE i = n
  BY <1>1, <1>3, <1>5, <1>6, <1>7, <1>8
<1>9. CASE i # n
  <2>1. i \in 1..(n - 1) /\ i + 1 \in k..n
    BY <1>9
  <2>2. p[i + 1] \in deps[p[i]] /\ p[i + 1] \in U
    BY <1>1, <1>4, <2>1 DEF Searched, OnPath
  <2> QED
    BY <1>6, <1>7, <2>2
<1> QED
  BY <1>8, <1>9

Search == [path : Seq(tasks), left : SUBSET tasks, raised : BOOLEAN]

SearchInv(s) ==
    /\ s \in Search /\ Searched(s.path, s.left)
    /\ s.raised => ~(Known /\ Rooted(tasks))

(* The search is over, or goes on: every step calls or leaves a task. *)
Over(s) == s.raised \/ (s.path = <<>> /\ s.left = tasks)

Moves(s) == Len(s.path) + 2 * Cardinality(s.left)

LEMMA SearchStarts == SearchInv(Unvisited)
<1>1. PICK p : p = <<>>
  OBVIOUS
<1>2. p \in Seq(tasks) /\ Len(p) = 0
  BY <1>1
<1>3. OnPath(p, {})
  BY <1>2 DEF OnPath
<1>4. Rooted({})
  BY DEF Rooted
<1>5. Searched(p, {})
  BY <1>3, <1>4 DEF Searched
<1>6. Unvisited = [path |-> p, left |-> {}, raised |-> FALSE]
  BY <1>1 DEF Unvisited
<1> QED
  BY <1>2, <1>5, <1>6 DEF SearchInv, Search

(* A step keeps the invariant, and is a move unless the search is over. *)
LEMMA VisitKeeps ==
    ASSUME GraphTypeOK, NEW s, SearchInv(s)
    PROVE  /\ SearchInv(Visit(s))
           /\ Over(s) => Over(Visit(s))
           /\ ~Over(s) => Over(Visit(s)) \/ Moves(Visit(s)) = Moves(s) + 1
<1>1. PICK p \in Seq(tasks), L \in SUBSET tasks, b \in BOOLEAN :
          s = [path |-> p, left |-> L, raised |-> b]
  BY DEF SearchInv, Search
<1>2. s.path = p /\ s.left = L /\ s.raised = b
  BY <1>1
<1>3. Searched(p, L) /\ (b => ~(Known /\ Rooted(tasks)))
  BY <1>2 DEF SearchInv
<1>4. PICK n \in Nat : n = Len(p) /\ DOMAIN p = 1..n
  OBVIOUS
<1>5. p = <<>> <=> n = 0
  BY <1>4
<1>6. IsFiniteSet(L) /\ Cardinality(L) \in Nat
  BY TasksFinite, FS_Subset, FS_CardinalityType
<1>7. CASE b
  BY <1>2, <1>7 DEF Visit, Over
<1>8. ASSUME ~b, Ahead(s) # {}
      PROVE  SearchInv(Visit(s)) /\ (Over(Visit(s)) \/ Moves(Visit(s)) = Moves(s) + 1) /\ ~Over(s)
  <2>1. PICK t : t = Pick(Ahead(s))
    OBVIOUS
  <2>2. t \in Ahead(s)
    BY <1>8, <2>1 DEF Pick
  <2>3. Visit(s) = EnterTask(s, t)
    BY <1>2, <1>8, <2>1 DEF Visit
  <2>4. /\ t \notin L
        /\ p = <<>> => t \in tasks
        /\ p # <<>> => t \in deps[p[Len(p)]]
    BY <1>2, <2>2 DEF Ahead, Last
  <2>5. Grey(s) = {p[i] : i \in 1..n}
    BY <1>2, <1>4 DEF Grey, ToSet
  <2>6. ~Over(s)
    BY <1>2, <1>8, <2>4 DEF Over
  <2>7. CASE t \in tasks \ Grey(s)
    <3>1. PICK q : q = Append(p, t)
      OBVIOUS
    <3>2. Visit(s) = [path |-> q, left |-> L, raised |-> b]
      BY <1>1, <2>3, <2>7, <3>1 DEF EnterTask
    <3>3. \A i \in 1..Len(p) : p[i] # t
      BY <1>4, <2>5, <2>7
    <3>4. q \in Seq(tasks) /\ Searched(q, L)
      BY <1>3, <2>4, <2>7, <3>1, <3>3, EnterKeeps
    <3>5. Len(q) = n + 1
      BY <1>4, <2>7, <3>1
    <3>6. SearchInv(Visit(s))
      BY <1>3, <3>2, <3>4 DEF SearchInv, Search
    <3>7. Moves(Visit(s)) = (n + 1) + 2 * Cardinality(L) /\ Moves(s) = n + 2 * Cardinality(L)
      BY <1>2, <1>4, <3>2, <3>5 DEF Moves
    <3> QED
      BY <1>6, <2>6, <3>6, <3>7
  <2>8. CASE t \notin tasks \ Grey(s)
    <3>1. Visit(s) = [path |-> p, left |-> L, raised |-> TRUE]
      BY <1>1, <2>3, <2>8 DEF EnterTask
    <3>2. p # <<>>
      BY <1>5, <2>4, <2>5, <2>8
    <3>3. t \in tasks => \E k \in 1..Len(p) : p[k] = t
      BY <1>4, <2>5, <2>8
    <3>4. ~(Known /\ Rooted(tasks))
      BY <1>3, <2>4, <3>2, <3>3, RaiseIsRight
    <3>5. SearchInv(Visit(s))
      BY <1>3, <3>1, <3>4 DEF SearchInv, Search
    <3>6. Over(Visit(s))
      BY <3>1 DEF Over
    <3> QED
      BY <2>6, <3>5, <3>6
  <2> QED
    BY <2>7, <2>8
<1>9. ASSUME ~b, Ahead(s) = {}, p # <<>>
      PROVE  SearchInv(Visit(s)) /\ Moves(Visit(s)) = Moves(s) + 1 /\ ~Over(s)
  <2>1. PICK t : t = p[Len(p)]
    OBVIOUS
  <2>2. PICK q : q = Front(p)
    OBVIOUS
  <2>3. deps[t] \subseteq L
    BY <1>2, <1>9, <2>1 DEF Ahead, Last
  <2>4. q \in Seq(tasks) /\ Len(q) = n - 1 /\ t \in tasks \ L /\ Searched(q, L \cup {t})
    <3>1. deps[p[Len(p)]] \subseteq L
      BY <2>1, <2>3
    <3>2. p[Len(p)] \in tasks \ L /\ Searched(Front(p), L \cup {p[Len(p)]})
      BY <1>3, <1>9, <3>1, ReturnKeeps
    <3>3. q \in Seq(tasks) /\ Len(q) = n - 1
      BY <1>4, <1>9, <2>2, FrontIs
    <3>4. t \in tasks \ L /\ Searched(q, L \cup {t})
      BY Zenon, <2>1, <2>2, <3>2
    <3> QED
      BY <3>3, <3>4
  <2>5. Visit(s) = LeaveTask(s)
    BY <1>2, <1>9 DEF Visit
  <2>6. Visit(s) = [path |-> q, left |-> L \cup {t}, raised |-> b]
    BY <1>1, <2>1, <2>2, <2>5 DEF LeaveTask, Last
  <2>7. SearchInv(Visit(s))
    BY <1>9, <2>4, <2>6 DEF SearchInv, Search
  <2>8. Cardinality(L \cup {t}) = Cardinality(L) + 1
    BY <1>6, <2>4, FS_AddElement
  <2>9. /\ Moves(Visit(s)) = (n - 1) + 2 * Cardinality(L \cup {t})
        /\ Moves(s) = n + 2 * Cardinality(L)
    BY <1>2, <1>4, <2>4, <2>6 DEF Moves
  <2>10. ~Over(s)
    BY <1>2, <1>9 DEF Over
  <2> QED
    BY <1>4, <1>6, <2>7, <2>8, <2>9, <2>10
<1>10. ASSUME ~b, Ahead(s) = {}, p = <<>>
       PROVE  Visit(s) = s /\ Over(s)
  BY <1>2, <1>10 DEF Visit, Over, Ahead
<1> QED
  BY <1>7, <1>8, <1>9, <1>10

LEMMA FewMoves ==
    ASSUME GraphTypeOK, NEW s, SearchInv(s)
    PROVE  Moves(s) \in Nat /\ Moves(s) <= 2 * Cardinality(tasks)
<1>1. PICK p \in Seq(tasks), L \in SUBSET tasks :
          s.path = p /\ s.left = L /\ Searched(p, L)
  BY DEF SearchInv, Search
<1>2. PICK n \in Nat : n = Len(p) /\ DOMAIN p = 1..n
  OBVIOUS
<1>3. /\ IsFiniteSet(tasks) /\ Cardinality(tasks) \in Nat
      /\ IsFiniteSet(L) /\ Cardinality(L) \in Nat
  BY TasksFinite, FS_Subset, FS_CardinalityType
<1>4. IsFiniteSet(tasks \ L) /\ Cardinality(tasks \ L) = Cardinality(tasks) - Cardinality(L)
  <2>1. tasks \cap L = L
    OBVIOUS
  <2> QED
    BY <1>3, <2>1, FS_Difference
<1>5. /\ p \in [1..n -> tasks \ L]
      /\ \A i, j \in 1..n : p[i] = p[j] => i = j
  BY <1>1, <1>2 DEF Searched, OnPath
<1>6. n <= Cardinality(tasks \ L)
  BY <1>4, <1>5, ListFits
<1>7. Moves(s) = n + 2 * Cardinality(L)
  BY <1>1, <1>2 DEF Moves
<1> QED
  BY <1>3, <1>4, <1>6, <1>7

Searches(f, N) == f = [n \in 0..N |-> IF n = 0 THEN Unvisited ELSE Visit(f[n - 1])]

LEMMA SearchesExist ==
    ASSUME GraphTypeOK, NEW N \in Nat
    PROVE  \E f : Searches(f, N)
<1>1. PICK X : X = {s \in Search : SearchInv(s)}
  OBVIOUS
<1>2. Unvisited \in X /\ \A s \in X : Visit(s) \in X
  BY <1>1, SearchStarts, VisitKeeps DEF SearchInv
<1>3. PICK G : G = [s \in X |-> Visit(s)]
  OBVIOUS
<1>4. G \in [X -> X]
  BY <1>2, <1>3
<1> PICK f : Iteration(f, N, X, Unvisited, G)
  BY <1>2, <1>4, IterationsExist
<1>5. f \in [0..N -> X] /\ f[0] = Unvisited /\ \A n \in 1..N : f[n] = G[f[n - 1]]
  BY DEF Iteration
<1>6. \A n \in 0..N : f[n] = IF n = 0 THEN Unvisited ELSE Visit(f[n - 1])
  <2> TAKE n \in 0..N
  <2>1. CASE n = 0
    BY <1>5, <2>1
  <2>2. CASE n # 0
    <3>1. n \in 1..N /\ n - 1 \in 0..N
      BY <2>2
    <3>2. f[n - 1] \in X
      BY <1>5, <3>1
    <3> QED
      BY <1>3, <1>5, <2>2, <3>1, <3>2
  <2> QED
    BY <2>1, <2>2
<1>7. f = [n \in 0..N |-> f[n]]
  BY <1>5
<1> QED
  BY <1>6, <1>7 DEF Searches

(* All steps keep the invariant, and at the last of them the search is over. *)
LEMMA SearchEnds ==
    ASSUME GraphTypeOK, NEW f, Searches(f, 2 * Cardinality(tasks) + 1)
    PROVE  SearchInv(f[2 * Cardinality(tasks) + 1]) /\ Over(f[2 * Cardinality(tasks) + 1])
<1>1. PICK N \in Nat : N = 2 * Cardinality(tasks) + 1
  BY TasksFinite
<1>2. f[0] = Unvisited /\ \A n \in 0..(N - 1) : f[n + 1] = Visit(f[n])
  <2>1. \A n \in 0..N : f[n] = IF n = 0 THEN Unvisited ELSE Visit(f[n - 1])
    BY <1>1 DEF Searches
  <2>2. \A n \in 0..(N - 1) : n + 1 \in 0..N /\ n + 1 # 0 /\ (n + 1) - 1 = n
    OBVIOUS
  <2> QED
    BY <2>1, <2>2
<1> DEFINE Good(n) == SearchInv(f[n]) /\ (Over(f[n]) \/ Moves(f[n]) >= n)
           S == {n \in 0..N : Good(n)}
<1>3. Good(0)
  BY <1>2, SearchStarts, FewMoves
<1>4. ASSUME NEW n \in 0..(N - 1), Good(n) PROVE Good(n + 1)
  <2>1. SearchInv(f[n + 1])
    BY <1>2, <1>4, VisitKeeps
  <2>2. CASE Over(f[n])
    BY <1>2, <1>4, <2>1, <2>2, VisitKeeps
  <2>3. CASE ~Over(f[n])
    <3>1. Over(f[n + 1]) \/ Moves(f[n + 1]) = Moves(f[n]) + 1
      BY <1>2, <1>4, <2>3, VisitKeeps
    <3>2. Moves(f[n]) \in Nat /\ Moves(f[n]) >= n
      BY <1>4, <2>3, FewMoves
    <3> QED
      BY <2>1, <3>1, <3>2
  <2> QED
    BY <2>2, <2>3
<1> HIDE DEF Good
<1>5. \A n \in 0..N : n \in S
  <2>1. 0 \in S
    BY <1>3
  <2>2. \A n \in 0..(N - 1) : n \in S => n + 1 \in S
    BY <1>4
  <2> HIDE DEF S
  <2> QED
    BY <2>1, <2>2, UpTo
<1>6. SearchInv(f[N]) /\ (Over(f[N]) \/ Moves(f[N]) >= N)
  BY <1>5 DEF Good
<1>7. ~(Moves(f[N]) >= N)
  BY <1>1, <1>6, FewMoves, TasksFinite
<1> QED
  BY <1>1, <1>6, <1>7

(* validate() accepts the valid graphs. *)
LEMMA ValidatesIs == GraphTypeOK => (Validates <=> Valid)
<1> SUFFICES ASSUME GraphTypeOK PROVE Validates <=> Valid
  OBVIOUS
<1>1. PICK N \in Nat : N = 2 * Cardinality(tasks) + 1
  BY TasksFinite
<1>2. PICK f : f = CHOOSE g : Searches(g, N)
  OBVIOUS
<1>3. Searches(f, N)
  BY <1>2, SearchesExist
<1>4. DetectCycles = f[N]
  BY <1>1, <1>2 DEF DetectCycles, Searches
<1>5. SearchInv(f[N]) /\ Over(f[N])
  BY <1>1, <1>3, SearchEnds
<1>6. CASE f[N].raised
  BY <1>4, <1>5, <1>6, ValidIs DEF Validates, SearchInv
<1>7. CASE ~f[N].raised
  <2>1. Searched(f[N].path, tasks)
    BY <1>5, <1>7 DEF Over, SearchInv
  <2>2. Known /\ Rooted(tasks)
    BY <2>1 DEF Searched, Known
  <2> QED
    BY <1>4, <1>7, <2>2, ValidIs DEF Validates, Known
<1> QED
  BY <1>6, <1>7

-----------------------------------------------------------------------------
(* The topological sort: what it has placed depends on what was placed      *)
(* before, and its queue has all that waits for nothing else.               *)

PlacedBy(r) == {r[i] : i \in 1..Len(r)}

InOrder(r) ==
    /\ \A i, j \in 1..Len(r) : r[i] = r[j] => i = j
    /\ \A i \in 1..Len(r) : deps[r[i]] \subseteq {r[j] : j \in 1..(i - 1)}
    /\ IsFiniteSet(PlacedBy(r)) /\ Cardinality(PlacedBy(r)) = Len(r)

Sorts == [queue : SUBSET tasks, degree : [Tasks -> Nat], result : Seq(tasks)]

(* The queue and the degrees d of a sort that has placed R. *)
Waits(q, d, R) ==
    /\ q = {t \in tasks \ R : deps[t] \subseteq R}
    /\ \A t \in tasks \ R : d[t] = Cardinality(deps[t] \ R)

SortInv(s) ==
    /\ s \in Sorts
    /\ InOrder(s.result)
    /\ Waits(s.queue, s.degree, PlacedBy(s.result))

LEMMA DepsFinite ==
    ASSUME GraphTypeOK, NEW t \in Tasks, NEW R
    PROVE  /\ IsFiniteSet(deps[t] \ R) /\ Cardinality(deps[t] \ R) \in Nat
           /\ Cardinality(deps[t] \ R) = 0 <=> deps[t] \subseteq R
<1>1. IsFiniteSet(Tasks) /\ deps[t] \ R \subseteq Tasks
  BY DurationAssumption DEF GraphTypeOK
<1>2. IsFiniteSet(deps[t] \ R)
  BY <1>1, FS_Subset
<1>3. Cardinality(deps[t] \ R) \in Nat /\ (Cardinality(deps[t] \ R) = 0 <=> deps[t] \ R = {})
  BY <1>2, FS_CardinalityType, FS_EmptySet
<1> QED
  BY <1>2, <1>3

LEMMA AppendOrders ==
    ASSUME GraphTypeOK, NEW r \in Seq(tasks), InOrder(r), NEW t \in tasks,
           t \notin PlacedBy(r), deps[t] \subseteq PlacedBy(r)
    PROVE  /\ Append(r, t) \in Seq(tasks) /\ Len(Append(r, t)) = Len(r) + 1
           /\ PlacedBy(Append(r, t)) = PlacedBy(r) \cup {t}
           /\ InOrder(Append(r, t))
<1>1. PICK n \in Nat : n = Len(r)
  OBVIOUS
<1>2. PICK q : q = Append(r, t)
  BY Zenon
<1>3. /\ q \in Seq(tasks) /\ Len(q) = n + 1 /\ q[n + 1] = t
      /\ \A i \in 1..n : q[i] = r[i]
  BY <1>1, <1>2
<1>4. /\ \A i, j \in 1..n : r[i] = r[j] => i = j
      /\ \A i \in 1..n : deps[r[i]] \subseteq {r[j] : j \in 1..(i - 1)}
      /\ \A i \in 1..n : r[i] # t
      /\ deps[t] \subseteq {r[i] : i \in 1..n}
  BY Zenon, <1>1 DEF InOrder, PlacedBy
<1>5. \A i \in 1..(n + 1) : i \in 1..n \/ i = n + 1
  OBVIOUS
<1>6. PlacedBy(q) = PlacedBy(r) \cup {t}
  <2>1. PlacedBy(q) = {q[i] : i \in 1..(n + 1)} /\ PlacedBy(r) = {r[i] : i \in 1..n}
    BY <1>1, <1>3 DEF PlacedBy
  <2>2. n + 1 \in 1..(n + 1) /\ \A i \in 1..n : i \in 1..(n + 1)
    OBVIOUS
  <2> QED
    BY <1>3, <1>5, <2>1, <2>2
<1>7. \A i, j \in 1..(n + 1) : q[i] = q[j] => i = j
  BY <1>3, <1>4, <1>5
<1>8. \A i \in 1..(n + 1) : deps[q[i]] \subseteq {q[j] : j \in 1..(i - 1)}
  <2> TAKE i \in 1..(n + 1)
  <2>1. \A j \in 1..(i - 1) : j \in 1..n
    OBVIOUS
  <2>2. {q[j] : j \in 1..(i - 1)} = {r[j] : j \in 1..(i - 1)}
    BY <1>3, <2>1
  <2>3. CASE i \in 1..n
    BY <1>3, <1>4, <2>2, <2>3
  <2>4. CASE i = n + 1
    <3>1. i - 1 = n
      BY <2>4
    <3> QED
      BY <1>3, <1>4, <2>2, <2>4, <3>1
  <2> QED
    BY <1>5, <2>3, <2>4
<1>9. IsFiniteSet(PlacedBy(q)) /\ Cardinality(PlacedBy(q)) = n + 1
  <2>1. PICK R : R = PlacedBy(r)
    OBVIOUS
  <2>2. IsFiniteSet(R) /\ Cardinality(R) = n /\ t \notin R
    BY <1>1, <2>1 DEF InOrder
  <2>3. IsFiniteSet(R \cup {t}) /\ Cardinality(R \cup {t}) = n + 1
    BY <2>2, FS_AddElement
  <2> QED
    BY <1>6, <2>1, <2>3
<1>10. InOrder(q)
  BY <1>3, <1>7, <1>8, <1>9 DEF InOrder
<1> QED
  BY <1>1, <1>2, <1>3, <1>6, <1>10

(* The task placed, with one dependency less for those that wait for it. *)
Fewer(d, t) == [u \in Tasks |-> IF u \in dependents[t] THEN d[u] - 1 ELSE d[u]]

Queued(q, t, e) == (q \ {t}) \cup {u \in dependents[t] : e[u] = 0}

LEMMA WaitsFor ==
    ASSUME GraphTypeOK, EdgesInv, NEW r \in Seq(tasks), InOrder(r),
           NEW d \in [Tasks -> Nat], NEW q, Waits(q, d, PlacedBy(r)), NEW t, t \in q
    PROVE  /\ Fewer(d, t) \in [Tasks -> Nat]
           /\ Waits(Queued(q, t, Fewer(d, t)), Fewer(d, t), PlacedBy(r) \cup {t})
<1> PICK e : e = Fewer(d, t)
  OBVIOUS
<1> PICK w : w = Queued(q, t, e)
  OBVIOUS
<1>1. PICK R : R = PlacedBy(r)
  OBVIOUS
<1>2. PICK S : S = R \cup {t}
  OBVIOUS
<1>3. t \in tasks /\ t \notin R /\ deps[t] \subseteq R /\ tasks \subseteq Tasks
  BY <1>1 DEF Waits, GraphTypeOK
<1>4. dependents[t] = {u \in tasks : t \in deps[u]}
  BY <1>3 DEF EdgesInv, EdgesAgree
<1>5. \A u \in R : u \in tasks /\ deps[u] \subseteq R
  <2>1. PICK n \in Nat : n = Len(r) /\ \A i \in 1..n : r[i] \in tasks
    OBVIOUS
  <2>2. R = {r[i] : i \in 1..n}
    BY <1>1, <2>1 DEF PlacedBy
  <2>3. \A i \in 1..n : deps[r[i]] \subseteq {r[j] : j \in 1..(i - 1)}
    BY <2>1 DEF InOrder
  <2>4. \A i \in 1..n : {r[j] : j \in 1..(i - 1)} \subseteq R
    BY <2>2
  <2> QED
    BY <2>1, <2>2, <2>3, <2>4
<1>6. \A u \in dependents[t] : u \in tasks \ S /\ t \in deps[u] \ R
  BY <1>2, <1>3, <1>4, <1>5
<1>7. \A u \in tasks \ R : d[u] = Cardinality(deps[u] \ R)
  BY <1>1 DEF Waits
<1>8. \A u \in dependents[t] : d[u] # 0
  <2> SUFFICES ASSUME NEW u \in dependents[t] PROVE d[u] # 0
    OBVIOUS
  <2>1. u \in Tasks /\ u \in tasks \ R /\ ~(deps[u] \subseteq R)
    BY <1>2, <1>3, <1>6
  <2> QED
    BY <1>7, <2>1, DepsFinite
<1>9. /\ \A u \in Tasks : d[u] \in Nat /\ e[u] = IF u \in dependents[t] THEN d[u] - 1 ELSE d[u]
      /\ e = [u \in Tasks |-> e[u]]
  BY DEF Fewer
<1>10. e \in [Tasks -> Nat]
  <2>1. \A u \in Tasks : e[u] \in Nat
    BY <1>8, <1>9
  <2> QED
    BY <1>9, <2>1
<1>11. \A u \in tasks \ S : e[u] = Cardinality(deps[u] \ S)
  <2> SUFFICES ASSUME NEW u \in tasks \ S PROVE e[u] = Cardinality(deps[u] \ S)
    OBVIOUS
  <2>1. u \in tasks \ R /\ u \in Tasks /\ d[u] = Cardinality(deps[u] \ R)
    BY <1>2, <1>3, <1>7
  <2>2. IsFiniteSet(deps[u] \ R) /\ Cardinality(deps[u] \ R) \in Nat
    BY <2>1, DepsFinite
  <2>3. CASE t \in deps[u]
    <3>1. u \in dependents[t]
      BY <1>4, <2>3
    <3>2. deps[u] \ S = (deps[u] \ R) \ {t} /\ t \in deps[u] \ R
      BY <1>2, <1>3, <2>3
    <3>3. Cardinality((deps[u] \ R) \ {t}) = Cardinality(deps[u] \ R) - 1
      BY <2>2, <3>2, FS_RemoveElement
    <3> QED
      BY <1>9, <2>1, <3>1, <3>2, <3>3
  <2>4. CASE t \notin deps[u]
    <3>1. u \notin dependents[t] /\ deps[u] \ S = deps[u] \ R
      BY <1>2, <1>4, <2>4
    <3> QED
      BY <1>9, <2>1, <3>1
  <2> QED
    BY <2>3, <2>4
<1>12. \A u \in tasks \ S : e[u] = 0 <=> deps[u] \subseteq S
  <2> SUFFICES ASSUME NEW u \in tasks \ S PROVE e[u] = 0 <=> deps[u] \subseteq S
    OBVIOUS
  <2>1. u \in Tasks
    BY <1>3
  <2> QED
    BY <1>11, <2>1, DepsFinite
<1>13. q = {u \in tasks \ R : deps[u] \subseteq R}
  BY <1>1 DEF Waits
<1>14. w = {u \in tasks \ S : deps[u] \subseteq S}
  <2>1. \A u \in q \ {t} : u \in tasks \ S /\ deps[u] \subseteq S
    BY <1>2, <1>13
  <2>2. \A u \in dependents[t] : e[u] = 0 => u \in tasks \ S /\ deps[u] \subseteq S
    BY <1>6, <1>12
  <2>3. \A u \in tasks \ S : deps[u] \subseteq S =>
            u \in q \ {t} \/ (u \in dependents[t] /\ e[u] = 0)
    BY <1>2, <1>4, <1>12, <1>13
  <2> QED
    BY <2>1, <2>2, <2>3 DEF Queued
<1>15. Waits(w, e, S)
  BY <1>11, <1>14 DEF Waits
<1> QED
  BY <1>1, <1>2, <1>10, <1>15

LEMMA RoundKeeps ==
    ASSUME GraphTypeOK, EdgesInv, NEW s, SortInv(s)
    PROVE  /\ SortInv(Round(s))
           /\ s.queue = {} => Round(s).queue = {}
           /\ s.queue # {} => Len(Round(s).result) = Len(s.result) + 1
<1>1. CASE s.queue = {}
  BY <1>1 DEF Round
<1>2. CASE s.queue # {}
  <2>1. PICK t : t = Pick(s.queue)
    OBVIOUS
  <2>2. t \in s.queue
    BY <1>2, <2>1 DEF Pick
  <2>3. PICK q \in SUBSET tasks, d \in [Tasks -> Nat], r \in Seq(tasks) :
            s.queue = q /\ s.degree = d /\ s.result = r
    BY DEF SortInv, Sorts
  <2>4. InOrder(r) /\ Waits(q, d, PlacedBy(r)) /\ t \in q
    BY <2>2, <2>3 DEF SortInv
  <2>5. PICK e : e = Fewer(d, t)
    OBVIOUS
  <2>6. PICK q2 : q2 = Queued(q, t, e)
    OBVIOUS
  <2>7. PICK r2 : r2 = Append(r, t)
    OBVIOUS
  <2>8. Round(s) = [queue |-> q2, degree |-> e, result |-> r2]
    BY <1>2, <2>1, <2>3, <2>5, <2>6, <2>7 DEF Round, Fewer, Queued
  <2>9. e \in [Tasks -> Nat] /\ Waits(q2, e, PlacedBy(r) \cup {t})
    BY <2>4, <2>5, <2>6, WaitsFor
  <2>10. t \in tasks /\ t \notin PlacedBy(r) /\ deps[t] \subseteq PlacedBy(r)
    BY <2>4 DEF Waits
  <2>11. r2 \in Seq(tasks) /\ Len(r2) = Len(r) + 1 /\ PlacedBy(r2) = PlacedBy(r) \cup {t} /\ InOrder(r2)
    BY <2>4, <2>7, <2>10, AppendOrders
  <2>12. q2 \in SUBSET tasks
    BY <2>9 DEF Waits
  <2>13. /\ Round(s) \in Sorts
         /\ Round(s).queue = q2 /\ Round(s).degree = e /\ Round(s).result = r2
    BY <2>8, <2>9, <2>11, <2>12 DEF Sorts
  <2>14. Waits(q2, e, PlacedBy(r2))
    BY <2>9, <2>11
  <2>15. SortInv(Round(s))
    BY <2>11, <2>13, <2>14 DEF SortInv
  <2> QED
    BY <1>2, <2>3, <2>11, <2>13, <2>15
<1> QED
  BY <1>1, <1>2

Unsorted == [queue |-> {t \in tasks : InDegree(t) = 0},
             degree |-> [t \in Tasks |-> InDegree(t)],
             result |-> <<>>]

LEMMA SortStarts ==
    ASSUME GraphTypeOK
    PROVE  SortInv(Unsorted)
<1>1. PICK r : r = <<>>
  OBVIOUS
<1>2. r \in Seq(tasks) /\ Len(r) = 0
  BY <1>1
<1>3. PlacedBy(r) = {}
  BY <1>2 DEF PlacedBy
<1>4. InOrder(r)
  BY <1>2, <1>3, FS_EmptySet DEF InOrder
<1>5. PICK d : d = [t \in Tasks |-> InDegree(t)]
  OBVIOUS
<1>6. PICK q : q = {t \in tasks : InDegree(t) = 0}
  OBVIOUS
<1>7. \A t \in Tasks : /\ deps[t] \ {} = deps[t] /\ InDegree(t) = Cardinality(deps[t])
                       /\ InDegree(t) \in Nat /\ (InDegree(t) = 0 <=> deps[t] \subseteq {})
  <2> TAKE t \in Tasks
  <2>1. deps[t] \ {} = deps[t]
    OBVIOUS
  <2>2. /\ Cardinality(deps[t] \ {}) \in Nat
        /\ Cardinality(deps[t] \ {}) = 0 <=> deps[t] \subseteq {}
    BY DepsFinite
  <2> QED
    BY <2>1, <2>2 DEF InDegree
<1>8. tasks \subseteq Tasks
  BY DEF GraphTypeOK
<1>9. d \in [Tasks -> Nat] /\ Waits(q, d, {})
  BY <1>5, <1>6, <1>7, <1>8 DEF Waits
<1>10. Unsorted = [queue |-> q, degree |-> d, result |-> r]
  BY <1>1, <1>5, <1>6 DEF Unsorted
<1> QED
  BY <1>2, <1>3, <1>4, <1>6, <1>9, <1>10 DEF SortInv, Sorts

SortsBy(f, N) == f = [n \in 0..N |-> IF n = 0 THEN Unsorted ELSE Round(f[n - 1])]

LEMMA SortsExist ==
    ASSUME GraphTypeOK, EdgesInv, NEW N \in Nat
    PROVE  \E f : SortsBy(f, N)
<1>1. PICK X : X = {s \in Sorts : SortInv(s)}
  OBVIOUS
<1>2. Unsorted \in X /\ \A s \in X : Round(s) \in X
  BY <1>1, SortStarts, RoundKeeps DEF SortInv
<1>3. PICK G : G = [s \in X |-> Round(s)]
  OBVIOUS
<1>4. G \in [X -> X]
  BY <1>2, <1>3
<1> PICK f : Iteration(f, N, X, Unsorted, G)
  BY <1>2, <1>4, IterationsExist
<1>5. f \in [0..N -> X] /\ f[0] = Unsorted /\ \A n \in 1..N : f[n] = G[f[n - 1]]
  BY DEF Iteration
<1>6. \A n \in 0..N : f[n] = IF n = 0 THEN Unsorted ELSE Round(f[n - 1])
  <2> TAKE n \in 0..N
  <2>1. CASE n = 0
    BY <1>5, <2>1
  <2>2. CASE n # 0
    <3>1. n \in 1..N /\ n - 1 \in 0..N
      BY <2>2
    <3>2. f[n - 1] \in X
      BY <1>5, <3>1
    <3> QED
      BY <1>3, <1>5, <2>2, <3>1, <3>2
  <2> QED
    BY <2>1, <2>2
<1>7. f = [n \in 0..N |-> f[n]]
  BY <1>5
<1> QED
  BY <1>6, <1>7 DEF SortsBy

(* A round places one task, until the queue is empty. *)
LEMMA SortEnds ==
    ASSUME GraphTypeOK, EdgesInv, NEW N \in Nat, NEW f, SortsBy(f, N)
    PROVE  SortInv(f[N]) /\ (f[N].queue = {} \/ Len(f[N].result) >= N)
<1>1. f[0] = Unsorted /\ \A n \in 0..(N - 1) : f[n + 1] = Round(f[n])
  <2>1. \A n \in 0..N : f[n] = IF n = 0 THEN Unsorted ELSE Round(f[n - 1])
    BY DEF SortsBy
  <2>2. \A n \in 0..(N - 1) : n + 1 \in 0..N /\ n + 1 # 0 /\ (n + 1) - 1 = n
    OBVIOUS
  <2> QED
    BY <2>1, <2>2
<1> DEFINE Good(n) == SortInv(f[n]) /\ (f[n].queue = {} \/ Len(f[n].result) >= n)
           S == {n \in 0..N : Good(n)}
<1>2. Good(0)
  <2>1. SortInv(f[0])
    BY <1>1, SortStarts
  <2>2. Len(f[0].result) = 0
    BY <1>1 DEF Unsorted
  <2> QED
    BY <2>1, <2>2
<1>3. ASSUME NEW n \in 0..(N - 1), Good(n) PROVE Good(n + 1)
  <2>1. PICK s : s = f[n]
    OBVIOUS
  <2>2. SortInv(s) /\ (s.queue = {} \/ Len(s.result) >= n) /\ f[n + 1] = Round(s)
    BY <1>1, <1>3, <2>1
  <2>3. /\ SortInv(Round(s))
        /\ s.queue = {} => Round(s).queue = {}
        /\ s.queue # {} => Len(Round(s).result) = Len(s.result) + 1
    BY <2>2, RoundKeeps
  <2>4. Len(s.result) \in Nat
    BY <2>2 DEF SortInv, Sorts
  <2>5. Round(s).queue = {} \/ Len(Round(s).result) >= n + 1
    BY <2>2, <2>3, <2>4
  <2> QED
    BY <2>2, <2>3, <2>5
<1> HIDE DEF Good
<1>4. \A n \in 0..N : n \in S
  <2>1. 0 \in S
    BY <1>2
  <2>2. \A n \in 0..(N - 1) : n \in S => n + 1 \in S
    BY <1>3
  <2> HIDE DEF S
  <2> QED
    BY <2>1, <2>2, UpTo
<1> QED
  BY <1>4 DEF Good

(* The order: tasks after what they depend on, and all of them in the graphs
   whose dependencies are known and have no cycle, but no others. *)
LEMMA SortIs ==
    ASSUME GraphTypeOK, EdgesInv
    PROVE  /\ TopologicalSort \in Seq(tasks) /\ InOrder(TopologicalSort)
           /\ ~SortRaises => PlacedBy(TopologicalSort) = tasks /\ Rooted(tasks)
           /\ Known /\ Rooted(tasks) => ~SortRaises
<1>1. PICK N \in Nat : N = Cardinality(tasks) /\ IsFiniteSet(tasks)
  BY TasksFinite
<1>2. PICK f : f = CHOOSE g : SortsBy(g, N)
  OBVIOUS
<1>3. SortsBy(f, N)
  BY <1>2, SortsExist
<1>4. TopologicalSort = f[N].result
  BY <1>1, <1>2 DEF TopologicalSort, SortsBy, Unsorted
<1>5. SortInv(f[N]) /\ (f[N].queue = {} \/ Len(f[N].result) >= N)
  BY <1>3, SortEnds
<1>6. PICK r \in Seq(tasks), q \in SUBSET tasks :
          f[N].result = r /\ f[N].queue = q
  BY <1>5 DEF SortInv, Sorts
<1>7. PICK R : R = PlacedBy(r)
  OBVIOUS
<1>8. PICK n \in Nat : n = Len(r) /\ \A i \in 1..n : r[i] \in tasks
  OBVIOUS
<1>9. InOrder(r) /\ R = {r[i] : i \in 1..n} /\ R \subseteq tasks
  BY <1>5, <1>6, <1>7, <1>8 DEF SortInv, PlacedBy
<1>10. IsFiniteSet(R) /\ Cardinality(R) = n /\ q = {t \in tasks \ R : deps[t] \subseteq R}
  BY <1>5, <1>6, <1>7, <1>8 DEF SortInv, InOrder, Waits
<1>11. n = N <=> R = tasks
  BY <1>1, <1>9, <1>10, FS_Subset
<1>12. q = {} \/ n >= N
  BY <1>5, <1>6, <1>8
<1>13. SortRaises <=> n # N
  BY <1>1, <1>4, <1>6, <1>8 DEF SortRaises
<1>14. ASSUME R = tasks PROVE Rooted(tasks)
  <2> SUFFICES ASSUME NEW U \in SUBSET tasks, U # {} PROVE \E t \in U : deps[t] \cap U = {}
    BY DEF Rooted
  <2>1. PICK I : I = {i \in 1..n : r[i] \in U}
    OBVIOUS
  <2>2. I # {} /\ I \in SUBSET Nat
    BY <1>9, <1>14, <2>1
  <2>3. PICK i \in I : \A j \in I : i <= j
    BY <2>2, LeastNumber
  <2>4. deps[r[i]] \subseteq {r[j] : j \in 1..(i - 1)}
    BY <1>8, <1>9, <2>1 DEF InOrder
  <2>5. \A j \in 1..(i - 1) : r[j] \notin U
    BY <1>8, <2>1, <2>3
  <2>6. PICK t \in U : t = r[i]
    BY <2>1
  <2>7. \A d \in deps[t] : d \notin U
    BY <2>4, <2>5, <2>6
  <2> QED
    BY <2>7
<1>15. ASSUME Known, Rooted(tasks), R # tasks PROVE q # {}
  <2>1. PICK t \in tasks \ R : deps[t] \cap (tasks \ R) = {}
    BY <1>9, <1>15 DEF Rooted
  <2>2. deps[t] \subseteq R
    BY <1>15, <2>1 DEF Known
  <2> QED
    BY <1>10, <2>1, <2>2
<1>16. n <= N
  BY <1>1, <1>9, <1>10, FS_Subset
<1>17. Known /\ Rooted(tasks) => n = N
  BY <1>11, <1>12, <1>15, <1>16
<1> QED
  BY <1>4, <1>6, <1>7, <1>9, <1>11, <1>13, <1>14, <1>17

LEMMA OrdersHold == GraphTypeOK /\ EdgesInv => OrdersAreSound
<1> SUFFICES ASSUME GraphTypeOK, EdgesInv PROVE OrdersAreSound
  OBVIOUS
<1>1. Validates <=> Valid
  BY ValidatesIs
<1>2. Known => (SortRaises <=> ~Valid)
  BY SortIs, ValidIs
<1>3. \A i, j \in 1..Len(TopologicalSort) :
          TopologicalSort[i] \in deps[TopologicalSort[j]] => i < j
  <2>1. PICK r \in Seq(tasks) : r = TopologicalSort /\ InOrder(r)
    BY SortIs
  <2>2. PICK n \in Nat : n = Len(r)
    OBVIOUS
  <2>3. /\ \A i, j \in 1..n : r[i] = r[j] => i = j
        /\ \A i \in 1..n : deps[r[i]] \subseteq {r[j] : j \in 1..(i - 1)}
    BY <2>1, <2>2 DEF InOrder
  <2>4. ASSUME NEW i \in 1..n, NEW j \in 1..n, r[i] \in deps[r[j]] PROVE i < j
    <3>1. PICK k \in 1..(j - 1) : r[i] = r[k]
      BY <2>3, <2>4
    <3>2. k \in 1..n /\ k < j
      BY <3>1
    <3> QED
      BY <2>3, <3>1, <3>2
  <2> QED
    BY <2>1, <2>2, <2>4
<1> QED
  BY <1>1, <1>2, <1>3 DEF OrdersAreSound, Known

-----------------------------------------------------------------------------
(* The critical path.                                                      *)

(* Of finitely many values one is the greatest. *)
LEMMA GreatestValue ==
    ASSUME NEW n \in Nat, NEW f \in [1..n -> Nat], NEW I \in SUBSET (1..n), I # {},
           NEW V, V = {f[j] : j \in I}
    PROVE  Max(V) \in V /\ Max(V) \in Nat /\ \A v \in V : v <= Max(V)
<1> DEFINE S == {k \in 0..n : \E M \in Nat : \A j \in 1..k : f[j] <= M}
<1>1. 0 \in S
  <2>1. \A j \in 1..0 : f[j] <= 0
    OBVIOUS
  <2> QED
    BY <2>1
<1>2. \A k \in 0..(n - 1) : k \in S => k + 1 \in S
  <2> SUFFICES ASSUME NEW k \in 0..(n - 1), NEW M \in Nat, \A j \in 1..k : f[j] <= M
               PROVE  k + 1 \in S
    OBVIOUS
  <2>1. PICK m \in Nat : m = f[k + 1]
    OBVIOUS
  <2>2. \A j \in 1..(k + 1) : f[j] \in Nat /\ (j \in 1..k \/ j = k + 1)
    OBVIOUS
  <2>3. \A j \in 1..(k + 1) : f[j] <= M + m
    BY <2>1, <2>2
  <2> QED
    BY <2>3
<1> HIDE DEF S
<1>3. \A k \in 0..n : k \in S
  BY <1>1, <1>2, UpTo
<1>4. PICK M \in Nat : \A j \in 1..n : f[j] <= M
  <2>1. n \in S
    BY <1>3
  <2> QED
    BY <2>1 DEF S
<1>5. V \in SUBSET (0..M) /\ V # {}
  <2>1. \A j \in I : f[j] \in 0..M
    BY <1>4
  <2> QED
    BY <2>1
<1> QED
  BY <1>5, GreatestNumber

(* The tasks sorted before the i-th that it depends on. *)
Earlier(r, i) == {j \in 1..(i - 1) : r[j] \in deps[r[i]]}

Waited(f, r, i) == IF Earlier(r, i) = {} THEN 0 ELSE Max({f[j] : j \in Earlier(r, i)})

Distances(f, r, k) ==
    f \in [1..k -> Nat] /\ \A i \in 1..k : f[i] = Duration[r[i]] + Waited(f, r, i)

LEMMA WaitedIs ==
    ASSUME NEW k \in Nat, NEW f \in [1..k -> Nat], NEW r, NEW i \in 1..(k + 1)
    PROVE  /\ Waited(f, r, i) \in Nat
           /\ \A j \in Earlier(r, i) : f[j] <= Waited(f, r, i)
           /\ Earlier(r, i) # {} => \E j \in Earlier(r, i) : f[j] = Waited(f, r, i)
<1>1. PICK I \in SUBSET (1..k) : I = Earlier(r, i)
  <2>1. \A j \in 1..(i - 1) : j \in 1..k
    OBVIOUS
  <2>2. Earlier(r, i) \in SUBSET (1..k)
    BY <2>1 DEF Earlier
  <2> QED
    BY <2>2
<1>2. PICK V : V = {f[j] : j \in I}
  OBVIOUS
<1>3. CASE I = {}
  BY <1>1, <1>3 DEF Waited
<1>4. CASE I # {}
  <2>1. Max(V) \in V /\ Max(V) \in Nat /\ \A v \in V : v <= Max(V)
    BY <1>2, <1>4, GreatestValue
  <2>2. Waited(f, r, i) = Max(V)
    BY <1>1, <1>2, <1>4 DEF Waited
  <2> QED
    BY <1>1, <1>2, <2>1, <2>2
<1> QED
  BY <1>3, <1>4

LEMMA WaitedSame ==
    ASSUME NEW r, NEW i \in Nat, NEW f, NEW g, \A j \in 1..(i - 1) : f[j] = g[j]
    PROVE  Waited(f, r, i) = Waited(g, r, i)
<1>1. {f[j] : j \in Earlier(r, i)} = {g[j] : j \in Earlier(r, i)}
  BY DEF Earlier
<1> QED
  BY <1>1 DEF Waited

LEMMA DistancesExist ==
    ASSUME GraphTypeOK, NEW r \in Seq(tasks)
    PROVE  \E f : Distances(f, r, Len(r))
<1>1. PICK N \in Nat : N = Len(r) /\ \A i \in 1..N : r[i] \in tasks
  OBVIOUS
<1>2. \A i \in 1..N : Duration[r[i]] \in Nat
  BY <1>1, DurationAssumption DEF GraphTypeOK
<1> DEFINE S == {k \in Nat : \E f : Distances(f, r, k)}
<1>3. 0 \in S
  <2>1. Distances([i \in 1..0 |-> 0], r, 0)
    BY DEF Distances
  <2> QED
    BY <2>1
<1>4. \A k \in 0..(N - 1) : k \in S => k + 1 \in S
  <2> SUFFICES ASSUME NEW k \in 0..(N - 1), NEW f, Distances(f, r, k) PROVE k + 1 \in S
    OBVIOUS
  <2>1. k \in Nat /\ f \in [1..k -> Nat] /\ \A i \in 1..k : f[i] = Duration[r[i]] + Waited(f, r, i)
    BY DEF Distances
  <2>2. k + 1 \in 1..N /\ k + 1 \in 1..(k + 1)
    BY <2>1
  <2>3. PICK v \in Nat : v = Duration[r[k + 1]] + Waited(f, r, k + 1)
    <3>1. Waited(f, r, k + 1) \in Nat
      BY <2>1, <2>2, WaitedIs
    <3> QED
      BY <1>2, <2>2, <3>1
  <2>4. PICK h : h = [i \in 1..(k + 1) |-> IF i <= k THEN f[i] ELSE v]
    OBVIOUS
  <2>5. h \in [1..(k + 1) -> Nat] /\ h[k + 1] = v /\ \A i \in 1..k : h[i] = f[i]
    BY <2>1, <2>4
  <2>6. \A i \in 1..(k + 1) : h[i] = Duration[r[i]] + Waited(h, r, i)
    <3> TAKE i \in 1..(k + 1)
    <3>1. i \in Nat /\ \A j \in 1..(i - 1) : j \in 1..k /\ h[j] = f[j]
      BY <2>1, <2>5
    <3>2. Waited(h, r, i) = Waited(f, r, i)
      BY <3>1, WaitedSame
    <3>3. CASE i \in 1..k
      BY <2>1, <2>5, <3>2, <3>3
    <3>4. CASE i = k + 1
      BY <2>3, <2>5, <3>2, <3>4
    <3> QED
      BY <2>1, <3>3, <3>4
  <2>7. Distances(h, r, k + 1)
    BY <2>5, <2>6 DEF Distances
  <2> QED
    BY <2>1, <2>7
<1> HIDE DEF S
<1>5. N \in S
  <2>1. \A n \in 0..N : n \in S
    BY <1>3, <1>4, UpTo
  <2> QED
    BY <2>1
<1> QED
  BY <1>1, <1>5 DEF S

IsDist(f, r) == f = [i \in 1..Len(r) |-> Duration[r[i]] + Waited(f, r, i)]

LEMMA DistIs ==
    ASSUME GraphTypeOK, NEW r \in Seq(tasks)
    PROVE  Distances(DistAlong(r), r, Len(r))
<1>1. PICK N \in Nat : N = Len(r)
  OBVIOUS
<1>2. PICK g : Distances(g, r, N)
  BY <1>1, DistancesExist
<1>3. g \in [1..N -> Nat] /\ \A i \in 1..N : g[i] = Duration[r[i]] + Waited(g, r, i)
  BY <1>2 DEF Distances
<1>4. IsDist(g, r)
  BY <1>1, <1>3 DEF IsDist
<1>5. PICK f : f = CHOOSE h : IsDist(h, r)
  OBVIOUS
<1>6. IsDist(f, r)
  BY <1>4, <1>5
<1>7. DistAlong(r) = f
  BY <1>5 DEF DistAlong, IsDist, Waited, Earlier
<1>8. DOMAIN f = 1..N /\ \A i \in 1..N : f[i] = Duration[r[i]] + Waited(f, r, i)
  BY <1>1, <1>6 DEF IsDist
<1> DEFINE S == {k \in 0..N : \A i \in 1..k : f[i] = g[i]}
<1>9. 0 \in S
  OBVIOUS
<1>10. \A k \in 0..(N - 1) : k \in S => k + 1 \in S
  <2> SUFFICES ASSUME NEW k \in 0..(N - 1), \A i \in 1..k : f[i] = g[i]
               PROVE  k + 1 \in S
    OBVIOUS
  <2>1. k + 1 \in Nat /\ k + 1 \in 1..N /\ (k + 1) - 1 = k
    OBVIOUS
  <2>2. Waited(f, r, k + 1) = Waited(g, r, k + 1)
    BY <2>1, WaitedSame
  <2>3. f[k + 1] = g[k + 1]
    BY <1>3, <1>8, <2>1, <2>2
  <2>4. \A i \in 1..(k + 1) : i \in 1..k \/ i = k + 1
    OBVIOUS
  <2> QED
    BY <2>1, <2>3, <2>4
<1> HIDE DEF S
<1>11. \A n \in 0..N : n \in S
  BY <1>9, <1>10, UpTo
<1>12. \A i \in 1..N : f[i] = g[i]
  <2>1. N \in S
    BY <1>11
  <2> QED
    BY <2>1 DEF S
<1>13. f = g
  <2>1. f = [i \in 1..N |-> f[i]]
    BY <1>1, <1>6 DEF IsDist
  <2>2. g = [i \in 1..N |-> g[i]]
    BY <1>3
  <2> QED
    BY <1>12, <2>1, <2>2
<1> QED
  BY <1>1, <1>2, <1>7, <1>13

(* What a chain takes: s[k] for its first k tasks. *)
SumsOf(s, c, n) ==
    s \in [0..n -> Nat] /\ s[0] = 0 /\ \A k \in 1..n : s[k] = s[k - 1] + Duration[c[k]]

LEMMA ChainSumsExist ==
    ASSUME GraphTypeOK, NEW n \in Nat, NEW c \in [1..n -> tasks]
    PROVE  \E s : SumsOf(s, c, n)
<1>1. \A k \in 1..n : Duration[c[k]] \in Nat
  BY DurationAssumption DEF GraphTypeOK
<1> DEFINE S == {k \in Nat : \E s : SumsOf(s, c, k)}
<1>2. 0 \in S
  <2>1. SumsOf([k \in 0..0 |-> 0], c, 0)
    BY DEF SumsOf
  <2> QED
    BY <2>1
<1>3. \A k \in 0..(n - 1) : k \in S => k + 1 \in S
  <2> SUFFICES ASSUME NEW k \in 0..(n - 1), NEW s, SumsOf(s, c, k) PROVE k + 1 \in S
    OBVIOUS
  <2>1. k \in Nat /\ s \in [0..k -> Nat] /\ s[0] = 0 /\ \A m \in 1..k : s[m] = s[m - 1] + Duration[c[m]]
    BY DEF SumsOf
  <2>2. PICK v \in Nat : v = s[k] + Duration[c[k + 1]]
    <3>1. k + 1 \in 1..n /\ k \in 0..k
      BY <2>1
    <3>2. s[k] \in Nat /\ Duration[c[k + 1]] \in Nat
      BY <1>1, <2>1, <3>1
    <3> QED
      BY <3>2
  <2>3. PICK z : z = [m \in 0..(k + 1) |-> IF m <= k THEN s[m] ELSE v]
    OBVIOUS
  <2>4. /\ z \in [0..(k + 1) -> Nat] /\ z[0] = 0 /\ z[k + 1] = v
        /\ \A m \in 0..k : z[m] = s[m]
    BY <2>1, <2>3
  <2>5. \A m \in 1..(k + 1) : z[m] = z[m - 1] + Duration[c[m]]
    <3> TAKE m \in 1..(k + 1)
    <3>1. CASE m \in 1..k
      <4>1. m \in 0..k /\ m - 1 \in 0..k
        BY <3>1
      <4> QED
        BY <2>1, <2>4, <3>1, <4>1
    <3>2. CASE m = k + 1
      <4>1. m - 1 = k /\ k \in 0..k
        BY <2>1, <3>2
      <4> QED
        BY <2>2, <2>4, <3>2, <4>1
    <3> QED
      BY <2>1, <3>1, <3>2
  <2>6. SumsOf(z, c, k + 1)
    BY <2>4, <2>5 DEF SumsOf
  <2> QED
    BY <2>1, <2>6
<1> HIDE DEF S
<1>4. n \in S
  <2>1. \A k \in 0..n : k \in S
    BY <1>2, <1>3, UpTo
  <2> QED
    BY <2>1
<1> QED
  BY <1>4 DEF S

IsChainSum(f, c) ==
    f = [n \in 0..Len(c) |-> IF n = 0 THEN 0 ELSE f[n - 1] + Duration[c[n]]]

LEMMA SumOfChainIs ==
    ASSUME NEW n \in Nat, NEW c, Len(c) = n, NEW s, SumsOf(s, c, n)
    PROVE  SumOfChain(c) = s[n]
<1>1. s \in [0..n -> Nat] /\ s[0] = 0 /\ \A k \in 1..n : s[k] = s[k - 1] + Duration[c[k]]
  BY DEF SumsOf
<1>2. IsChainSum(s, c)
  <2>1. \A k \in 0..n : s[k] = IF k = 0 THEN 0 ELSE s[k - 1] + Duration[c[k]]
    BY <1>1
  <2>2. s = [k \in 0..n |-> s[k]]
    BY <1>1
  <2> QED
    BY <2>1, <2>2 DEF IsChainSum
<1>3. PICK f : f = CHOOSE g : IsChainSum(g, c)
  OBVIOUS
<1>4. IsChainSum(f, c)
  BY <1>2, <1>3
<1>5. SumOfChain(c) = f[n]
  BY <1>3 DEF SumOfChain, IsChainSum
<1>6. \A k \in 0..n : f[k] = IF k = 0 THEN 0 ELSE f[k - 1] + Duration[c[k]]
  BY <1>4 DEF IsChainSum
<1> DEFINE S == {k \in 0..n : f[k] = s[k]}
<1>7. 0 \in S
  BY <1>1, <1>6
<1>8. \A k \in 0..(n - 1) : k \in S => k + 1 \in S
  <2> SUFFICES ASSUME NEW k \in 0..(n - 1), f[k] = s[k] PROVE f[k + 1] = s[k + 1]
    OBVIOUS
  <2>1. k + 1 \in 1..n /\ k + 1 \in 0..n /\ k + 1 # 0 /\ (k + 1) - 1 = k
    OBVIOUS
  <2>2. f[k + 1] = f[k] + Duration[c[k + 1]] /\ s[k + 1] = s[k] + Duration[c[k + 1]]
    BY <1>1, <1>6, <2>1
  <2> QED
    BY <2>2
<1> HIDE DEF S
<1>9. n \in S
  <2>1. \A k \in 0..n : k \in S
    BY <1>7, <1>8, UpTo
  <2> QED
    BY <2>1
<1> QED
  BY <1>5, <1>9 DEF S

(* No chain is longer than the distance of its last task. *)
LEMMA ChainsAreShort ==
    ASSUME GraphTypeOK, NEW r \in Seq(tasks), InOrder(r), PlacedBy(r) = tasks,
           NEW f, Distances(f, r, Len(r)),
           NEW n \in Nat \ {0}, NEW c, ChainIn(tasks, n, c), NEW s, SumsOf(s, c, n)
    PROVE  \E i \in 1..Len(r) : s[n] <= f[i]
<1>1. PICK N \in Nat : N = Len(r) /\ \A i \in 1..N : r[i] \in tasks
  OBVIOUS
<1>2. f \in [1..N -> Nat] /\ \A i \in 1..N : f[i] = Duration[r[i]] + Waited(f, r, i)
  BY <1>1 DEF Distances
<1>3. s \in [0..n -> Nat] /\ s[0] = 0 /\ \A k \in 1..n : s[k] = s[k - 1] + Duration[c[k]]
  BY DEF SumsOf
<1>4. c \in [1..n -> tasks] /\ \A k \in 1..(n - 1) : c[k] \in deps[c[k + 1]]
  BY DEF ChainIn
<1>5. \A t \in tasks : \E i \in 1..N : r[i] = t
  BY <1>1 DEF PlacedBy
<1>6. \A i \in 1..N : deps[r[i]] \subseteq {r[j] : j \in 1..(i - 1)}
  BY <1>1 DEF InOrder
<1>7. \A t \in tasks : Duration[t] \in Nat
  BY DurationAssumption DEF GraphTypeOK
<1>8. \A i \in 1..N : Waited(f, r, i) \in Nat /\ \A j \in Earlier(r, i) : f[j] <= Waited(f, r, i)
  <2> TAKE i \in 1..N
  <2>1. i \in 1..(N + 1)
    OBVIOUS
  <2> QED
    BY <1>2, <2>1, WaitedIs
<1> DEFINE Short(k) == k = 0 \/ \A i \in 1..N : r[i] = c[k] => s[k] <= f[i]
           S == {k \in 0..n : Short(k)}
<1>9. 0 \in S
  OBVIOUS
<1>10. ASSUME NEW k \in 0..(n - 1), Short(k) PROVE Short(k + 1)
  <2> SUFFICES ASSUME NEW i \in 1..N, r[i] = c[k + 1] PROVE s[k + 1] <= f[i]
    OBVIOUS
  <2>1. PICK d \in Nat, w \in Nat, a \in Nat :
            /\ d = Duration[r[i]] /\ w = Waited(f, r, i) /\ a = s[k]
            /\ f[i] = d + w
    <3>1. k \in 0..n /\ r[i] \in tasks
      BY <1>1
    <3>2. s[k] \in Nat
      BY <1>3, <3>1
    <3>3. Duration[r[i]] \in Nat /\ Waited(f, r, i) \in Nat
      BY <1>7, <1>8, <3>1
    <3>4. f[i] = Duration[r[i]] + Waited(f, r, i)
      BY <1>2
    <3> QED
      BY <3>2, <3>3, <3>4
  <2>2. k + 1 \in 1..n /\ (k + 1) - 1 = k
    OBVIOUS
  <2>3. s[k + 1] = a + d
    BY <1>3, <2>1, <2>2
  <2>4. CASE k = 0
    BY <1>3, <2>1, <2>3, <2>4
  <2>5. CASE k # 0
    <3>1. k \in 1..(n - 1) /\ k \in 1..n
      BY <2>5
    <3>2. c[k] \in deps[r[i]]
      BY <1>4, <3>1
    <3>3. PICK j \in 1..(i - 1) : r[j] = c[k]
      BY <1>6, <3>2
    <3>4. j \in Earlier(r, i) /\ j \in 1..N
      BY <3>2, <3>3 DEF Earlier
    <3>5. a <= f[j] /\ f[j] <= w /\ f[j] \in Nat
      <4>1. a <= f[j]
        BY <1>10, <2>1, <2>5, <3>3, <3>4
      <4>2. f[j] <= w
        BY <1>8, <2>1, <3>4
      <4>3. f[j] \in Nat
        BY <1>2, <3>4
      <4> QED
        BY <4>1, <4>2, <4>3
    <3>6. a <= w
      <4>1. PICK x \in Nat : x = f[j]
        BY <3>5
      <4>2. a <= x /\ x <= w
        BY <3>5, <4>1, Zenon
      <4> QED
        BY ONLY <4>2, a \in Nat, w \in Nat, x \in Nat
    <3>7. a + d <= d + w
      BY ONLY <3>6, a \in Nat, w \in Nat, d \in Nat
    <3>8. f[i] = d + w
      BY <2>1, Zenon
    <3> QED
      BY <2>3, <3>7, <3>8, Zenon
  <2> QED
    BY <2>4, <2>5
<1> HIDE DEF Short
<1>11. n \in S
  <2>1. \A k \in 0..(n - 1) : k \in S => k + 1 \in S
    BY <1>10
  <2> HIDE DEF S
  <2>2. \A k \in 0..n : k \in S
    BY <1>9, <2>1, UpTo
  <2> QED
    BY <2>2
<1>12. Short(n)
  BY <1>11
<1>13. n \in 1..n
  OBVIOUS
<1>14. PICK i \in 1..N : r[i] = c[n]
  BY <1>4, <1>5, <1>13
<1> QED
  BY <1>1, <1>12, <1>14 DEF Short

(* A chain goes on with a task that depends on its last one. *)
LEMMA ChainExtends ==
    ASSUME GraphTypeOK, NEW n \in Nat \ {0}, NEW c, ChainIn(tasks, n, c),
           NEW s, SumsOf(s, c, n),
           NEW t \in tasks, c[n] \in deps[t], \A m \in 1..n : c[m] # t
    PROVE  \E e, z : /\ ChainIn(tasks, n + 1, e) /\ SumsOf(z, e, n + 1)
                     /\ e[n + 1] = t /\ z[n + 1] = s[n] + Duration[t]
                     /\ \A m \in 1..n : e[m] = c[m]
<1>1. /\ c \in [1..n -> tasks] /\ \A i, j \in 1..n : c[i] = c[j] => i = j
      /\ \A i \in 1..(n - 1) : c[i] \in deps[c[i + 1]]
  BY DEF ChainIn
<1>2. s \in [0..n -> Nat] /\ s[0] = 0 /\ \A k \in 1..n : s[k] = s[k - 1] + Duration[c[k]]
  BY DEF SumsOf
<1>3. PICK v \in Nat : v = s[n] + Duration[t]
  <2>1. s[n] \in Nat /\ Duration[t] \in Nat
    BY <1>2, DurationAssumption DEF GraphTypeOK
  <2> QED
    BY <2>1
<1>4. PICK e : e = [m \in 1..(n + 1) |-> IF m <= n THEN c[m] ELSE t]
  OBVIOUS
<1>5. PICK z : z = [m \in 0..(n + 1) |-> IF m <= n THEN s[m] ELSE v]
  OBVIOUS
<1>6. e \in [1..(n + 1) -> tasks] /\ e[n + 1] = t /\ \A m \in 1..n : e[m] = c[m]
  BY <1>1, <1>4
<1>7. z \in [0..(n + 1) -> Nat] /\ z[0] = 0 /\ z[n + 1] = v /\ \A m \in 0..n : z[m] = s[m]
  BY <1>2, <1>5
<1>8. \A m \in 1..(n + 1) : m \in 1..n \/ m = n + 1
  OBVIOUS
<1>9. \A i, j \in 1..(n + 1) : e[i] = e[j] => i = j
  BY <1>1, <1>6, <1>8
<1>10. \A i \in 1..n : e[i] \in deps[e[i + 1]]
  <2> TAKE i \in 1..n
  <2>1. CASE i = n
    BY <1>6, <2>1
  <2>2. CASE i # n
    <3>1. i \in 1..(n - 1) /\ i + 1 \in 1..n
      BY <2>2
    <3> QED
      BY <1>1, <1>6, <3>1
  <2> QED
    BY <2>1, <2>2
<1>11. ChainIn(tasks, n + 1, e)
  <2>1. (n + 1) - 1 = n
    OBVIOUS
  <2> QED
    BY <1>6, <1>9, <1>10, <2>1 DEF ChainIn
<1>12. \A m \in 1..(n + 1) : z[m] = z[m - 1] + Duration[e[m]]
  <2> TAKE m \in 1..(n + 1)
  <2>1. CASE m \in 1..n
    <3>1. m \in 0..n /\ m - 1 \in 0..n
      BY <2>1
    <3> QED
      BY <1>2, <1>6, <1>7, <2>1, <3>1
  <2>2. CASE m = n + 1
    <3>1. m - 1 = n /\ n \in 0..n
      BY <2>2
    <3> QED
      BY <1>3, <1>6, <1>7, <2>2, <3>1
  <2> QED
    BY <1>8, <2>1, <2>2
<1>13. SumsOf(z, e, n + 1)
  BY <1>7, <1>12 DEF SumsOf
<1> QED
  BY <1>3, <1>6, <1>7, <1>11, <1>13

(* A chain of tasks among the first i that ends with the i-th and is as long
   as its distance f[i]. *)
ReachedBy(f, r, i, n, c, s) ==
    /\ ChainIn(tasks, n, c) /\ SumsOf(s, c, n)
    /\ c[n] = r[i] /\ s[n] = f[i]
    /\ \A m \in 1..n : \E j \in 1..i : c[m] = r[j]

Reached(f, r, i) == \E n \in Nat \ {0} : \E c, s : ReachedBy(f, r, i, n, c, s)

(* Every distance is that of some chain. *)
LEMMA DistancesAreReached ==
    ASSUME GraphTypeOK, NEW r \in Seq(tasks), InOrder(r),
           NEW f, Distances(f, r, Len(r))
    PROVE  \A i \in 1..Len(r) : Reached(f, r, i)
<1>1. PICK N \in Nat : N = Len(r) /\ \A i \in 1..N : r[i] \in tasks
  OBVIOUS
<1>2. f \in [1..N -> Nat] /\ \A i \in 1..N : f[i] = Duration[r[i]] + Waited(f, r, i)
  BY <1>1 DEF Distances
<1>3. \A i, j \in 1..N : r[i] = r[j] => i = j
  BY <1>1 DEF InOrder
<1>4. \A t \in tasks : Duration[t] \in Nat
  BY DurationAssumption DEF GraphTypeOK
<1> DEFINE S == {k \in 0..N : \A i \in 1..k : Reached(f, r, i)}
<1>5. 0 \in S
  OBVIOUS
<1>6. ASSUME NEW k \in 0..(N - 1), \A i \in 1..k : Reached(f, r, i)
      PROVE  Reached(f, r, k + 1)
  <2>1. PICK i \in 1..N : i = k + 1
    OBVIOUS
  <2>2. r[i] \in tasks /\ i \in 1..(N + 1)
    BY <1>1
  <2>3. PICK d \in Nat : d = Duration[r[i]]
    BY <1>4, <2>2
  <2>4. CASE Earlier(r, i) = {}
    <3>1. f[i] = d
      <4>1. Waited(f, r, i) = 0
        BY <2>4 DEF Waited
      <4> QED
        BY <1>2, <2>3, <4>1
    <3>2. PICK c : c = [m \in 1..1 |-> r[i]]
      OBVIOUS
    <3>3. PICK s : s = [m \in 0..1 |-> IF m = 0 THEN 0 ELSE d]
      OBVIOUS
    <3>4. ChainIn(tasks, 1, c)
      BY <2>2, <3>2 DEF ChainIn
    <3>5. SumsOf(s, c, 1)
      BY <2>3, <3>2, <3>3 DEF SumsOf
    <3>6. c[1] = r[i] /\ s[1] = f[i] /\ \A m \in 1..1 : \E j \in 1..i : c[m] = r[j]
      BY <3>1, <3>2, <3>3
    <3>7. ReachedBy(f, r, i, 1, c, s)
      BY <3>4, <3>5, <3>6 DEF ReachedBy
    <3> QED
      BY <2>1, <3>7 DEF Reached
  <2>5. CASE Earlier(r, i) # {}
    <3>1. PICK j \in Earlier(r, i) : f[j] = Waited(f, r, i)
      BY <1>2, <2>2, <2>5, WaitedIs
    <3>2. j \in 1..k /\ j \in 1..(i - 1) /\ r[j] \in deps[r[i]]
      BY <2>1, <3>1 DEF Earlier
    <3>3. PICK n \in Nat \ {0} : \E c, s : ReachedBy(f, r, j, n, c, s)
      BY <1>6, <3>2 DEF Reached
    <3> PICK c, s : ReachedBy(f, r, j, n, c, s)
      BY <3>3
    <3>4. /\ ChainIn(tasks, n, c) /\ SumsOf(s, c, n)
          /\ c[n] = r[j] /\ s[n] = f[j]
          /\ \A m \in 1..n : \E l \in 1..j : c[m] = r[l]
      BY DEF ReachedBy
    <3>5. \A m \in 1..n : c[m] # r[i]
      <4> SUFFICES ASSUME NEW m \in 1..n, c[m] = r[i] PROVE FALSE
        OBVIOUS
      <4>1. PICK l \in 1..j : r[l] = r[i]
        BY <3>4
      <4>2. l \in 1..N /\ l # i
        BY <2>1, <3>2, <4>1
      <4> QED
        BY <1>3, <4>1, <4>2
    <3>6. PICK t \in tasks : t = r[i]
      BY <2>2
    <3>7. PICK e, z : /\ ChainIn(tasks, n + 1, e) /\ SumsOf(z, e, n + 1)
                      /\ e[n + 1] = t /\ z[n + 1] = s[n] + Duration[t]
                      /\ \A m \in 1..n : e[m] = c[m]
      <4>1. c[n] \in deps[t] /\ \A m \in 1..n : c[m] # t
        BY <3>2, <3>4, <3>5, <3>6
      <4>2. ChainIn(tasks, n, c) /\ SumsOf(s, c, n)
        BY <3>4
      <4> QED
        BY ONLY GraphTypeOK, <4>1, <4>2, ChainExtends
    <3>8. z[n + 1] = f[i]
      <4>1. f[j] \in Nat /\ f[i] = d + f[j]
        BY <1>2, <2>3, <3>1, <3>2
      <4> QED
        BY <2>3, <3>4, <3>6, <3>7, <4>1
    <3>9. \A m \in 1..(n + 1) : \E l \in 1..i : e[m] = r[l]
      <4> TAKE m \in 1..(n + 1)
      <4>1. CASE m \in 1..n
        <5>1. PICK l \in 1..j : c[m] = r[l]
          BY <3>4, <4>1
        <5>2. l \in 1..i /\ e[m] = r[l]
          BY <3>2, <3>7, <4>1, <5>1
        <5> QED
          BY <5>2
      <4>2. CASE m = n + 1
        <5>1. i \in 1..i
          OBVIOUS
        <5> QED
          BY <3>6, <3>7, <4>2, <5>1
      <4>3. m \in 1..n \/ m = n + 1
        OBVIOUS
      <4> QED
        BY <4>1, <4>2, <4>3
    <3>10. n + 1 \in Nat \ {0} /\ ReachedBy(f, r, i, n + 1, e, z)
      BY <3>6, <3>7, <3>8, <3>9 DEF ReachedBy
    <3> QED
      BY <2>1, <3>10 DEF Reached
  <2> QED
    BY <2>4, <2>5
<1>7. \A k \in 0..(N - 1) : k \in S => k + 1 \in S
  <2> SUFFICES ASSUME NEW k \in 0..(N - 1), \A i \in 1..k : Reached(f, r, i)
               PROVE  k + 1 \in S
    OBVIOUS
  <2>1. Reached(f, r, k + 1)
    BY <1>6
  <2>2. \A i \in 1..(k + 1) : i \in 1..k \/ i = k + 1
    OBVIOUS
  <2> QED
    BY <2>1, <2>2
<1>8. N \in S
  <2> HIDE DEF S
  <2>1. \A k \in 0..N : k \in S
    BY <1>5, <1>7, UpTo
  <2> QED
    BY <2>1
<1> QED
  BY <1>1, <1>8

LEMMA CriticalIs ==
    ASSUME GraphTypeOK, EdgesInv, Valid, tasks # {}
    PROVE  CriticalLength = Max({SumOfChain(c) : c \in Chains})
<1>1. PICK r : r = TopologicalSort
  OBVIOUS
<1>2. r \in Seq(tasks) /\ InOrder(r) /\ PlacedBy(r) = tasks
  BY <1>1, SortIs, ValidIs
<1>3. PICK f : f = DistAlong(r)
  OBVIOUS
<1>4. PICK N \in Nat : N = Len(r)
  BY <1>2
<1>5. Distances(f, r, N)
  BY <1>2, <1>3, <1>4, DistIs
<1>6. f \in [1..N -> Nat]
  BY <1>5 DEF Distances
<1>7. PICK A : A = {f[i] : i \in 1..N}
  OBVIOUS
<1>8. CriticalLength = Max(A)
  BY <1>1, <1>3, <1>6, <1>7 DEF CriticalLength
<1>9. 1..N # {}
  BY <1>2, <1>4 DEF PlacedBy
<1>10. PICK m \in Nat : m = Max(A) /\ m \in A /\ \A a \in A : a <= m
  <2>1. (1..N) \in SUBSET (1..N)
    OBVIOUS
  <2> QED
    BY <1>6, <1>7, <1>9, <2>1, GreatestValue
<1>11. PICK B : B = {SumOfChain(c) : c \in Chains}
  OBVIOUS
<1>12. m \in B
  <2>1. PICK i \in 1..N : f[i] = m
    BY <1>7, <1>10
  <2>2. Reached(f, r, i)
    BY <1>2, <1>4, <1>5, DistancesAreReached
  <2>3. PICK n \in Nat \ {0} : \E c, s : ReachedBy(f, r, i, n, c, s)
    BY <2>2 DEF Reached
  <2> PICK c, s : ReachedBy(f, r, i, n, c, s)
    BY <2>3
  <2>4. ChainIn(tasks, n, c) /\ SumsOf(s, c, n) /\ s[n] = m
    BY <2>1 DEF ReachedBy
  <2>5. c \in Chains /\ Len(c) = n
    BY <2>4, ChainsAre
  <2>6. SumOfChain(c) = m
    BY <2>4, <2>5, SumOfChainIs
  <2> QED
    BY <1>11, <2>5, <2>6
<1>13. \A b \in B : b \in Nat /\ b <= m
  <2> SUFFICES ASSUME NEW c \in Chains PROVE SumOfChain(c) \in Nat /\ SumOfChain(c) <= m
    BY <1>11
  <2>1. PICK n \in Nat \ {0} : n = Len(c) /\ ChainIn(tasks, n, c)
    BY ChainOf
  <2>2. c \in [1..n -> tasks]
    BY <2>1 DEF ChainIn
  <2>3. PICK s : SumsOf(s, c, n)
    BY <2>2, ChainSumsExist
  <2>4. SumOfChain(c) = s[n]
    BY <2>1, <2>3, SumOfChainIs
  <2>5. s[n] \in Nat
    BY <2>3 DEF SumsOf
  <2>6. PICK i \in 1..N : s[n] <= f[i]
    <3>1. Distances(f, r, Len(r))
      BY <1>4, <1>5
    <3> QED
      BY <1>2, <1>4, <2>1, <2>3, <3>1, ChainsAreShort
  <2>7. f[i] \in Nat /\ f[i] <= m
    BY <1>6, <1>7, <1>10
  <2> QED
    BY <2>4, <2>5, <2>6, <2>7
<1>14. Max(B) = m
  <2>1. \A y \in B : m >= y
    BY <1>13
  <2>2. Max(B) \in B /\ \A y \in B : Max(B) >= y
    BY <1>12, <2>1 DEF Max
  <2>3. Max(B) \in Nat /\ Max(B) <= m /\ Max(B) >= m
    BY <1>12, <1>13, <2>2
  <2> QED
    BY <2>3
<1> QED
  BY <1>8, <1>10, <1>11, <1>14

-----------------------------------------------------------------------------
(* The parallel batches.                                                   *)

Ready(B) == {t \in tasks : status[t] = "pending" /\ deps[t] \subseteq B}

BatchesBy(f, N) == f = [n \in 0..N |-> IF n = 0 THEN {} ELSE f[n - 1] \cup Ready(f[n - 1])]

LEMMA BatchesExist ==
    ASSUME NEW N \in Nat
    PROVE  \E f : BatchesBy(f, N)
<1>1. PICK X : X = SUBSET tasks
  OBVIOUS
<1>2. {} \in X /\ \A B \in X : B \cup Ready(B) \in X
  BY <1>1 DEF Ready
<1>3. PICK G : G = [B \in X |-> B \cup Ready(B)]
  OBVIOUS
<1>4. G \in [X -> X]
  BY <1>2, <1>3
<1> PICK f : Iteration(f, N, X, {}, G)
  BY <1>2, <1>4, IterationsExist
<1>5. f \in [0..N -> X] /\ f[0] = {} /\ \A n \in 1..N : f[n] = G[f[n - 1]]
  BY DEF Iteration
<1>6. \A n \in 0..N : f[n] = IF n = 0 THEN {} ELSE f[n - 1] \cup Ready(f[n - 1])
  <2> TAKE n \in 0..N
  <2>1. CASE n = 0
    BY <1>5, <2>1
  <2>2. CASE n # 0
    <3>1. n \in 1..N /\ n - 1 \in 0..N
      BY <2>2
    <3>2. f[n - 1] \in X
      BY <1>5, <3>1
    <3>3. f[n] = G[f[n - 1]] /\ G[f[n - 1]] = f[n - 1] \cup Ready(f[n - 1])
      BY <1>3, <1>5, <3>1, <3>2
    <3> QED
      BY <2>2, <3>3
  <2> QED
    BY <2>1, <2>2
<1>7. f = [n \in 0..N |-> f[n]]
  BY <1>5
<1> QED
  BY <1>6, <1>7 DEF BatchesBy

(* The batches before the n-th: they only grow, and until they have all the
   tasks of a graph without a cycle each of them has one more. *)
LEMMA BatchesGrow ==
    ASSUME GraphTypeOK, NEW N \in Nat, NEW f, BatchesBy(f, N)
    PROVE  /\ f[0] = {} /\ \A n \in 0..(N - 1) : f[n + 1] = f[n] \cup Ready(f[n])
           /\ \A n \in 0..N : f[n] \subseteq tasks
           /\ \A n \in 0..N : \A m \in 0..n : f[m] \subseteq f[n]
<1>1. f[0] = {} /\ \A n \in 0..(N - 1) : f[n + 1] = f[n] \cup Ready(f[n])
  <2>1. \A n \in 0..N : f[n] = IF n = 0 THEN {} ELSE f[n - 1] \cup Ready(f[n - 1])
    BY DEF BatchesBy
  <2>2. f[0] = {}
    <3>1. 0 \in 0..N
      OBVIOUS
    <3> QED
      BY Zenon, <2>1, <3>1
  <2>3. ASSUME NEW n \in 0..(N - 1) PROVE f[n + 1] = f[n] \cup Ready(f[n])
    <3>1. PICK k \in 0..N : k = n + 1 /\ k # 0 /\ k - 1 = n
      OBVIOUS
    <3>2. f[k] = f[k - 1] \cup Ready(f[k - 1])
      BY Zenon, <2>1, <3>1
    <3> QED
      BY Zenon, <3>1, <3>2
  <2> QED
    BY <2>2, <2>3
<1> DEFINE S == {n \in 0..N : f[n] \subseteq tasks /\ \A m \in 0..n : f[m] \subseteq f[n]}
<1>2. 0 \in S
  BY <1>1
<1>3. \A n \in 0..(N - 1) : n \in S => n + 1 \in S
  <2> SUFFICES ASSUME NEW n \in 0..(N - 1), f[n] \subseteq tasks, \A m \in 0..n : f[m] \subseteq f[n]
               PROVE  n + 1 \in S
    OBVIOUS
  <2>1. f[n + 1] \subseteq tasks /\ f[n] \subseteq f[n + 1]
    BY <1>1 DEF Ready
  <2>2. n + 1 \in 0..N /\ \A m \in 0..(n + 1) : m \in 0..n \/ m = n + 1
    OBVIOUS
  <2> QED
    BY <2>1, <2>2
<1> HIDE DEF S
<1>4. \A n \in 0..N : n \in S
  BY <1>2, <1>3, UpTo
<1>5. \A n \in 0..N : f[n] \subseteq tasks /\ \A m \in 0..n : f[m] \subseteq f[n]
  BY <1>4 DEF S
<1> QED
  BY <1>1, <1>5

LEMMA BatchesTakeAll ==
    ASSUME GraphTypeOK, Known, Rooted(tasks), \A t \in tasks : status[t] = "pending",
           NEW N \in Nat, N = Cardinality(tasks), NEW f, BatchesBy(f, N)
    PROVE  f[N] = tasks
<1>1. /\ f[0] = {} /\ \A n \in 0..(N - 1) : f[n + 1] = f[n] \cup Ready(f[n])
      /\ \A n \in 0..N : f[n] \subseteq tasks
  BY BatchesGrow
<1>2. IsFiniteSet(tasks)
  BY TasksFinite
<1>3. \A n \in 0..N : /\ IsFiniteSet(f[n]) /\ Cardinality(f[n]) \in Nat
                      /\ Cardinality(f[n]) <= N
                      /\ Cardinality(f[n]) = N => f[n] = tasks
  <2> TAKE n \in 0..N
  <2>1. PICK B \in SUBSET tasks : B = f[n]
    BY <1>1
  <2>2. IsFiniteSet(B) /\ Cardinality(B) <= N /\ (Cardinality(B) = N => B = tasks)
    BY <1>2, FS_Subset
  <2>3. Cardinality(B) \in Nat
    BY <2>2, FS_CardinalityType
  <2> QED
    BY <2>1, <2>2, <2>3
<1> DEFINE Full(n) == f[n] = tasks \/ Cardinality(f[n]) >= n
           S == {n \in 0..N : Full(n)}
<1>4. 0 \in S
  BY <1>3
<1>5. \A n \in 0..(N - 1) : n \in S => n + 1 \in S
  <2> SUFFICES ASSUME NEW n \in 0..(N - 1), Full(n) PROVE Full(n + 1)
    OBVIOUS
  <2>1. n \in 0..N /\ n + 1 \in 0..N
    OBVIOUS
  <2>2. f[n + 1] = f[n] \cup Ready(f[n]) /\ f[n] \subseteq tasks /\ f[n + 1] \subseteq tasks
    BY <1>1, <2>1
  <2>3. CASE f[n] = tasks
    BY <2>2, <2>3
  <2>4. CASE f[n] # tasks
    <3>1. PICK t \in tasks \ f[n] : deps[t] \cap (tasks \ f[n]) = {}
      BY <2>2, <2>4 DEF Rooted
    <3>2. t \in Ready(f[n])
      BY <3>1 DEF Known, Ready
    <3>3. PICK B, C : B = f[n] \cup {t} /\ C = f[n + 1]
      OBVIOUS
    <3>4. B \in SUBSET C /\ IsFiniteSet(C)
      BY <1>3, <2>1, <2>2, <3>2, <3>3
    <3>5. Cardinality(B) <= Cardinality(C)
      BY <3>4, FS_Subset
    <3>6. Cardinality(B) = Cardinality(f[n]) + 1
      <4>1. IsFiniteSet(f[n]) /\ t \notin f[n]
        BY <1>3, <2>1, <3>1
      <4>2. Cardinality(f[n] \cup {t}) = Cardinality(f[n]) + 1
        BY <4>1, FS_AddElement
      <4> QED
        BY <3>3, <4>2
    <3>7. Cardinality(f[n]) \in Nat /\ Cardinality(f[n]) >= n /\ Cardinality(C) \in Nat
      BY <1>3, <2>1, <2>4, <3>3
    <3>8. Cardinality(C) >= n + 1
      BY <3>5, <3>6, <3>7
    <3> QED
      BY <3>3, <3>8
  <2> QED
    BY <2>3, <2>4
<1> HIDE DEF Full
<1>6. Full(N)
  <2> HIDE DEF S
  <2>1. \A n \in 0..N : n \in S
    BY <1>4, <1>5, UpTo
  <2>2. N \in S
    BY <2>1
  <2> QED
    BY <2>2 DEF S
<1>7. N \in 0..N
  OBVIOUS
<1> QED
  BY <1>3, <1>6, <1>7 DEF Full

LEMMA BatchesAre ==
    ASSUME GraphTypeOK, Valid, \A t \in tasks : status[t] = "pending"
    PROVE  /\ UNION {Batches[n] : n \in DOMAIN Batches} = tasks
           /\ \A m, n \in DOMAIN Batches : \A t \in Batches[n] :
                 deps[t] \cap Batches[m] # {} => m < n
<1>1. PICK N \in Nat : N = Cardinality(tasks)
  BY TasksFinite
<1>2. PICK f : f = CHOOSE g : BatchesBy(g, N)
  OBVIOUS
<1>3. BatchesBy(f, N)
  BY <1>2, BatchesExist
<1>4. Batches = [n \in 1..N |-> f[n] \ f[n - 1]]
  BY <1>1, <1>2 DEF Batches, BatchesBy, Ready
<1>5. /\ f[0] = {} /\ \A n \in 0..(N - 1) : f[n + 1] = f[n] \cup Ready(f[n])
      /\ \A n \in 0..N : f[n] \subseteq tasks
      /\ \A n \in 0..N : \A m \in 0..n : f[m] \subseteq f[n]
  BY <1>3, BatchesGrow
<1>6. f[N] = tasks
  BY <1>1, <1>3, ValidIs, BatchesTakeAll
<1>7. PICK D : D = Batches
  OBVIOUS
<1>8. DOMAIN D = 1..N /\ \A n \in 1..N : D[n] = f[n] \ f[n - 1]
  BY <1>4, <1>7
<1>9. \A t \in tasks : \E n \in 1..N : t \in D[n]
  <2> TAKE t \in tasks
  <2>1. PICK I : I = {n \in 0..N : t \in f[n]}
    OBVIOUS
  <2>2. N \in I /\ I \in SUBSET Nat
    BY <1>6, <2>1
  <2>3. PICK n \in I : \A i \in I : n <= i
    BY <2>2, LeastNumber
  <2>4. n \in 0..N /\ n # 0 /\ t \in f[n]
    BY <1>5, <2>1
  <2>5. n \in 1..N /\ n - 1 \in 0..N /\ ~(n <= n - 1)
    BY <2>4
  <2>6. t \notin f[n - 1]
    BY <2>1, <2>3, <2>5
  <2> QED
    BY <1>8, <2>4, <2>5, <2>6
<1>10. \A n \in 1..N : D[n] \subseteq tasks
  <2> TAKE n \in 1..N
  <2>1. n \in 0..N
    OBVIOUS
  <2> QED
    BY <1>5, <1>8, <2>1
<1>11. UNION {D[n] : n \in DOMAIN D} = tasks
  BY <1>8, <1>9, <1>10
<1>12. ASSUME NEW m \in 1..N, NEW n \in 1..N, NEW t \in D[n], deps[t] \cap D[m] # {}
       PROVE  m < n
  <2>1. PICK d \in deps[t] : d \in D[m]
    BY <1>12
  <2>2. n - 1 \in 0..(N - 1) /\ (n - 1) + 1 = n /\ m - 1 \in 0..N
    OBVIOUS
  <2>3. t \in Ready(f[n - 1])
    BY <1>5, <1>8, <1>12, <2>2
  <2>4. d \in f[n - 1] /\ d \notin f[m - 1]
    BY <1>8, <2>1, <2>3 DEF Ready
  <2>5. ~(n - 1 \in 0..(m - 1))
    BY <1>5, <2>2, <2>4
  <2> QED
    BY <2>5
<1> QED
  BY <1>7, <1>8, <1>11, <1>12

LEMMA SchedulesHold == GraphTypeOK /\ EdgesInv => SchedulesAreSound
BY CriticalIs, BatchesAre DEF SchedulesAreSound

(* Whatever operations built the graph: validate() raises exactly when it has
   a cycle or an unknown dependency, the sort puts every task after what it
   depends on and raises for the same graphs, the critical path is as long as
   the longest chain of dependencies, and the parallel batches take every task
   once, after the batches of its dependencies. *)
THEOREM PlansAlwaysSound == GraphSpec => []PlansAreSound
<1>1. GraphTypeOK /\ EdgesInv => PlansAreSound
  BY OrdersHold, SchedulesHold DEF PlansAreSound
<1> QED
  BY <1>1, GraphTypes, EdgesHold, PTL

-----------------------------------------------------------------------------
(* The coordinator and the crew (Coordinator).                             *)

(* Assigned once, and only a task with an agent is called. *)
CallsHaveAgents == \A t \in CrewTasks :
    /\ assigned[t] \in CrewAgents \cup {t}
    /\ crewCalls[t] > 0 => assigned[t] # t

(* TasksRespectNeeds, of the tasks that were started; the others are absent. *)
OfChosen ==
    /\ mode = "graph" => \A t \in GraphTasks :
          place[t] \in {"running", "done"} => needs[t] \subseteq completed
    /\ gather = "returned" => \A t \in Chosen :
          place[t] = "done" \/ (mode = "parallel" /\ place[t] = "raised")

CutOff == \A t \in GraphTasks \ Chosen : place[t] = "absent"

CoordinatorInv == CoordinatorTypeOK /\ OfChosen

CrewInv == CrewTypeOK /\ CallsHaveAgents /\ AgentsAreFreed

LEMMA CoordinatorStarts == CoordinatorInit => CoordinatorInv
<1> SUFFICES ASSUME CoordinatorInit PROVE CoordinatorInv
  OBVIOUS
<1>1. CoordinatorTypeOK
  BY DEF CoordinatorInit, CoordinatorTypeOK, Places
<1>2. \A t \in GraphTasks : mode = "graph" => place[t] \notin {"running", "done"}
  BY DEF CoordinatorInit
<1>3. gather # "returned"
  BY DEF CoordinatorInit
<1> QED
  BY <1>1, <1>2, <1>3 DEF CoordinatorInv, OfChosen

(* A coroutine that raises disturbs nobody: one that was waited for had not
   been counted. *)
LEMMA RaisedKeeps ==
    ASSUME CoordinatorInv, NEW t \in GraphTasks, RaisedIn(t),
           place[t] \in {"waiting", "running"}, UNCHANGED <<mode, needs, depth, completed>>
    PROVE  CoordinatorInv'
<1>1. /\ place' = [place EXCEPT ![t] = "raised"]
      /\ gather' = gather \/ (gather = "open" /\ gather' = "raised")
  BY DEF RaisedIn
<1>2. CoordinatorTypeOK'
  BY <1>1 DEF CoordinatorInv, CoordinatorTypeOK, Places
<1>3. \A u \in GraphTasks : place'[u] = IF u = t THEN "raised" ELSE place[u]
  BY <1>1 DEF CoordinatorInv, CoordinatorTypeOK
<1>4. mode' = "graph" => \A u \in GraphTasks :
         place'[u] \in {"running", "done"} => needs'[u] \subseteq completed'
  BY <1>3 DEF CoordinatorInv, OfChosen
<1>5. Chosen' = Chosen
  BY DEF Chosen
<1>6. gather' = "returned" => \A u \in Chosen' :
         place'[u] = "done" \/ (mode' = "parallel" /\ place'[u] = "raised")
  <2>1. Chosen \subseteq GraphTasks
    BY DEF Chosen
  <2> QED
    BY <1>1, <1>3, <1>5, <2>1 DEF CoordinatorInv, OfChosen
<1> QED
  BY <1>2, <1>4, <1>6 DEF CoordinatorInv, OfChosen

LEMMA CoordinatorKeeps ==
    ASSUME CoordinatorInv, CoordinatorStep
    PROVE  CoordinatorInv'
<1>1. CASE GatherReturns
  <2>1. CoordinatorTypeOK'
    BY <1>1 DEF GatherReturns, CoordinatorInv, CoordinatorTypeOK
  <2>2. Chosen' = Chosen
    BY <1>1 DEF GatherReturns, Chosen
  <2>3. OfChosen'
    BY <1>1, <2>2 DEF GatherReturns, CoordinatorInv, OfChosen
  <2> QED
    BY <2>1, <2>3 DEF CoordinatorInv
<1>2. ASSUME NEW t \in GraphTasks, StartGraphTask(t) PROVE CoordinatorInv'
  <2>1. CASE depth
    <3>1. /\ place[t] = "waiting" /\ needs[t] \subseteq completed
          /\ place' = [place EXCEPT ![t] = "running"]
          /\ UNCHANGED <<mode, needs, depth, gather, completed>>
      BY <1>2, <2>1 DEF StartGraphTask, AllCompleted
    <3>2. CoordinatorTypeOK'
      BY <3>1 DEF CoordinatorInv, CoordinatorTypeOK, Places
    <3>3. \A u \in GraphTasks : place'[u] = IF u = t THEN "running" ELSE place[u]
      BY <3>1 DEF CoordinatorInv, CoordinatorTypeOK
    <3>4. Chosen' = Chosen /\ Chosen \subseteq GraphTasks
      BY <3>1 DEF Chosen
    <3>5. mode' = "graph" => \A u \in GraphTasks :
             place'[u] \in {"running", "done"} => needs'[u] \subseteq completed'
      BY <3>1, <3>3 DEF CoordinatorInv, OfChosen
    <3>6. gather' = "returned" => \A u \in Chosen' :
             place'[u] = "done" \/ (mode' = "parallel" /\ place'[u] = "raised")
      BY <3>1, <3>3, <3>4 DEF CoordinatorInv, OfChosen
    <3> QED
      BY <3>2, <3>5, <3>6 DEF CoordinatorInv, OfChosen
  <2>2. CASE ~depth
    <3>1. RaisedIn(t) /\ place[t] = "waiting" /\ UNCHANGED <<mode, needs, depth, completed>>
      BY <1>2, <2>2 DEF StartGraphTask
    <3> QED
      BY <3>1, RaisedKeeps
  <2> QED
    BY <2>1, <2>2
<1>3. ASSUME NEW t \in GraphTasks, AgentReturns(t) PROVE CoordinatorInv'
  <2>1. /\ place[t] = "running"
        /\ place' = [place EXCEPT ![t] = "done"]
        /\ completed' \in {completed, completed \cup {t}}
        /\ UNCHANGED <<mode, needs, depth, gather>>
    BY <1>3 DEF AgentReturns
  <2>2. CoordinatorTypeOK'
    BY <2>1 DEF CoordinatorInv, CoordinatorTypeOK, Places
  <2>3. \A u \in GraphTasks : place'[u] = IF u = t THEN "done" ELSE place[u]
    BY <2>1 DEF CoordinatorInv, CoordinatorTypeOK
  <2>4. Chosen' = Chosen /\ Chosen \subseteq GraphTasks
    BY <2>1 DEF Chosen
  <2>5. mode' = "graph" => \A u \in GraphTasks :
           place'[u] \in {"running", "done"} => needs'[u] \subseteq completed'
    BY <2>1, <2>3 DEF CoordinatorInv, OfChosen
  <2>6. gather' = "returned" => \A u \in Chosen' :
           place'[u] = "done" \/ (mode' = "parallel" /\ place'[u] = "raised")
    BY <2>1, <2>3, <2>4 DEF CoordinatorInv, OfChosen
  <2> QED
    BY <2>2, <2>5, <2>6 DEF CoordinatorInv, OfChosen
<1>4. ASSUME NEW t \in GraphTasks, AgentRaises(t) PROVE CoordinatorInv'
  BY <1>4, RaisedKeeps DEF AgentRaises
<1> QED
  BY <1>1, <1>2, <1>3, <1>4 DEF CoordinatorStep

LEMMA CrewStarts == CrewInit => CrewInv
<1> SUFFICES ASSUME CrewInit PROVE CrewInv
  OBVIOUS
<1>1. CrewTypeOK
  BY CoordinatorAssumption DEF CrewInit, CrewTypeOK
<1> QED
  BY <1>1 DEF CrewInit, CrewInv, CallsHaveAgents, AgentsAreFreed

LEMMA AssignKeeps ==
    ASSUME CrewInv, NEW t \in CrewTasks, NEW a \in CrewAgents, AssignTask(t, a)
    PROVE  CrewInv'
<1> USE DEF CrewInv, CrewTypeOK
<1>1. /\ assigned[t] = t
      /\ assigned' = [assigned EXCEPT ![t] = a]
      /\ UNCHANGED <<crew, crewTask, crewCalls, deserted>>
  BY DEF AssignTask
<1>2. crewCalls[t] = 0
  BY <1>1, CoordinatorAssumption DEF CallsHaveAgents
<1>3. CrewTypeOK'
  BY <1>1
<1>4. \A u \in CrewTasks : assigned'[u] = IF u = t THEN a ELSE assigned[u]
  BY <1>1
<1>5. CallsHaveAgents'
  BY <1>1, <1>2, <1>4 DEF CallsHaveAgents
<1>6. AgentsAreFreed'
  BY <1>1, <1>2, <1>4 DEF AgentsAreFreed
<1> QED
  BY <1>3, <1>5, <1>6

LEMMA CrewKeeps ==
    ASSUME CrewInv, CrewStep
    PROVE  CrewInv'
<1> USE DEF CrewInv, CrewTypeOK
<1>1. ASSUME NEW a \in CrewAgents, SpawnAgent(a) PROVE CrewInv'
  <2>1. CrewTypeOK'
    BY <1>1 DEF SpawnAgent
  <2>2. \A b \in CrewAgents : crew'[b] = "running" => crew[b] = "running"
    BY <1>1 DEF SpawnAgent
  <2> QED
    BY <1>1, <2>1, <2>2 DEF SpawnAgent, CallsHaveAgents, AgentsAreFreed
<1>2. ASSUME NEW t \in CrewTasks, DelegateTask(t) PROVE CrewInv'
  BY <1>2, AssignKeeps DEF DelegateTask
<1>3. ASSUME NEW t \in CrewTasks, BeginCrewTask(t) PROVE CrewInv'
  <2>1. /\ assigned[t] \in CrewAgents /\ assigned[t] # t
        /\ crewCalls' = [crewCalls EXCEPT ![t] = @ + 1]
        /\ crewTask' = [crewTask EXCEPT ![t] = "running"]
        /\ crew' = [crew EXCEPT ![assigned[t]] = "running"]
        /\ UNCHANGED <<assigned, deserted>>
    BY <1>3 DEF BeginCrewTask, CallsHaveAgents
  <2>2. crewCalls[t] \in Nat /\ crewCalls[t] < MaxCalls
    BY <1>3, CoordinatorAssumption DEF BeginCrewTask
  <2>3. crewCalls' \in [CrewTasks -> 0..MaxCalls]
    BY <2>1, <2>2, CoordinatorAssumption
  <2>4. crew' \in [CrewAgents -> {"none", "idle", "running"}]
    BY <2>1
  <2>5. CrewTypeOK'
    BY <2>1, <2>3, <2>4
  <2>6. \A u \in CrewTasks : crewCalls'[u] = IF u = t THEN crewCalls[u] + 1 ELSE crewCalls[u]
    BY <2>1
  <2>7. \A a \in CrewAgents : crew'[a] = IF a = assigned[t] THEN "running" ELSE crew[a]
    BY <2>1
  <2>8. CallsHaveAgents'
    BY <2>1, <2>6 DEF CallsHaveAgents
  <2>9. ASSUME NEW a \in CrewAgents \ deserted, crew'[a] = "running"
        PROVE  \E u \in CrewTasks : assigned[u] = a /\ crewCalls'[u] > 0
    <3>1. CASE a = assigned[t]
      BY <2>2, <2>6, <3>1
    <3>2. CASE a # assigned[t]
      <4>1. PICK u \in CrewTasks : assigned[u] = a /\ crewCalls[u] > 0
        BY <2>7, <2>9, <3>2 DEF AgentsAreFreed
      <4>2. u # t /\ crewCalls'[u] = crewCalls[u]
        BY <2>6, <3>2, <4>1
      <4> QED
        BY <4>1, <4>2
    <3> QED
      BY <3>1, <3>2
  <2>10. AgentsAreFreed'
    BY <2>1, <2>9 DEF AgentsAreFreed
  <2> QED
    BY <2>5, <2>8, <2>10
<1>4. ASSUME NEW t \in CrewTasks, EndCrewTask(t) PROVE CrewInv'
  <2>1. /\ assigned[t] \in CrewAgents /\ assigned[t] # t
        /\ crewCalls' = [crewCalls EXCEPT ![t] = @ - 1]
        /\ crewTask' = [crewTask EXCEPT ![t] = "completed"]
        /\ crew' = [crew EXCEPT ![assigned[t]] = "idle"]
        /\ UNCHANGED <<assigned, deserted>>
    BY <1>4 DEF EndCrewTask, CallsHaveAgents
  <2>2. crewCalls[t] \in 1..MaxCalls
    BY <1>4, CoordinatorAssumption DEF EndCrewTask
  <2>3. crewCalls' \in [CrewTasks -> 0..MaxCalls]
    BY <2>1, <2>2, CoordinatorAssumption
  <2>4. crew' \in [CrewAgents -> {"none", "idle", "running"}]
    BY <2>1
  <2>5. CrewTypeOK'
    BY <2>1, <2>3, <2>4
  <2>6. \A u \in CrewTasks : crewCalls'[u] = IF u = t THEN crewCalls[u] - 1 ELSE crewCalls[u]
    BY <2>1
  <2>7. \A a \in CrewAgents : crew'[a] = IF a = assigned[t] THEN "idle" ELSE crew[a]
    BY <2>1
  <2>8. CallsHaveAgents'
    BY <2>1, <2>6 DEF CallsHaveAgents
  <2>9. ASSUME NEW a \in CrewAgents \ deserted, crew'[a] = "running"
        PROVE  \E u \in CrewTasks : assigned[u] = a /\ crewCalls'[u] > 0
    <3>1. a # assigned[t] /\ crew[a] = "running"
      BY <2>7, <2>9
    <3>2. PICK u \in CrewTasks : assigned[u] = a /\ crewCalls[u] > 0
      BY <3>1 DEF AgentsAreFreed
    <3>3. crewCalls'[u] = crewCalls[u]
      BY <2>6, <3>1, <3>2
    <3> QED
      BY <3>2, <3>3
  <2>10. AgentsAreFreed'
    BY <2>1, <2>9 DEF AgentsAreFreed
  <2> QED
    BY <2>5, <2>8, <2>10
<1>5. ASSUME NEW t \in CrewTasks, CancelCrewTask(t) PROVE CrewInv'
  <2>1. /\ assigned[t] \in CrewAgents /\ assigned[t] # t
        /\ crewCalls' = [crewCalls EXCEPT ![t] = @ - 1]
        /\ deserted' = deserted \cup {assigned[t]}
        /\ UNCHANGED <<crew, assigned, crewTask>>
    BY <1>5 DEF CancelCrewTask, CallsHaveAgents
  <2>2. crewCalls[t] \in 1..MaxCalls
    BY <1>5, CoordinatorAssumption DEF CancelCrewTask
  <2>3. crewCalls' \in [CrewTasks -> 0..MaxCalls]
    BY <2>1, <2>2, CoordinatorAssumption
  <2>4. CrewTypeOK'
    BY <2>1, <2>3
  <2>5. \A u \in CrewTasks : crewCalls'[u] = IF u = t THEN crewCalls[u] - 1 ELSE crewCalls[u]
    BY <2>1
  <2>6. CallsHaveAgents'
    BY <2>1, <2>5 DEF CallsHaveAgents
  <2>7. ASSUME NEW a \in CrewAgents \ deserted', crew[a] = "running"
        PROVE  \E u \in CrewTasks : assigned[u] = a /\ crewCalls'[u] > 0
    <3>1. a # assigned[t] /\ a \in CrewAgents \ deserted
      BY <2>1, <2>7
    <3>2. PICK u \in CrewTasks : assigned[u] = a /\ crewCalls[u] > 0
      BY <2>7, <3>1 DEF AgentsAreFreed
    <3>3. crewCalls'[u] = crewCalls[u]
      BY <2>5, <3>1, <3>2
    <3> QED
      BY <3>2, <3>3
  <2>8. AgentsAreFreed'
    BY <2>1, <2>7 DEF AgentsAreFreed
  <2> QED
    BY <2>4, <2>6, <2>8
<1> QED
  BY <1>1, <1>2, <1>3, <1>4, <1>5, AssignKeeps DEF CrewStep

LEMMA CutOffKeeps ==
    ASSUME CoordinatorInv, CutOff, CoordinatorStep
    PROVE  CutOff'
<1>1. Chosen' = Chosen
  BY DEF CoordinatorStep, GatherReturns, StartGraphTask, AgentReturns, AgentRaises, Chosen
<1>2. \A u \in GraphTasks : place[u] = "absent" => place'[u] = "absent"
  <2> SUFFICES ASSUME NEW u \in GraphTasks, place[u] = "absent"
               PROVE  place'[u] = "absent"
    OBVIOUS
  <2>1. place \in [GraphTasks -> Places]
    BY DEF CoordinatorInv, CoordinatorTypeOK
  <2>2. ASSUME NEW t \in GraphTasks, StartGraphTask(t) PROVE place'[u] = "absent"
    BY <2>1, <2>2 DEF StartGraphTask, RaisedIn
  <2>3. ASSUME NEW t \in GraphTasks, AgentReturns(t) \/ AgentRaises(t)
        PROVE  place'[u] = "absent"
    BY <2>1, <2>3 DEF AgentReturns, AgentRaises, RaisedIn
  <2> QED
    BY <2>2, <2>3 DEF CoordinatorStep, GatherReturns
<1> QED
  BY <1>1, <1>2 DEF CutOff

LEMMA TaskNumbers == \A t \in GraphTasks : t \in Int /\ MaxConcurrent \in Int
<1>1. PICK n \in Nat : GraphTasks = 1..n
  BY FS_CardinalityType, CoordinatorAssumption
<1>2. MaxConcurrent \in Int
  BY CoordinatorAssumption
<1> QED
  BY <1>1, <1>2

(* Graphs, parallel lists and the crew: no task runs before what it needs, a
   returned call has the outcome of every task but those of execute_parallel
   beyond its limit, which were never started, and only a cancelled call leaves
   an agent RUNNING with nothing to do, for any tasks, dependencies, limits,
   agents and calls. *)
THEOREM DelegationAlwaysSound == DelegationSpec => []DelegationIsSound
<1> DEFINE DelegationInv == CoordinatorInv /\ CutOff /\ CrewInv
           Step == \/ CoordinatorStep /\ UNCHANGED crewVars
                   \/ CrewStep /\ UNCHANGED coordinatorVars
<1>1. CoordinatorInit /\ CrewInit => DelegationInv
  <2>1. CoordinatorInit => CutOff
    <3> SUFFICES ASSUME CoordinatorInit, NEW t \in GraphTasks \ Chosen
                 PROVE  place[t] = "absent"
      BY DEF CutOff
    <3> QED
      BY DEF CoordinatorInit
  <2> QED
    BY <2>1, CoordinatorStarts, CrewStarts
<1>2. ASSUME CoordinatorInv, CutOff, UNCHANGED coordinatorVars
      PROVE  CoordinatorInv' /\ CutOff'
  BY <1>2 DEF CutOff, CoordinatorInv, CoordinatorTypeOK, OfChosen, Chosen, coordinatorVars
<1>3. ASSUME CrewInv, UNCHANGED crewVars PROVE CrewInv'
  BY <1>3 DEF CrewInv, CrewTypeOK, CallsHaveAgents, AgentsAreFreed, crewVars
<1>4. DelegationInv /\ [Step]_<<coordinatorVars, crewVars>> => DelegationInv'
  BY <1>2, <1>3, CoordinatorKeeps, CutOffKeeps, CrewKeeps
<1>5. DelegationInv => DelegationIsSound
  <2> SUFFICES ASSUME CoordinatorInv, CutOff PROVE TasksRespectNeeds
    BY DEF DelegationIsSound, CrewInv
  <2>1. ASSUME gather = "returned", NEW t \in GraphTasks
        PROVE  IF mode = "parallel" /\ t > MaxConcurrent THEN place[t] = "absent"
               ELSE place[t] = "done" \/ (mode = "parallel" /\ place[t] = "raised")
    <3>1. CASE t \notin Chosen
      <4>1. mode = "parallel" /\ ~(t <= MaxConcurrent)
        BY <3>1 DEF Chosen, CoordinatorInv, CoordinatorTypeOK
      <4>2. t > MaxConcurrent
        BY <4>1, TaskNumbers
      <4> QED
        BY <3>1, <4>1, <4>2 DEF CutOff
    <3>2. CASE t \in Chosen
      <4>1. ~(mode = "parallel" /\ t > MaxConcurrent)
        BY <3>2, TaskNumbers DEF Chosen
      <4> QED
        BY <2>1, <3>2, <4>1 DEF CoordinatorInv, OfChosen
    <3> QED
      BY <3>1, <3>2
  <2> QED
    BY <2>1 DEF TasksRespectNeeds, CoordinatorInv, OfChosen
<1> QED
  BY <1>1, <1>4, <1>5, PTL DEF DelegationSpec

-----------------------------------------------------------------------------
(* The message bus (MessageBus).                                           *)

Message == [topic : Topics, prio : Priorities, corr : Requesters \cup {NoRequest}]

(* A message is in one place: once in the heap, with the handlers, or among the
   dead letters; what waits in the heap has not been handled, and a message whose
   handlers' calls cannot be counted has not either. *)
OnePlace ==
    /\ Once(queue, {})
    /\ current \notin Items(queue)
    /\ \A m \in dead : m \notin Items(queue) /\ m # current
    /\ \A m \in Items(queue), s \in Subs : <<m, s>> \notin handled
    /\ \A m \in dead, s, t \in Subs :
          <<m, s>> \in handled /\ <<m, t>> \in handled => s = t
    /\ current # 0 /\ msgs[current].topic \notin stats =>
          \A s \in Subs : <<current, s>> \notin handled

PendingWaits == \A r \in pending : req[r] \in {"waiting", "expiring", "raised", "cancelled"}

BusInv ==
    /\ BusTypeOK
    /\ running = FALSE => loop = "off"
    /\ OnePlace
    /\ PendingWaits

LEMMA InBusIs == InBus = Items(queue) \cup ({current} \ {0})
BY DEF InBus, Items

-----------------------------------------------------------------------------
(* The heap.                                                               *)

(* The first entry leaves. *)
LEMMA TailItems ==
    ASSUME NEW S, NEW q \in Seq(S), q # <<>>, Once(q, {})
    PROVE  /\ Tail(q) \in Seq(S)
           /\ Len(Tail(q)) = Len(q) - 1
           /\ Items(Tail(q)) = Items(q) \ {q[1]}
           /\ Once(Tail(q), {})
<1>1. /\ Tail(q) \in Seq(S) /\ Len(Tail(q)) = Len(q) - 1
      /\ \A i \in 1..Len(Tail(q)) : Tail(q)[i] = q[i + 1]
      /\ Len(q) \in Nat \ {0}
  BY HeadTailProperties, EmptySeq
<1> DEFINE t == Tail(q)
<1> HIDE DEF t
<1>2. /\ Len(t) = Len(q) - 1 /\ Len(q) \in Nat \ {0}
      /\ \A i \in 1..Len(t) : t[i] = q[i + 1]
  BY <1>1 DEF t
<1>3. \A i, j \in 1..Len(q) : q[i] = q[j] => i = j
  BY DEF Once
<1>4. \A i \in 1..Len(t) : i + 1 \in 1..Len(q) /\ i + 1 # 1
  BY <1>2
<1>5. \A i \in 1..Len(q) : i = 1 \/ (i - 1 \in 1..Len(t) /\ (i - 1) + 1 = i)
  BY <1>2
<1>6. 1 \in 1..Len(q)
  BY <1>2
<1>7. Items(t) \subseteq Items(q) \ {q[1]}
  BY <1>2, <1>3, <1>4, <1>6 DEF Items
<1>8. Items(q) \ {q[1]} \subseteq Items(t)
  <2> SUFFICES ASSUME NEW i \in 1..Len(q), q[i] # q[1]
               PROVE  \E j \in 1..Len(t) : t[j] = q[i]
    BY DEF Items
  <2>1. i - 1 \in 1..Len(t) /\ (i - 1) + 1 = i
    BY <1>5
  <2>2. t[i - 1] = q[i]
    BY <1>2, <2>1
  <2> QED
    BY <2>1, <2>2
<1>9. Once(t, {})
  <2> SUFFICES ASSUME NEW i \in 1..Len(t), NEW j \in 1..Len(t), t[i] = t[j]
               PROVE  i = j
    BY DEF Once
  <2>1. i + 1 = j + 1
    BY <1>2, <1>3, <1>4
  <2> QED
    BY <2>1
<1> QED
  BY <1>1, <1>7, <1>8, <1>9 DEF t

LEMMA PoppedItems ==
    ASSUME NEW S, queue \in Seq(S), queue # <<>>, Len(queue) <= QueueBound,
           Once(queue, {})
    PROVE  /\ Popped \in Seq(S)
           /\ Len(Popped) <= QueueBound
           /\ Items(Popped) = Items(queue) \ {queue[1]}
           /\ Once(Popped, {})
<1>1. CASE Popped = Tail(queue)
  BY <1>1, TailItems, LenProperties DEF QueueBound
<1>2. CASE Len(queue) = 3 /\ Popped = <<queue[3], queue[2]>>
  <2>1. {1, 2, 3} = 1..Len(queue)
    BY <1>2
  <2>2. queue[1] \in S /\ queue[2] \in S /\ queue[3] \in S
    BY <2>1, ElementOfSeq
  <2>3. Items(queue) = {queue[1], queue[2], queue[3]}
    BY <2>1 DEF Items
  <2>4. queue[1] # queue[2] /\ queue[1] # queue[3] /\ queue[2] # queue[3]
    BY <2>1 DEF Once
  <2> DEFINE p == Popped
  <2>5. p = <<queue[3], queue[2]>>
    BY <1>2
  <2> HIDE DEF p
  <2>6. p \in Seq(S) /\ Len(p) = 2 /\ p[1] = queue[3] /\ p[2] = queue[2]
    BY <2>2, <2>5
  <2>7. 1..Len(p) = {1, 2}
    BY <2>6
  <2>8. Items(p) = {queue[3], queue[2]} /\ Once(p, {})
    BY <2>4, <2>6, <2>7 DEF Items, Once
  <2> QED
    BY <2>3, <2>4, <2>6, <2>8 DEF p, QueueBound
<1> QED
  BY <1>1, <1>2 DEF Popped

(* A new entry comes in, at the end or instead of the root, which it moves to
   the end. *)
LEMMA PushedItems ==
    ASSUME NEW S, queue \in Seq(S), NEW m \in S, m \notin Items(queue), Once(queue, {}),
           NEW all
    PROVE  /\ Pushed(all, m) \in Seq(S)
           /\ Len(Pushed(all, m)) = Len(queue) + 1
           /\ Items(Pushed(all, m)) = Items(queue) \cup {m}
           /\ Once(Pushed(all, m), {})
<1> DEFINE n == Len(queue)
           p == Pushed(all, m)
<1>1. n \in Nat /\ \A i, j \in 1..n : queue[i] = queue[j] => i = j
  BY LenProperties DEF Once
<1>2. \A i \in 1..n : queue[i] # m /\ queue[i] \in S
  BY ElementOfSeq DEF Items
<1>3. /\ Append(queue, m) \in Seq(S) /\ Len(Append(queue, m)) = n + 1
      /\ \A i \in 1..n : Append(queue, m)[i] = queue[i]
      /\ Append(queue, m)[n + 1] = m
  BY AppendProperties
<1>4. CASE p = Append(queue, m)
  <2> HIDE DEF p, n
  <2>1. /\ p \in Seq(S) /\ Len(p) = n + 1
        /\ \A i \in 1..n : p[i] = queue[i]
        /\ p[n + 1] = m
    BY <1>3, <1>4
  <2>2. \A i \in 1..(n + 1) : i \in 1..n \/ i = n + 1
    BY <1>1
  <2>3. n + 1 \in 1..(n + 1) /\ 1..n \subseteq 1..(n + 1)
    BY <1>1
  <2>4. Items(p) = Items(queue) \cup {m}
    BY <2>1, <2>2, <2>3 DEF Items, n
  <2>5. Once(p, {})
    BY <1>1, <1>2, <2>1, <2>2 DEF Once
  <2> QED
    BY <2>1, <2>4, <2>5 DEF p, n
<1>5. CASE queue # <<>> /\ p = <<m>> \o Tail(queue) \o <<queue[1]>>
  <2>1. /\ n \in Nat \ {0} /\ Tail(queue) \in Seq(S) /\ Len(Tail(queue)) = n - 1
        /\ \A i \in 1..(n - 1) : Tail(queue)[i] = queue[i + 1]
    BY <1>5, HeadTailProperties, EmptySeq
  <2>2. /\ <<m>> \in Seq(S) /\ Len(<<m>>) = 1 /\ <<m>>[1] = m
        /\ <<queue[1]>> \in Seq(S) /\ Len(<<queue[1]>>) = 1 /\ <<queue[1]>>[1] = queue[1]
    BY <1>2, <2>1
  <2> DEFINE a == <<m>>
             t == Tail(queue)
             z == <<queue[1]>>
             at == a \o t
  <2> HIDE DEF a, t, z, at, n, p
  <2>3. /\ a \in Seq(S) /\ Len(a) = 1 /\ a[1] = m
        /\ t \in Seq(S) /\ Len(t) = n - 1 /\ \A i \in 1..(n - 1) : t[i] = queue[i + 1]
        /\ z \in Seq(S) /\ Len(z) = 1 /\ z[1] = queue[1]
        /\ n \in Nat \ {0}
    BY <2>1, <2>2 DEF a, t, z, n
  <2>4. /\ at \in Seq(S) /\ Len(at) = n
        /\ \A i \in 1..n : at[i] = IF i = 1 THEN m ELSE queue[i]
    <3>1. /\ a \o t \in Seq(S) /\ Len(a \o t) = 1 + (n - 1)
          /\ \A i \in 1..(1 + (n - 1)) : (a \o t)[i] = IF i <= 1 THEN a[i] ELSE t[i - 1]
      <4>1. /\ a \o t \in Seq(S) /\ Len(a \o t) = Len(a) + Len(t)
            /\ \A i \in 1..(Len(a) + Len(t)) :
                  (a \o t)[i] = IF i <= Len(a) THEN a[i] ELSE t[i - Len(a)]
        <5>1. a \in Seq(S) /\ t \in Seq(S)
          BY <2>3
        <5> QED
          BY ONLY <5>1, ConcatProperties
      <4> QED
        BY <2>3, <4>1
    <3>2. \A i \in 1..n : i = 1 \/ (i - 1 \in 1..(n - 1) /\ (i - 1) + 1 = i /\ ~(i <= 1))
      BY <2>3
    <3>3. 1 + (n - 1) = n
      BY <2>3
    <3>4. at = a \o t
      BY DEF at
    <3>5. ASSUME NEW i \in 1..n PROVE at[i] = IF i = 1 THEN m ELSE queue[i]
      <4>1. CASE i = 1
        BY <2>3, <3>1, <3>3, <3>4, <4>1
      <4>2. CASE i # 1
        BY <2>3, <3>1, <3>2, <3>3, <3>4, <4>2
      <4> QED
        BY <4>1, <4>2
    <3> QED
      BY <3>1, <3>3, <3>4, <3>5
  <2>5. /\ p \in Seq(S) /\ Len(p) = n + 1
        /\ \A i \in 1..n : p[i] = IF i = 1 THEN m ELSE queue[i]
        /\ p[n + 1] = queue[1]
    <3>1. /\ at \o z \in Seq(S) /\ Len(at \o z) = n + 1
          /\ \A i \in 1..(n + 1) : (at \o z)[i] = IF i <= n THEN at[i] ELSE z[i - n]
      <4>1. /\ at \o z \in Seq(S) /\ Len(at \o z) = Len(at) + Len(z)
            /\ \A i \in 1..(Len(at) + Len(z)) :
                  (at \o z)[i] = IF i <= Len(at) THEN at[i] ELSE z[i - Len(at)]
        <5>1. at \in Seq(S) /\ z \in Seq(S)
          BY <2>3, <2>4
        <5> QED
          BY ONLY <5>1, ConcatProperties
      <4> QED
        BY <2>3, <2>4, <4>1
    <3>2. p = at \o z
      BY <1>5 DEF p, at, a, t, z
    <3>3. \A i \in 1..n : i \in 1..(n + 1) /\ i <= n
      BY <2>3
    <3>4. n + 1 \in 1..(n + 1) /\ ~(n + 1 <= n) /\ (n + 1) - n = 1
      BY <2>3
    <3>5. p[n + 1] = queue[1]
      BY <2>3, <3>1, <3>2, <3>4
    <3> QED
      BY <2>4, <3>1, <3>2, <3>3, <3>5
  <2>6. \A i \in 1..(n + 1) : i \in 1..n \/ i = n + 1
    BY <2>3
  <2>7. 1 \in 1..n /\ 1..n \subseteq 1..(n + 1) /\ n + 1 \in 1..(n + 1)
    BY <2>3
  <2>8. Items(p) \subseteq Items(queue) \cup {m}
    BY <2>5, <2>6, <2>7 DEF Items, n
  <2>9. Items(queue) \cup {m} \subseteq Items(p)
    <3>1. p[1] = m /\ 1 \in 1..Len(p)
      BY <2>5, <2>7
    <3>2. \A i \in 1..n : \E j \in 1..Len(p) : p[j] = queue[i]
      <4> SUFFICES ASSUME NEW i \in 1..n PROVE \E j \in 1..Len(p) : p[j] = queue[i]
        OBVIOUS
      <4>1. CASE i = 1
        BY <2>5, <2>7, <4>1
      <4>2. CASE i # 1
        BY <2>5, <2>7, <4>2
      <4> QED
        BY <4>1, <4>2
    <3> QED
      BY <3>1, <3>2 DEF Items, n
  <2>10. Once(p, {})
    <3> SUFFICES ASSUME NEW i \in 1..(n + 1), NEW j \in 1..(n + 1), p[i] = p[j]
                 PROVE  i = j
      BY <2>5 DEF Once
    <3>1. \A k \in 1..(n + 1) : \/ k = 1 /\ p[k] = m
                                \/ k \in 1..n /\ k # 1 /\ p[k] = queue[k]
                                \/ k = n + 1 /\ k # 1 /\ p[k] = queue[1]
      BY <2>3, <2>5, <2>6
    <3>2. \A k, l \in 1..n : queue[k] = queue[l] => k = l
      BY <1>1 DEF n
    <3>3. \A k \in 1..n : queue[k] # m
      BY <1>2 DEF n
    <3> QED
      BY <2>7, <3>1, <3>2, <3>3
  <2> QED
    BY <2>5, <2>8, <2>9, <2>10 DEF p, n
<1> QED
  BY <1>4, <1>5 DEF Pushed

-----------------------------------------------------------------------------
LEMMA BusStarts == BusInit => BusInv
<1> SUFFICES ASSUME BusInit PROVE BusInv
  OBVIOUS
<1>1. /\ msgs \in Seq(Message) /\ Len(msgs) = 0
      /\ queue \in Seq(1..Len(msgs)) /\ Len(queue) = 0
  BY EmptySeq DEF BusInit
<1>2. BusTypeOK
  <2>1. MaxMessages \in Nat /\ MaxStops \in Nat
    BY BusAssumption
  <2>2. Len(msgs) <= MaxMessages /\ Len(queue) <= QueueBound /\ 0 \in 0..Len(msgs)
    BY <1>1, <2>1 DEF QueueBound
  <2>3. stops \in 0..MaxStops
    BY <2>1 DEF BusInit
  <2> QED
    BY <1>1, <2>2, <2>3 DEF BusInit, BusTypeOK, Message, RequestState
<1>3. Items(queue) = {} /\ Once(queue, {})
  BY <1>1 DEF Items, Once
<1>4. OnePlace
  BY <1>3 DEF BusInit, OnePlace
<1> QED
  BY <1>2, <1>4 DEF BusInit, BusInv, PendingWaits

(* What BusTypeOK says of the messages. *)
LEMMA MessageTypes ==
    ASSUME BusInv
    PROVE  /\ msgs \in Seq(Message) /\ Len(msgs) \in Nat
           /\ queue \in Seq(1..Len(msgs)) /\ Len(queue) \in Nat
           /\ Items(queue) \subseteq 1..Len(msgs)
           /\ current \in 0..Len(msgs) /\ 0 \notin Items(queue)
           /\ dead \subseteq 1..Len(msgs)
           /\ handled \subseteq (1..Len(msgs)) \X Subs
<1>1. msgs \in Seq(Message) /\ queue \in Seq(1..Len(msgs))
  BY DEF BusInv, BusTypeOK, Message
<1>2. Len(msgs) \in Nat /\ Len(queue) \in Nat
  BY <1>1, LenProperties
<1>3. Items(queue) \subseteq 1..Len(msgs)
  BY <1>1, ElementOfSeq DEF Items
<1> QED
  BY <1>1, <1>2, <1>3 DEF BusInv, BusTypeOK

(* A message is put in. *)
LEMMA PutKeeps ==
    ASSUME BusInv, NEW message \in Message, Put(message),
           UNCHANGED <<subs, stats, running, loop, current, todo, dead, handled, stops>>,
           pending' \subseteq Requesters,
           req' \in [Requesters -> RequestState],
           PendingWaits'
    PROVE  BusInv' /\ InBus \subseteq InBus'
<1> DEFINE n == Len(msgs)
<1>1. /\ msgs' = Append(msgs, message)
      /\ n < MaxMessages /\ Len(queue) < QueueBound
      /\ queue' = Pushed(msgs', Len(msgs'))
  BY DEF Put
<1>2. /\ msgs' \in Seq(Message) /\ Len(msgs') = n + 1 /\ n \in Nat
      /\ \A i \in 1..n : msgs'[i] = msgs[i]
  BY <1>1, MessageTypes, AppendProperties
<1>3. /\ queue \in Seq(1..(n + 1)) /\ n + 1 \notin Items(queue)
      /\ n + 1 \in 1..(n + 1)
  <2>1. 1..n \subseteq 1..(n + 1)
    BY <1>2
  <2>2. queue \in Seq(1..(n + 1))
    BY <2>1, MessageTypes, SeqMonotonic
  <2> QED
    BY <1>2, <2>2, MessageTypes
<1>4. Once(queue, {})
  BY DEF BusInv, OnePlace
<1>5. /\ queue' \in Seq(1..Len(msgs')) /\ Len(queue') = Len(queue) + 1
      /\ Items(queue') = Items(queue) \cup {n + 1} /\ Once(queue', {})
  <2>1. queue' = Pushed(msgs', n + 1)
    BY <1>1, <1>2
  <2> HIDE DEF n
  <2> QED
    BY <1>2, <1>3, <1>4, <2>1, PushedItems
<1> HIDE DEF n
<1>6. BusTypeOK'
  <2>1. Len(msgs') <= MaxMessages /\ Len(queue') <= QueueBound
    BY <1>1, <1>2, <1>5, MessageTypes, BusAssumption DEF QueueBound
  <2>2. current \in 0..(n + 1) /\ dead \subseteq 1..(n + 1)
        /\ handled \subseteq (1..(n + 1)) \X Subs
    BY <1>2, MessageTypes DEF n
  <2> QED
    BY <1>2, <1>5, <2>1, <2>2 DEF BusInv, BusTypeOK, Message
<1>7. OnePlace'
  <2>1. current # n + 1 /\ n + 1 \notin dead /\ \A s \in Subs : <<n + 1, s>> \notin handled
    BY <1>2, MessageTypes DEF n
  <2>2. current # 0 => msgs'[current] = msgs[current]
    BY <1>2, MessageTypes DEF n
  <2> QED
    BY <1>5, <2>1, <2>2 DEF BusInv, OnePlace
<1>8. InBus \subseteq InBus'
  BY <1>5, InBusIs DEF InBus, Items
<1> QED
  BY <1>6, <1>7, <1>8 DEF BusInv

(* A message is taken out, to be dropped, answered, or handled next. *)
LEMMA TakenOut ==
    ASSUME BusInv, NEW m \in 1..Len(msgs), Get(m)
    PROVE  /\ loop = "idle" /\ current = 0 /\ todo = {}
           /\ m \in Items(queue) /\ m \notin dead
           /\ queue' \in Seq(1..Len(msgs)) /\ Len(queue') <= QueueBound
           /\ Items(queue') = Items(queue) \ {m} /\ Once(queue', {})
<1>1. queue # <<>> /\ m = queue[1] /\ queue' = Popped /\ loop = "idle"
  BY DEF Get
<1>2. Len(queue) <= QueueBound /\ Once(queue, {}) /\ queue \in Seq(1..Len(msgs))
  BY MessageTypes DEF BusInv, BusTypeOK, OnePlace
<1>3. 1 \in 1..Len(queue)
  BY <1>1, <1>2, EmptySeq
<1>4. m \in Items(queue)
  BY <1>1, <1>3 DEF Items
<1>5. current = 0 /\ todo = {}
  BY <1>1 DEF BusInv, BusTypeOK
<1>6. m \notin dead
  BY <1>4 DEF BusInv, OnePlace
<1>7. /\ Popped \in Seq(1..Len(msgs)) /\ Len(Popped) <= QueueBound
      /\ Items(Popped) = Items(queue) \ {queue[1]} /\ Once(Popped, {})
  BY <1>1, <1>2, PoppedItems
<1> QED
  BY <1>1, <1>4, <1>5, <1>6, <1>7

LEMMA GetExpiredKeeps ==
    ASSUME BusInv, NEW m \in 1..Len(msgs), GetExpired(m)
    PROVE  BusInv'
<1>1. Get(m) /\ dead' = dead \cup {m}
      /\ UNCHANGED <<msgs, subs, stats, pending, req, running, loop, current, todo,
                     handled, stops>>
  BY DEF GetExpired
<1>2. BusTypeOK'
  BY <1>1, TakenOut DEF BusInv, BusTypeOK
<1>3. OnePlace'
  <2>1. \A s \in Subs : <<m, s>> \notin handled
    BY <1>1, TakenOut DEF BusInv, OnePlace
  <2>2. m # current
    BY <1>1, TakenOut
  <2>3. /\ Items(queue') = Items(queue) \ {m} /\ Once(queue', {})
        /\ dead' = dead \cup {m}
        /\ UNCHANGED <<msgs, stats, current, handled>>
    BY <1>1, TakenOut
  <2> QED
    BY <2>1, <2>2, <2>3 DEF BusInv, OnePlace
<1> QED
  BY <1>1, <1>2, <1>3 DEF BusInv, PendingWaits

LEMMA AnswerKeeps ==
    ASSUME BusInv, NEW m \in 1..Len(msgs), Answer(m)
    PROVE  BusInv'
<1> DEFINE r == msgs[m].corr
<1>1. /\ Get(m) /\ r \in pending
      /\ pending' = pending \ {r}
      /\ req' = [req EXCEPT ![r] = IF @ = "waiting" THEN "set" ELSE @]
      /\ UNCHANGED <<msgs, subs, stats, running, loop, current, todo, dead, handled, stops>>
  BY DEF Answer
<1> HIDE DEF r
<1>2. BusTypeOK'
  BY <1>1, TakenOut DEF BusInv, BusTypeOK, RequestState
<1>3. OnePlace'
  <2>1. /\ Items(queue') = Items(queue) \ {m} /\ Once(queue', {})
        /\ UNCHANGED <<msgs, stats, current, handled, dead>>
    BY <1>1, TakenOut
  <2> QED
    BY <2>1 DEF BusInv, OnePlace
<1>4. PendingWaits'
  BY <1>1 DEF BusInv, BusTypeOK, PendingWaits
<1> QED
  BY <1>1, <1>2, <1>3, <1>4 DEF BusInv

LEMMA DeliverKeeps ==
    ASSUME BusInv, NEW m \in 1..Len(msgs), Deliver(m)
    PROVE  BusInv'
<1> DEFINE matching == {s \in subs : Matches(s, msgs[m].topic)}
<1>1. /\ Get(m)
      /\ IF matching = {}
         THEN stats' = stats \cup {msgs[m].topic} /\ UNCHANGED <<loop, current, todo>>
         ELSE loop' = "handling" /\ current' = m /\ todo' = matching /\ UNCHANGED stats
      /\ UNCHANGED <<msgs, subs, pending, req, running, dead, handled, stops>>
  BY DEF Deliver
<1>2. matching \subseteq subs
  OBVIOUS
<1> HIDE DEF matching
<1>3. msgs[m].topic \in Topics
  <2>1. msgs \in Seq(Message)
    BY MessageTypes
  <2>2. msgs[m] \in Message
    BY <2>1, ElementOfSeq
  <2> QED
    BY <2>2 DEF Message
<1>4. BusTypeOK'
  <2>1. /\ queue' \in Seq(1..Len(msgs)) /\ Len(queue') <= QueueBound
        /\ loop = "idle" /\ current = 0 /\ todo = {}
    BY <1>1, TakenOut
  <2>2. CASE matching = {}
    BY <1>1, <1>3, <2>1, <2>2 DEF BusInv, BusTypeOK
  <2>3. CASE matching # {}
    <3>1. m \in 0..Len(msgs) /\ m # 0
      BY MessageTypes
    <3>2. todo' \subseteq Subs
      BY <1>1, <1>2, <2>3 DEF BusInv, BusTypeOK
    <3> QED
      BY <1>1, <2>1, <2>3, <3>1, <3>2 DEF BusInv, BusTypeOK
  <2> QED
    BY <2>2, <2>3
<1>5. /\ Items(queue') = Items(queue) \ {m} /\ Once(queue', {})
      /\ current = 0 /\ m \in Items(queue) /\ m \notin dead
      /\ UNCHANGED <<msgs, dead, handled>>
      /\ current' \in {0, m} /\ m # 0
  BY <1>1, TakenOut
<1>6. \A s \in Subs : <<m, s>> \notin handled
  BY <1>5 DEF BusInv, OnePlace
<1>7. 0 \notin Items(queue) /\ 0 \notin dead
  BY MessageTypes
<1>8. OnePlace'
  BY <1>5, <1>6, <1>7 DEF BusInv, OnePlace
<1>9. running = FALSE => loop' = "off"
  BY <1>1, TakenOut DEF BusInv
<1> QED
  BY <1>1, <1>4, <1>8, <1>9 DEF BusInv, PendingWaits

LEMMA HandlerKeeps ==
    ASSUME BusInv, NEW s \in Subs, HandlerEnds(s)
    PROVE  BusInv'
<1>1. /\ loop = "handling" /\ s \in todo
      /\ handled' = handled \cup {<<current, s>>}
      /\ loop' = IF todo' = {} THEN "idle" ELSE "handling"
      /\ current' = IF todo' = {} THEN 0 ELSE current
      /\ UNCHANGED <<msgs, queue, subs, stats, pending, req, running, stops>>
      /\ \/ msgs[current].topic \in stats /\ todo' = todo \ {s} /\ dead' = dead
         \/ msgs[current].topic \notin stats /\ todo' = {} /\ dead' = dead \cup {current}
  BY DEF HandlerEnds
<1>2. current \in 1..Len(msgs) /\ current # 0 /\ 0 \notin Items(queue) /\ 0 \notin dead
  <2>1. current # 0
    BY <1>1 DEF BusInv, BusTypeOK
  <2>2. current \in 0..Len(msgs) /\ Len(msgs) \in Nat /\ dead \subseteq 1..Len(msgs)
        /\ 0 \notin Items(queue)
    BY MessageTypes
  <2> QED
    BY <2>1, <2>2
<1>3. BusTypeOK'
  <2>1. <<current, s>> \in (1..Len(msgs)) \X Subs
    BY <1>2
  <2>2. /\ handled' \subseteq (1..Len(msgs)) \X Subs
        /\ dead' \subseteq 1..Len(msgs)
        /\ todo' \subseteq Subs
    BY <1>1, <1>2, <2>1 DEF BusInv, BusTypeOK
  <2>3. /\ current' \in 0..Len(msgs)
        /\ loop' \in {"off", "idle", "handling", "dead"}
        /\ loop' = "handling" <=> current' # 0
        /\ loop' = "handling" <=> todo' # {}
    BY <1>1, <1>2 DEF BusInv, BusTypeOK
  <2> QED
    BY <1>1, <2>2, <2>3 DEF BusInv, BusTypeOK
<1>4. OnePlace'
  <2>1. Once(queue', {}) /\ Items(queue') = Items(queue) /\ current \notin Items(queue)
    BY <1>1 DEF BusInv, OnePlace
  <2>2. current' \notin Items(queue')
    BY <1>1, <1>2, <2>1
  <2>3. \A m \in dead' : m \notin Items(queue') /\ m # current'
    BY <1>1, <1>2, <2>1 DEF BusInv, OnePlace
  <2>4. \A m \in Items(queue'), t \in Subs : <<m, t>> \notin handled'
    BY <1>1, <2>1 DEF BusInv, OnePlace
  <2>5. ASSUME NEW m \in dead', NEW t \in Subs, NEW u \in Subs,
               <<m, t>> \in handled', <<m, u>> \in handled'
        PROVE  t = u
    <3>1. CASE m \in dead
      <4>1. m # current
        BY <3>1 DEF BusInv, OnePlace
      <4>2. <<m, t>> \in handled /\ <<m, u>> \in handled
        BY <1>1, <2>5, <4>1
      <4> QED
        BY <3>1, <4>2 DEF BusInv, OnePlace
    <3>2. CASE m = current /\ msgs[current].topic \notin stats
      <4>1. <<m, t>> \notin handled /\ <<m, u>> \notin handled
        BY <1>2, <3>2 DEF BusInv, OnePlace
      <4> QED
        BY <1>1, <2>5, <4>1
    <3> QED
      BY <1>1, <3>1, <3>2
  <2>6. current' # 0 => msgs'[current'].topic \in stats'
    BY <1>1
  <2> QED
    BY <2>1, <2>2, <2>3, <2>4, <2>5, <2>6 DEF OnePlace
<1>5. running' = FALSE => loop' = "off"
  BY <1>1 DEF BusInv
<1> QED
  BY <1>1, <1>3, <1>4, <1>5 DEF BusInv, PendingWaits

(* Steps that leave the messages where they are. *)
LEMMA QuietKeeps ==
    ASSUME BusInv, UNCHANGED <<msgs, queue, current, todo, dead, handled, running, loop>>,
           subs' \subseteq Subs, stats \subseteq stats', stats' \subseteq Topics \cup {"*"},
           stops' \in 0..MaxStops, pending' \subseteq Requesters,
           req' \in [Requesters -> RequestState],
           PendingWaits'
    PROVE  BusInv'
<1>1. BusTypeOK'
  BY DEF BusInv, BusTypeOK
<1>2. OnePlace'
  BY DEF BusInv, OnePlace
<1> QED
  BY <1>1, <1>2 DEF BusInv

LEMMA RequestStepsKeep ==
    ASSUME BusInv, NEW r \in Requesters, Expire(r) \/ Resume(r) \/ Cancel(r)
    PROVE  BusInv' /\ UNCHANGED <<queue, current>>
<1>1. /\ UNCHANGED <<msgs, queue, subs, stats, running, loop, current, todo, dead,
                     handled, stops>>
      /\ pending' \subseteq pending
  BY DEF Expire, Resume, Cancel
<1>2. req' \in [Requesters -> RequestState]
  BY DEF Expire, Resume, Cancel, BusInv, BusTypeOK, RequestState, GivenUp
<1>3. PendingWaits'
  BY DEF Expire, Resume, Cancel, PendingWaits, BusInv, BusTypeOK
<1>4. subs' \subseteq Subs /\ stats' \subseteq Topics \cup {"*"} /\ stops' \in 0..MaxStops
      /\ pending' \subseteq Requesters
  BY <1>1 DEF BusInv, BusTypeOK
<1> QED
  BY <1>1, <1>2, <1>3, <1>4, QuietKeeps

LEMMA SubscriptionsKeep ==
    ASSUME BusInv, NEW s \in Subs, Subscribe(s) \/ Unsubscribe(s)
    PROVE  BusInv' /\ UNCHANGED <<queue, current>>
<1>1. /\ UNCHANGED <<msgs, queue, pending, req, running, loop, current, todo, dead,
                     handled, stops>>
      /\ subs' \subseteq subs \cup {s}
      /\ stats' \in {stats, stats \cup {Pattern(s)}}
  BY DEF Subscribe, Unsubscribe
<1>2. Pattern(s) \in Topics \cup {"*"}
  BY DEF Pattern, Topics
<1>3. /\ subs' \subseteq Subs /\ stats \subseteq stats' /\ stats' \subseteq Topics \cup {"*"}
      /\ stops' \in 0..MaxStops /\ pending' \subseteq Requesters
      /\ req' \in [Requesters -> RequestState]
  BY <1>1, <1>2 DEF BusInv, BusTypeOK
<1>4. PendingWaits'
  BY <1>1 DEF BusInv, PendingWaits
<1> QED
  BY <1>1, <1>3, <1>4, QuietKeeps

(* The three ways of publishing. *)
LEMMA PublishingKeeps ==
    ASSUME BusInv,
           \/ Publish
           \/ \E r \in Requesters : Request(r) \/ Respond(r)
    PROVE  BusInv' /\ InBus \subseteq InBus'
<1>1. ASSUME NEW message \in Message, Put(message),
             UNCHANGED <<subs, stats, pending, req, running, loop, current, todo,
                         dead, handled, stops>>
      PROVE  BusInv' /\ InBus \subseteq InBus'
  <2>1. /\ pending' \subseteq Requesters
        /\ req' \in [Requesters -> RequestState]
        /\ PendingWaits'
    BY <1>1 DEF BusInv, BusTypeOK, PendingWaits
  <2> QED
    BY <1>1, <2>1, PutKeeps
<1>2. CASE Publish
  <2>1. [topic |-> "task", prio |-> "normal", corr |-> NoRequest] \in Message
    BY DEF Message, Topics, Priorities
  <2> QED
    BY <1>1, <1>2, <2>1 DEF Publish
<1>3. ASSUME NEW r \in Requesters, Respond(r) PROVE BusInv' /\ InBus \subseteq InBus'
  <2>1. [topic |-> "result", prio |-> "high", corr |-> r] \in Message
    BY DEF Message, Topics, Priorities
  <2> QED
    BY <1>1, <1>3, <2>1 DEF Respond
<1>4. ASSUME NEW r \in Requesters, Request(r) PROVE BusInv' /\ InBus \subseteq InBus'
  <2>1. [topic |-> "task", prio |-> "high", corr |-> r] \in Message
    BY DEF Message, Topics, Priorities
  <2>2. /\ Put([topic |-> "task", prio |-> "high", corr |-> r])
        /\ pending' = pending \cup {r}
        /\ UNCHANGED <<subs, stats, running, loop, current, todo, dead, handled, stops>>
        /\ \E x \in {"raised", "waiting"} : req' = [req EXCEPT ![r] = x]
    BY <1>4 DEF Request
  <2>3. PICK x \in {"raised", "waiting"} : req' = [req EXCEPT ![r] = x]
    BY <2>2
  <2>4. /\ pending' \subseteq Requesters
        /\ req' \in [Requesters -> RequestState]
    BY <2>2, <2>3 DEF BusInv, BusTypeOK, RequestState, GivenUp
  <2>5. PendingWaits'
    BY <2>2, <2>3 DEF BusInv, BusTypeOK, PendingWaits
  <2> QED
    BY <2>1, <2>2, <2>4, <2>5, PutKeeps
<1> QED
  BY <1>2, <1>3, <1>4

LEMMA StartKeeps == ASSUME BusInv, Start PROVE BusInv' /\ UNCHANGED <<queue, current>>
<1>1. /\ running = FALSE /\ running' = TRUE /\ loop' = "idle"
      /\ UNCHANGED <<msgs, queue, subs, stats, pending, req, current, todo, dead,
                     handled, stops>>
  BY DEF Start, BusInv, BusTypeOK
<1>2. loop = "off"
  BY <1>1 DEF BusInv
<1>3. BusTypeOK'
  BY <1>1, <1>2 DEF BusInv, BusTypeOK
<1>4. OnePlace' /\ PendingWaits'
  BY <1>1 DEF BusInv, OnePlace, PendingWaits
<1> QED
  BY <1>1, <1>3, <1>4 DEF BusInv

LEMMA StopKeeps == ASSUME BusInv, Stop PROVE BusInv' /\ loop' = "off"
<1>1. /\ stops < MaxStops /\ stops' = stops + 1 /\ running' = FALSE /\ loop' = "off"
      /\ current' = 0 /\ todo' = {}
      /\ UNCHANGED <<msgs, queue, subs, stats, pending, req, dead, handled>>
  BY DEF Stop
<1>2. stops' \in 0..MaxStops
  BY <1>1, BusAssumption DEF BusInv, BusTypeOK
<1>3. 0 \in 0..Len(msgs) /\ 0 \notin Items(queue) /\ 0 \notin dead
  BY MessageTypes
<1>4. BusTypeOK'
  BY <1>1, <1>2, <1>3 DEF BusInv, BusTypeOK
<1>5. OnePlace' /\ PendingWaits'
  BY <1>1, <1>3 DEF BusInv, OnePlace, PendingWaits
<1> QED
  BY <1>1, <1>4, <1>5 DEF BusInv

LEMMA GetRaisesKeeps == ASSUME BusInv, GetRaises PROVE BusInv' /\ loop' = "dead"
<1>1. /\ loop = "idle" /\ Len(queue) = 3 /\ queue' = Tail(queue) /\ loop' = "dead"
      /\ UNCHANGED <<msgs, subs, stats, pending, req, running, current, todo, dead,
                     handled, stops>>
  BY DEF GetRaises, PopRaises
<1>2. queue # <<>> /\ queue \in Seq(1..Len(msgs)) /\ Once(queue, {})
  <2>1. queue # <<>>
    BY <1>1, EmptySeq
  <2>2. queue \in Seq(1..Len(msgs))
    BY MessageTypes
  <2> QED
    BY <2>1, <2>2 DEF BusInv, OnePlace
<1>3. /\ queue' \in Seq(1..Len(msgs)) /\ Len(queue') = 2
      /\ Items(queue') \subseteq Items(queue) /\ Once(queue', {})
  BY <1>1, <1>2, TailItems
<1>4. BusTypeOK'
  BY <1>1, <1>3 DEF BusInv, BusTypeOK, QueueBound
<1>5. OnePlace' /\ PendingWaits'
  BY <1>1, <1>3 DEF BusInv, OnePlace, PendingWaits
<1>6. running' = FALSE => loop' = "off"
  BY <1>1 DEF BusInv
<1> QED
  BY <1>1, <1>4, <1>5, <1>6 DEF BusInv

LEMMA BusKeeps == ASSUME BusInv, [BusNext]_busVars PROVE BusInv'
<1>1. CASE UNCHANGED busVars
  BY <1>1 DEF busVars, BusInv, BusTypeOK, OnePlace, PendingWaits
<1>2. ASSUME NEW m \in 1..Len(msgs), GetExpired(m) \/ Answer(m) \/ Deliver(m)
      PROVE  BusInv'
  BY <1>2, GetExpiredKeeps, AnswerKeeps, DeliverKeeps
<1>3. ASSUME NEW s \in Subs, Subscribe(s) \/ Unsubscribe(s) \/ HandlerEnds(s)
      PROVE  BusInv'
  BY <1>3, SubscriptionsKeep, HandlerKeeps
<1>4. ASSUME NEW r \in Requesters, Request(r) \/ Respond(r) \/ Expire(r) \/ Resume(r) \/ Cancel(r)
      PROVE  BusInv'
  BY <1>4, PublishingKeeps, RequestStepsKeep
<1>5. CASE Publish \/ Start \/ Stop \/ GetRaises
  BY <1>5, PublishingKeeps, StartKeeps, StopKeeps, GetRaisesKeeps
<1> QED
  BY <1>1, <1>2, <1>3, <1>4, <1>5 DEF BusNext

-----------------------------------------------------------------------------
(* What a handler is handed.  The message of a request is the first under its
   correlation id, and the only one as long as no handler had it: it resolves
   the request's own future, unless the request has given up by then. *)
OwnAnswer ==
    /\ \A m \in 1..Len(msgs) : Handed(m) /\ msgs[m].corr # NoRequest =>
          req[msgs[m].corr] \in GivenUp
    /\ \A r \in Requesters : req[r] = "waiting" => r \in pending
    /\ \A m \in 1..Len(msgs) : msgs[m].corr # NoRequest => req[msgs[m].corr] # "idle"
    /\ \A m, n \in 1..Len(msgs) :
          msgs[m].corr = msgs[n].corr /\ msgs[m].corr # NoRequest =>
             m = n \/ req[msgs[m].corr] \in GivenUp
    /\ \A m \in Items(queue) : msgs[m].corr # NoRequest =>
          req[msgs[m].corr] \notin {"set", "answered"}

LEMMA CorrTypes ==
    ASSUME BusInv
    PROVE  \A m \in 1..Len(msgs) : msgs[m].corr # NoRequest => msgs[m].corr \in Requesters
<1> SUFFICES ASSUME NEW m \in 1..Len(msgs)
             PROVE  msgs[m].corr # NoRequest => msgs[m].corr \in Requesters
  OBVIOUS
<1>1. msgs[m] \in Message
  BY MessageTypes, ElementOfSeq
<1> QED
  BY <1>1 DEF Message

(* An exception of get() takes a message from the heap and puts none in. *)
LEMMA RaisesDrops ==
    ASSUME BusInv, GetRaises
    PROVE  Items(queue') \subseteq Items(queue)
<1>1. Len(queue) = 3 /\ queue' = Tail(queue)
  BY DEF GetRaises, PopRaises
<1>2. queue \in Seq(1..Len(msgs)) /\ Once(queue, {})
  BY MessageTypes DEF BusInv, OnePlace
<1>3. queue # <<>>
  BY <1>1, EmptySeq
<1> QED
  BY <1>1, <1>2, <1>3, TailItems

(* Messages only leave: nothing is handed that was not. *)
LEMMA OwnRests ==
    ASSUME BusInv, OwnAnswer, UNCHANGED <<msgs, req, pending>>,
           Items(queue') \subseteq Items(queue),
           \A m \in 1..Len(msgs) : Handed(m)' => Handed(m)
    PROVE  OwnAnswer'
BY DEF OwnAnswer

(* A request comes to its end: it gives up, or returns what it was given. *)
LEMMA OwnEnds ==
    ASSUME BusInv, OwnAnswer, NEW r \in Requesters, NEW x,
           UNCHANGED <<msgs, queue, current, handled>>,
           req' = [req EXCEPT ![r] = x],
           x \in GivenUp \/ (req[r] = "set" /\ x = "answered"),
           \A q \in pending : q = r \/ q \in pending'
    PROVE  OwnAnswer'
<1>1. req \in [Requesters -> RequestState] /\ Items(queue) \subseteq 1..Len(msgs)
  BY MessageTypes DEF BusInv, BusTypeOK
<1>2. req'[r] = x /\ \A q \in Requesters : q # r => req'[q] = req[q]
  BY <1>1
<1>3. \A m \in 1..Len(msgs) : msgs[m].corr # NoRequest => msgs[m].corr \in Requesters
  BY CorrTypes
<1>4. x # "waiting" /\ x # "idle" /\ x \notin {"set"} /\ (x = "answered" => req[r] = "set")
  BY DEF GivenUp
<1>5. \A m \in 1..Len(msgs) : Handed(m)' <=> Handed(m)
  BY DEF Handed
<1>6. \A q \in Requesters : /\ req[q] \in GivenUp => req'[q] \in GivenUp
                            /\ req[q] # "idle" => req'[q] # "idle"
                            /\ req'[q] = "waiting" => q # r /\ req[q] = "waiting"
                            /\ req'[q] \in {"set", "answered"} => req[q] \in {"set", "answered"}
  BY <1>2, <1>4 DEF GivenUp
<1>7. Items(queue') = Items(queue)
  OBVIOUS
<1>8. \A q \in Requesters : req'[q] = "waiting" => q \in pending'
  BY <1>6 DEF OwnAnswer
<1>9. \A m \in 1..Len(msgs) : Handed(m)' /\ msgs[m].corr # NoRequest =>
          req'[msgs[m].corr] \in GivenUp
  BY <1>3, <1>5, <1>6 DEF OwnAnswer
<1>10. \A m \in Items(queue) : msgs[m].corr # NoRequest =>
          req'[msgs[m].corr] \notin {"set", "answered"}
  BY <1>1, <1>3, <1>6 DEF OwnAnswer
<1>11. \A m \in 1..Len(msgs) : msgs[m].corr # NoRequest => req'[msgs[m].corr] # "idle"
  BY <1>3, <1>6 DEF OwnAnswer
<1>12. \A m, n \in 1..Len(msgs) :
          msgs[m].corr = msgs[n].corr /\ msgs[m].corr # NoRequest =>
             m = n \/ req'[msgs[m].corr] \in GivenUp
  BY <1>3, <1>6 DEF OwnAnswer
<1> QED
  BY <1>7, <1>8, <1>9, <1>10, <1>11, <1>12 DEF OwnAnswer

(* The delivery loop resolves a future: no other message has its id. *)
LEMMA OwnAnswered ==
    ASSUME BusInv, OwnAnswer, NEW k \in 1..Len(msgs), Answer(k)
    PROVE  OwnAnswer'
<1> DEFINE r == msgs[k].corr
<1>1. /\ Get(k) /\ r \in pending
      /\ pending' = pending \ {r}
      /\ req' = [req EXCEPT ![r] = IF @ = "waiting" THEN "set" ELSE @]
      /\ UNCHANGED <<msgs, current, handled>>
  BY DEF Answer
<1>2. Items(queue') = Items(queue) \ {k} /\ r \in Requesters
      /\ req \in [Requesters -> RequestState] /\ Items(queue) \subseteq 1..Len(msgs)
  BY <1>1, TakenOut, MessageTypes DEF BusInv, BusTypeOK
<1>3. \A m \in 1..Len(msgs) : msgs[m].corr # NoRequest => msgs[m].corr \in Requesters
  BY CorrTypes
<1>4. r # NoRequest
  BY <1>2, BusAssumption
<1>5. CASE req[r] = "waiting"
  <2>1. req'[r] = "set" /\ \A q \in Requesters : q # r => req'[q] = req[q]
    BY <1>1, <1>2, <1>5
  <2>2. "waiting" \notin GivenUp
    BY DEF GivenUp
  <2>3. \A m \in 1..Len(msgs) : msgs[m].corr = r => m = k /\ ~Handed(m)
    BY <1>4, <1>5, <2>2 DEF OwnAnswer
  <2>4. \A m \in 1..Len(msgs) : Handed(m)' <=> Handed(m)
    BY <1>1 DEF Handed
  <2>5. \A m \in 1..Len(msgs) : msgs[m].corr # NoRequest /\ m # k =>
            msgs[m].corr # r /\ req'[msgs[m].corr] = req[msgs[m].corr]
    BY <1>3, <2>1, <2>3
  <2>6. \A m \in 1..Len(msgs) : Handed(m)' /\ msgs[m].corr # NoRequest =>
          req'[msgs[m].corr] \in GivenUp
    BY <2>3, <2>4, <2>5 DEF OwnAnswer
  <2>7. \A q \in Requesters : req'[q] = "waiting" => q \in pending'
    BY <1>1, <2>1 DEF OwnAnswer
  <2>8. \A m \in 1..Len(msgs) : msgs[m].corr # NoRequest => req'[msgs[m].corr] # "idle"
    BY <2>1, <2>5 DEF OwnAnswer
  <2>9. \A m, n \in 1..Len(msgs) :
          msgs[m].corr = msgs[n].corr /\ msgs[m].corr # NoRequest =>
             m = n \/ req'[msgs[m].corr] \in GivenUp
    BY <2>3, <2>5 DEF OwnAnswer
  <2>10. \A m \in Items(queue') : msgs[m].corr # NoRequest =>
          req'[msgs[m].corr] \notin {"set", "answered"}
    BY <1>2, <2>5 DEF OwnAnswer
  <2> QED
    BY <1>1, <2>6, <2>7, <2>8, <2>9, <2>10 DEF OwnAnswer
<1>6. CASE req[r] # "waiting"
  <2>1. req' = req
    BY <1>1, <1>2, <1>6
  <2>2. \A m \in 1..Len(msgs) : Handed(m)' <=> Handed(m)
    BY <1>1 DEF Handed
  <2>3. \A q \in Requesters : req[q] = "waiting" => q \in pending'
    BY <1>1, <1>6 DEF OwnAnswer
  <2> QED
    BY <1>1, <1>2, <2>1, <2>2, <2>3 DEF OwnAnswer
<1> QED
  BY <1>5, <1>6

(* The handlers are handed a message nobody waits for. *)
LEMMA OwnDelivered ==
    ASSUME BusInv, OwnAnswer, NEW k \in 1..Len(msgs), Deliver(k)
    PROVE  OwnAnswer'
<1>1. /\ Get(k) /\ msgs[k].corr \notin pending
      /\ current' \in {current, k}
      /\ UNCHANGED <<msgs, pending, req, handled>>
  BY DEF Deliver
<1>2. Items(queue') \subseteq Items(queue) /\ k \in Items(queue)
  BY <1>1, TakenOut
<1>3. msgs[k].corr # NoRequest => req[msgs[k].corr] \in GivenUp
  <2> SUFFICES ASSUME msgs[k].corr # NoRequest PROVE req[msgs[k].corr] \in GivenUp
    OBVIOUS
  <2>1. msgs[k].corr \in Requesters
    BY CorrTypes
  <2>2. req[msgs[k].corr] \in RequestState
    BY <2>1 DEF BusInv, BusTypeOK
  <2>3. req[msgs[k].corr] \notin {"idle", "waiting", "set", "answered"}
    BY <1>1, <1>2, <2>1 DEF OwnAnswer
  <2> QED
    BY <2>2, <2>3 DEF RequestState
<1>4. \A m \in 1..Len(msgs) : Handed(m)' => Handed(m) \/ m = k
  BY <1>1 DEF Handed
<1>5. \A m \in 1..Len(msgs) : Handed(m)' /\ msgs[m].corr # NoRequest =>
          req[msgs[m].corr] \in GivenUp
  BY <1>3, <1>4 DEF OwnAnswer
<1> QED
  BY <1>1, <1>2, <1>5 DEF OwnAnswer

(* A new message, with a correlation id that is new or given up, or with none. *)
LEMMA OwnPut ==
    ASSUME BusInv, OwnAnswer, NEW message \in Message, Put(message),
           UNCHANGED <<current, handled>>,
           \A m \in 1..Len(msgs) : msgs[m].corr # NoRequest =>
              req'[msgs[m].corr] = req[msgs[m].corr],
           \A r \in Requesters : req'[r] = "waiting" => r \in pending',
           message.corr # NoRequest =>
              /\ req'[message.corr] \notin {"idle", "set", "answered"}
              /\ \/ req'[message.corr] \in GivenUp
                 \/ \A m \in 1..Len(msgs) : msgs[m].corr # message.corr
    PROVE  OwnAnswer'
<1> DEFINE n == Len(msgs)
<1>1. /\ msgs' = Append(msgs, message) /\ queue' = Pushed(msgs', Len(msgs'))
  BY DEF Put
<1>2. /\ Len(msgs') = n + 1 /\ n \in Nat /\ msgs'[n + 1] = message
      /\ \A i \in 1..n : msgs'[i] = msgs[i]
  BY <1>1, MessageTypes, AppendProperties
<1>3. Items(queue') = Items(queue) \cup {n + 1} /\ Items(queue) \subseteq 1..n
  <2>1. queue \in Seq(1..n) /\ Items(queue) \subseteq 1..n /\ Once(queue, {})
    BY MessageTypes DEF BusInv, OnePlace
  <2>2. 1..n \subseteq 1..(n + 1) /\ n + 1 \in 1..(n + 1) /\ n + 1 \notin 1..n
    BY <1>2
  <2>3. queue \in Seq(1..(n + 1)) /\ n + 1 \notin Items(queue)
    BY <2>1, <2>2, SeqMonotonic
  <2>4. Len(queue) < QueueBound
    BY DEF Put
  <2>5. queue' = Pushed(msgs', n + 1)
    BY <1>1, <1>2
  <2> HIDE DEF n
  <2> QED
    BY <1>2, <2>1, <2>2, <2>3, <2>4, <2>5, PushedItems
<1>4. 1..(n + 1) = 1..n \cup {n + 1}
  BY <1>2
<1>5. \A m \in 1..(n + 1) : Handed(m)' => m # n + 1 /\ Handed(m)
  <2>1. n + 1 # current /\ \A s \in Subs : <<n + 1, s>> \notin handled
    BY <1>2, MessageTypes
  <2>2. ASSUME NEW m \in 1..(n + 1), Handed(m)' PROVE Handed(m)
    BY <2>2, Zenon DEF Handed
  <2>3. ~Handed(n + 1)
    BY <2>1, Zenon DEF Handed
  <2> QED
    BY <2>2, <2>3, Zenon
<1> HIDE DEF n
<1>6. \A m \in 1..Len(msgs') : Handed(m)' /\ msgs'[m].corr # NoRequest =>
          req'[msgs'[m].corr] \in GivenUp
  BY <1>2, <1>4, <1>5 DEF OwnAnswer, n
<1>7. \A m \in 1..Len(msgs') : msgs'[m].corr # NoRequest => req'[msgs'[m].corr] # "idle"
  BY <1>2, <1>4 DEF OwnAnswer, n
<1>8. \A m \in Items(queue') : msgs'[m].corr # NoRequest =>
          req'[msgs'[m].corr] \notin {"set", "answered"}
  BY <1>2, <1>3 DEF OwnAnswer, n
<1>9. ASSUME NEW i \in 1..Len(msgs'), NEW j \in 1..Len(msgs'),
             msgs'[i].corr = msgs'[j].corr, msgs'[i].corr # NoRequest
      PROVE  i = j \/ req'[msgs'[i].corr] \in GivenUp
  <2>1. i \in 1..n \cup {n + 1} /\ j \in 1..n \cup {n + 1}
    BY <1>2, <1>4, <1>9
  <2>2. CASE i \in 1..n /\ j \in 1..n
    <3>1. msgs[i].corr = msgs[j].corr /\ msgs[i].corr # NoRequest
      BY <1>2, <1>9, <2>2
    <3>2. i = j \/ req[msgs[i].corr] \in GivenUp
      BY <2>2, <3>1 DEF OwnAnswer, n
    <3> QED
      BY <1>2, <2>2, <3>1, <3>2 DEF n
  <2>3. CASE i = n + 1 /\ j # n + 1
    BY <1>2, <1>9, <2>1, <2>3 DEF n
  <2>4. CASE j = n + 1 /\ i # n + 1
    BY <1>2, <1>9, <2>1, <2>4 DEF n
  <2> QED
    BY <2>1, <2>2, <2>3, <2>4
<1> QED
  BY <1>6, <1>7, <1>8, <1>9 DEF OwnAnswer

LEMMA OwnKeeps == ASSUME BusInv, OwnAnswer, [BusNext]_busVars PROVE OwnAnswer'
<1> USE BusAssumption
<1>0. /\ req \in [Requesters -> RequestState] /\ pending \subseteq Requesters
      /\ \A m \in 1..Len(msgs) : msgs[m].corr # NoRequest => msgs[m].corr \in Requesters
      /\ \A r \in Requesters : req[r] = "waiting" => r \in pending
  BY CorrTypes DEF BusInv, BusTypeOK, OwnAnswer
<1>1. CASE UNCHANGED busVars
  <2>1. UNCHANGED <<msgs, req, pending, queue, current, handled>>
    BY <1>1 DEF busVars
  <2> QED
    BY <2>1, OwnRests DEF Handed
<1>2. ASSUME NEW k \in 1..Len(msgs), GetExpired(k) PROVE OwnAnswer'
  <2>1. /\ UNCHANGED <<msgs, req, pending, current, handled>>
        /\ Items(queue') \subseteq Items(queue)
    BY <1>2, TakenOut DEF GetExpired
  <2> QED
    BY <2>1, OwnRests DEF Handed
<1>3. ASSUME NEW s \in Subs, Subscribe(s) \/ Unsubscribe(s) PROVE OwnAnswer'
  <2>1. UNCHANGED <<msgs, req, pending, queue, current, handled>>
    BY <1>3 DEF Subscribe, Unsubscribe
  <2> QED
    BY <2>1, OwnRests DEF Handed
<1>4. ASSUME NEW s \in Subs, HandlerEnds(s) PROVE OwnAnswer'
  <2>1. /\ UNCHANGED <<msgs, req, pending, queue>>
        /\ handled' = handled \cup {<<current, s>>} /\ current' \in {0, current}
    BY <1>4 DEF HandlerEnds
  <2>2. current # 0 /\ 0 \notin 1..Len(msgs)
    BY <1>4, MessageTypes DEF HandlerEnds, BusInv, BusTypeOK
  <2>3. \A m \in 1..Len(msgs) : Handed(m)' => Handed(m)
    <3> SUFFICES ASSUME NEW m \in 1..Len(msgs), Handed(m)' PROVE Handed(m)
      OBVIOUS
    <3>1. CASE m = current'
      BY <2>1, <2>2, <3>1 DEF Handed
    <3>2. ASSUME NEW t \in Subs, <<m, t>> \in handled' PROVE Handed(m)
      BY <2>1, <3>2 DEF Handed
    <3> QED
      BY <3>1, <3>2 DEF Handed
  <2> QED
    BY <2>1, <2>3, OwnRests
<1>5. CASE Start \/ Stop
  <2>1. /\ UNCHANGED <<msgs, req, pending, queue, handled>> /\ current' \in {0, current}
    BY <1>5 DEF Start, Stop
  <2>2. \A m \in 1..Len(msgs) : Handed(m)' => Handed(m)
    <3>1. 0 \notin 1..Len(msgs)
      BY MessageTypes
    <3> QED
      BY <2>1, <3>1 DEF Handed
  <2> QED
    BY <2>1, <2>2, OwnRests
<1>6. CASE GetRaises
  <2>1. UNCHANGED <<msgs, req, pending, handled, current>> /\ Items(queue') \subseteq Items(queue)
    BY <1>6, RaisesDrops DEF GetRaises
  <2> QED
    BY <2>1, OwnRests DEF Handed
<1>7. ASSUME NEW r \in Requesters, Expire(r) \/ Resume(r) \/ Cancel(r) PROVE OwnAnswer'
  <2>1. UNCHANGED <<msgs, queue, current, handled>>
    BY <1>7 DEF Expire, Resume, Cancel
  <2>2. \E x : /\ req' = [req EXCEPT ![r] = x]
               /\ x \in GivenUp \/ (req[r] = "set" /\ x = "answered")
    BY <1>7 DEF Expire, Resume, Cancel, GivenUp
  <2>3. \A q \in pending : q = r \/ q \in pending'
    BY <1>7 DEF Expire, Resume, Cancel
  <2> QED
    BY <2>1, <2>2, <2>3, OwnEnds
<1>8. CASE Publish
  <2> DEFINE message == [topic |-> "task", prio |-> "normal", corr |-> NoRequest]
  <2>1. message \in Message /\ message.corr = NoRequest
    BY DEF Message, Topics, Priorities
  <2>2. Put(message) /\ UNCHANGED <<current, handled, req, pending>>
    BY <1>8 DEF Publish
  <2> HIDE DEF message
  <2> QED
    BY <1>0, <2>1, <2>2, OwnPut
<1>9. ASSUME NEW r \in Requesters, Request(r) PROVE OwnAnswer'
  <2> DEFINE message == [topic |-> "task", prio |-> "high", corr |-> r]
  <2>1. message \in Message /\ message.corr = r
    BY DEF Message, Topics, Priorities
  <2>2. /\ Put(message) /\ UNCHANGED <<current, handled>>
        /\ req[r] = "idle" /\ pending' = pending \cup {r}
        /\ \E x \in {"raised", "waiting"} : req' = [req EXCEPT ![r] = x]
    BY <1>9 DEF Request
  <2> HIDE DEF message
  <2>3. PICK x \in {"raised", "waiting"} : req' = [req EXCEPT ![r] = x]
    BY <2>2
  <2>4. req'[r] \in {"raised", "waiting"} /\ \A q \in Requesters : q # r => req'[q] = req[q]
    BY <1>0, <2>3
  <2>5. \A m \in 1..Len(msgs) : msgs[m].corr # r
    BY <2>2 DEF OwnAnswer
  <2>6. \A m \in 1..Len(msgs) : msgs[m].corr # NoRequest =>
              req'[msgs[m].corr] = req[msgs[m].corr]
    BY <1>0, <2>4, <2>5
  <2>7. \A q \in Requesters : req'[q] = "waiting" => q \in pending'
    BY <1>0, <2>2, <2>4
  <2> QED
    BY <2>1, <2>2, <2>4, <2>5, <2>6, <2>7, OwnPut
<1>10. ASSUME NEW r \in Requesters, Respond(r) PROVE OwnAnswer'
  <2> DEFINE message == [topic |-> "result", prio |-> "high", corr |-> r]
  <2>1. message \in Message /\ message.corr = r
    BY DEF Message, Topics, Priorities
  <2>2. Put(message) /\ UNCHANGED <<current, handled, req, pending>>
    BY <1>10 DEF Respond
  <2> HIDE DEF message
  <2>3. req[r] \in GivenUp
    <3>1. \E m \in 1..Len(msgs) : Handed(m) /\ msgs[m].corr = r
      BY <1>10 DEF Respond, Handed
    <3> QED
      BY <3>1 DEF OwnAnswer
  <2>4. req[r] \notin {"idle", "set", "answered"}
    BY <2>3 DEF GivenUp
  <2> QED
    BY <1>0, <2>1, <2>2, <2>3, <2>4, OwnPut
<1> QED
  BY <1>1, <1>2, <1>3, <1>4, <1>5, <1>6, <1>7, <1>8, <1>9, <1>10, OwnAnswered, OwnDelivered
     DEF BusNext

(* A dead letter is nowhere else and reached one handler at most; _pending holds
   requests that still wait, were cancelled, or whose publish() raised; a handler
   is handed only a request that has given up: whatever get(), handlers,
   timeouts, cancellations and stop() do, for any numbers of subscriptions,
   requests and messages, with at most three messages queued at a time. *)
THEOREM NothingIsStray == BusSpec => []NothingStray
<1>1. BusInv /\ OwnAnswer => NothingStray
  <2> SUFFICES ASSUME BusInv, OwnAnswer PROVE NothingStray
    OBVIOUS
  <2>1. ASSUME NEW m \in dead
        PROVE  m \notin InBus /\ Cardinality({s \in Subs : <<m, s>> \in handled}) <= 1
    <3> DEFINE H == {s \in Subs : <<m, s>> \in handled}
    <3>1. m \notin InBus
      BY <2>1, InBusIs DEF BusInv, OnePlace
    <3>2. \A s, t \in H : s = t
      BY <2>1 DEF BusInv, OnePlace
    <3>3. H = {} \/ \E s \in H : H = {s}
      BY <3>2
    <3> HIDE DEF H
    <3>4. ASSUME NEW s \in H, H = {s} PROVE Cardinality(H) <= 1
      <4>1. Cardinality({s}) = 1
        BY FS_Singleton
      <4> QED
        BY <3>4, <4>1
    <3>5. Cardinality(H) <= 1
      <4>1. H = {} => Cardinality(H) <= 1
        BY FS_EmptySet
      <4> QED
        BY <3>3, <3>4, <4>1
    <3> QED
      BY <3>1, <3>5 DEF H
  <2> QED
    BY <2>1 DEF NothingStray, BusInv, PendingWaits, OwnAnswer
<1>2. BusInit => OwnAnswer
  <2> SUFFICES ASSUME BusInit PROVE OwnAnswer
    OBVIOUS
  <2>1. Len(msgs) = 0 /\ Len(queue) = 0 /\ \A r \in Requesters : req[r] = "idle"
    BY EmptySeq DEF BusInit
  <2>2. Items(queue) = {}
    BY <2>1 DEF Items
  <2> QED
    BY <2>1, <2>2 DEF OwnAnswer
<1> QED
  BY <1>1, <1>2, BusStarts, BusKeeps, OwnKeeps, PTL DEF BusSpec

(* A message that leaves the bus resolved the future of the request that waits
   for it, was handled, had no handler, is a dead letter, or came too late for a
   request that has given up and is thrown away, unless the delivery loop ends
   with that very step; with at most three messages queued at a time. *)
THEOREM NothingLostSilently == BusSpec => NoSilentLoss
<1> DEFINE Told(m) == Accounted(m) \/ loop' \in {"dead", "off"}
<1>1. BusInv /\ BusNext => \A m \in InBus \ InBus' : Told(m)
  <2> SUFFICES ASSUME BusInv, BusNext, NEW m \in InBus, m \notin InBus'
               PROVE  Told(m)
    OBVIOUS
  <2>0. InBus' = Items(queue') \cup ({current'} \ {0})
    BY DEF InBus, Items
  <2>1. ASSUME UNCHANGED <<queue, current>> PROVE FALSE
    BY <2>1 DEF InBus
  <2>2. CASE Publish
    BY <2>2, PublishingKeeps
  <2>3. ASSUME NEW r \in Requesters, Request(r) \/ Respond(r) PROVE FALSE
    BY <2>3, PublishingKeeps
  <2>4. ASSUME NEW r \in Requesters, Expire(r) \/ Resume(r) \/ Cancel(r) PROVE FALSE
    BY <2>1, <2>4, RequestStepsKeep
  <2>5. ASSUME NEW s \in Subs, Subscribe(s) \/ Unsubscribe(s) PROVE FALSE
    BY <2>1, <2>5, SubscriptionsKeep
  <2>6. CASE Start \/ Stop \/ GetRaises
    BY <2>1, <2>6, StartKeeps, StopKeeps, GetRaisesKeeps
  (* What get() took out is the message. *)
  <2>7. ASSUME NEW n \in 1..Len(msgs), Get(n), UNCHANGED current
        PROVE  n = m /\ m \notin dead /\ current = 0 /\ m # 0
    <3>1. /\ Items(queue') = Items(queue) \ {n} /\ current = 0 /\ n \notin dead
      BY <2>7, TakenOut
    <3>2. m \in Items(queue) \ Items(queue')
      BY <2>0, <2>7, <3>1, InBusIs
    <3> QED
      BY <3>1, <3>2
  <2>8. ASSUME NEW n \in 1..Len(msgs), GetExpired(n) PROVE Told(m)
    <3>1. n = m /\ m \notin dead
      BY <2>7, <2>8 DEF GetExpired
    <3> QED
      BY <2>8, <3>1 DEF GetExpired, Accounted
  <2>9. ASSUME NEW n \in 1..Len(msgs), Answer(n) PROVE Told(m)
    <3>1. n = m
      BY <2>7, <2>9 DEF Answer
    <3> DEFINE r == msgs[m].corr
    <3>2. /\ r \in pending /\ pending' = pending \ {r}
          /\ req' = [req EXCEPT ![r] = IF @ = "waiting" THEN "set" ELSE @]
      BY <2>9, <3>1 DEF Answer
    <3>3. r \in Requesters /\ req[r] \in {"waiting", "expiring", "raised", "cancelled"}
          /\ req \in [Requesters -> RequestState]
      BY <3>2 DEF BusInv, BusTypeOK, PendingWaits
    <3> HIDE DEF r
    <3>4. (req[r] = "waiting" /\ req'[r] = "set") \/ req[r] \in GivenUp
      BY <3>2, <3>3 DEF GivenUp
    <3> QED
      BY <3>2, <3>4 DEF Accounted, r
  <2>10. ASSUME NEW n \in 1..Len(msgs), Deliver(n) PROVE Told(m)
    <3>1. Get(n)
      BY <2>10 DEF Deliver
    <3>2. CASE {s \in subs : Matches(s, msgs[n].topic)} = {}
      <4>1. UNCHANGED current
        BY <2>10, <3>2 DEF Deliver
      <4>2. n = m /\ current = 0 /\ m # 0
        BY <2>7, <3>1, <4>1
      <4> QED
        BY <3>2, <4>2 DEF Accounted
    <3>3. CASE {s \in subs : Matches(s, msgs[n].topic)} # {}
      <4>1. current' = n
        BY <2>10, <3>3 DEF Deliver
      <4>2. Items(queue') = Items(queue) \ {n} /\ current = 0 /\ n # 0
        BY <3>1, TakenOut
      <4>3. m \in Items(queue) /\ m \notin Items(queue') /\ m # n
        BY <2>0, <4>1, <4>2, InBusIs
      <4> QED
        BY <4>2, <4>3
    <3> QED
      BY <3>2, <3>3
  <2>11. ASSUME NEW s \in Subs, HandlerEnds(s) PROVE Told(m)
    <3>1. /\ handled' = handled \cup {<<current, s>>}
          /\ current' = IF todo' = {} THEN 0 ELSE current
          /\ queue' = queue
          /\ \/ todo' = todo \ {s} /\ dead' = dead
             \/ todo' = {} /\ dead' = dead \cup {current}
      BY <2>11 DEF HandlerEnds
    <3>2. m = current /\ todo' = {}
      BY <2>0, <3>1, InBusIs
    <3>3. m \notin dead
      <4>1. current \notin dead
        BY DEF BusInv, OnePlace
      <4> QED
        BY <3>2, <4>1
    <3>4. CASE todo' = todo \ {s}
      BY <3>1, <3>2, <3>4 DEF Accounted
    <3>5. CASE dead' = dead \cup {current}
      BY <3>2, <3>3, <3>5 DEF Accounted
    <3> QED
      BY <3>1, <3>4, <3>5
  <2> QED
    BY <2>2, <2>3, <2>4, <2>5, <2>6, <2>8, <2>9, <2>10, <2>11 DEF BusNext
<1>2. BusInv /\ [BusNext]_busVars => [\A m \in InBus \ InBus' : Told(m)]_busVars
  BY <1>1
<1> QED
  BY <1>2, BusStarts, BusKeeps, PTL DEF BusSpec, NoSilentLoss

-----------------------------------------------------------------------------
(* The shared context (SharedContext).  A compare-and-set replaces what its *)
(* caller read, unless the key was lost in between: Ordered is the inductive *)
(* part, the entry and the read are the same write, or the entry is the later *)
(* one, in version and in value.                                           *)

(* An entry is missing, or a write made it. *)
Sound(e, made) ==
    /\ e \in [version : Nat, value : Nat, stamp : Nat]
    /\ e = NoEntry \/ (e.version > 0 /\ e.value > 0 /\ e.value <= made)

AllSound(entries, made) ==
    /\ entries = [k \in ContextKeys |-> entries[k]]
    /\ \A k \in ContextKeys : Sound(entries[k], made)

Stored ==
    /\ memory = [c \in Contexts |-> memory[c]]
    /\ \A c \in Contexts : AllSound(memory[c], stamps)
    /\ count \in [Contexts -> Nat]
    /\ AllSound(file.entries, stamps)
    /\ stamps \in Nat
    /\ lost \in BOOLEAN

Read ==
    seen # NoRead =>
        /\ seen.context \in Contexts /\ seen.key \in ContextKeys
        /\ seen.version \in Nat /\ seen.value \in Nat /\ seen.value <= stamps

(* What the entry has to do with the read. *)
Follows(e, version, value) ==
    \/ e.version = version /\ e.value = value
    \/ e.version > version /\ e.value > value

Ordered ==
    seen # NoRead /\ ~lost =>
        Follows(memory[seen.context][seen.key], seen.version, seen.value)

ContextInv == Stored /\ Read /\ Ordered

-----------------------------------------------------------------------------
LEMMA NoEntrySound == \A n \in Nat : Sound(NoEntry, n)
BY DEF Sound, NoEntry

(* Writes that come later do not hurt an entry. *)
LEMMA SoundLater ==
    ASSUME NEW e, NEW n \in Nat, NEW m \in Nat, n <= m, Sound(e, n)
    PROVE  Sound(e, m)
BY DEF Sound

LEMMA AllSoundLater ==
    ASSUME NEW entries, NEW n \in Nat, NEW m \in Nat, n <= m, AllSound(entries, n)
    PROVE  AllSound(entries, m)
BY SoundLater DEF AllSound

LEMMA LastingSound ==
    ASSUME NEW entries, NEW n \in Nat, AllSound(entries, n)
    PROVE  AllSound(Lasting(entries), n)
<1>1. \A k \in ContextKeys : Sound(Lasting(entries)[k], n)
  BY NoEntrySound DEF AllSound, Lasting
<1>2. Lasting(entries) = [k \in ContextKeys |-> Lasting(entries)[k]]
  BY DEF Lasting
<1> QED
  BY <1>1, <1>2 DEF AllSound

(* What _persist leaves in the file. *)
LEMMA PersistSound ==
    ASSUME NEW c, PersistContext(c), stamps \in Nat, stamps' \in Nat, stamps <= stamps',
           AllSound(file.entries, stamps), AllSound(memory'[c], stamps')
    PROVE  AllSound(file'.entries, stamps')
<1>1. AllSound(Lasting(memory'[c]), stamps')
  BY LastingSound
<1>2. AllSound(Torn.entries, stamps')
  BY NoEntrySound DEF AllSound, Torn
<1>3. AllSound(file.entries, stamps')
  BY AllSoundLater
<1>4. file' = Saved(Lasting(memory'[c])) \/ file' = file \/ file' = Torn
  BY DEF PersistContext
<1> QED
  BY <1>1, <1>2, <1>3, <1>4 DEF Saved

LEMMA ContextStarts == ContextInit => ContextInv
<1> SUFFICES ASSUME ContextInit PROVE ContextInv
  OBVIOUS
<1>1. AllSound([k \in ContextKeys |-> NoEntry], 0)
  BY NoEntrySound DEF AllSound
<1>2. Stored
  BY <1>1 DEF ContextInit, Stored, Saved
<1> QED
  BY <1>2 DEF ContextInit, ContextInv, Read, Ordered

-----------------------------------------------------------------------------
(* The steps.                                                              *)

(* What the invariant says of one entry. *)
LEMMA EntryFacts ==
    ASSUME ContextInv, NEW c \in Contexts, NEW k \in ContextKeys
    PROVE  /\ Sound(memory[c][k], stamps) /\ AllSound(memory[c], stamps)
           /\ memory[c] = [j \in ContextKeys |-> memory[c][j]]
           /\ memory[c][k] \in [version : Nat, value : Nat, stamp : Nat]
           /\ stamps \in Nat
           /\ NoEntry.version = 0 /\ NoEntry.value = 0
BY DEF ContextInv, Stored, AllSound, Sound, NoEntry

(* A step that gives one instance new entries, which are sound, and leaves the
   read alone or ends it; a read that is still relied on still fits. *)
LEMMA InstanceStep ==
    ASSUME ContextInv, NEW c \in Contexts, NEW new,
           memory' = [memory EXCEPT ![c] = new],
           AllSound(new, stamps'), AllSound(file'.entries, stamps'),
           stamps' \in Nat, stamps <= stamps',
           count' \in [Contexts -> Nat], lost' \in BOOLEAN,
           seen' = seen \/ seen' = NoRead,
           seen' = seen /\ seen # NoRead /\ ~lost' =>
               ~lost /\ (seen.context = c => Follows(new[seen.key], seen.version, seen.value))
    PROVE  ContextInv'
<1>1. ASSUME NEW b \in Contexts PROVE AllSound(memory'[b], stamps')
  <2>1. AllSound(memory[b], stamps')
    BY AllSoundLater DEF ContextInv, Stored
  <2>2. memory'[b] = IF b = c THEN new ELSE memory[b]
    BY DEF ContextInv, Stored
  <2> QED
    BY <2>1, <2>2
<1>2. memory' = [b \in Contexts |-> memory'[b]]
  BY DEF ContextInv, Stored
<1>3. Stored'
  BY <1>1, <1>2 DEF Stored
<1>4. Read'
  BY DEF ContextInv, Read, Stored
<1>5. Ordered'
  <2> SUFFICES ASSUME seen' = seen, seen # NoRead, ~lost'
               PROVE  Follows(memory'[seen.context][seen.key], seen.version, seen.value)
    BY DEF Ordered
  <2>1. seen.context \in Contexts
    BY DEF ContextInv, Read
  <2>2. memory'[seen.context] = IF seen.context = c THEN new ELSE memory[seen.context]
    BY <2>1 DEF ContextInv, Stored
  <2> QED
    BY <2>1, <2>2 DEF ContextInv, Ordered
<1> QED
  BY <1>3, <1>4, <1>5 DEF ContextInv

(* A later write of the entry, or the entry with another stamp, fits the read
   as well. *)
LEMMA FollowsOn ==
    ASSUME NEW e \in [version : Nat, value : Nat, stamp : Nat],
           NEW f \in [version : Nat, value : Nat, stamp : Nat],
           NEW version \in Nat, NEW value \in Nat, Follows(e, version, value),
           Follows(f, e.version, e.value)
    PROVE  Follows(f, version, value)
BY DEF Follows

LEMMA StillRead ==
    ASSUME ContextInv, seen # NoRead, ~lost, NEW c \in Contexts, seen.context = c,
           NEW new, AllSound(new, stamps'),
           Follows(new[seen.key], memory[c][seen.key].version, memory[c][seen.key].value)
    PROVE  Follows(new[seen.key], seen.version, seen.value)
<1>1. /\ seen.key \in ContextKeys /\ seen.version \in Nat /\ seen.value \in Nat
      /\ Follows(memory[c][seen.key], seen.version, seen.value)
  BY DEF ContextInv, Read, Ordered
<1>2. /\ memory[c][seen.key] \in [version : Nat, value : Nat, stamp : Nat]
      /\ new[seen.key] \in [version : Nat, value : Nat, stamp : Nat]
  BY <1>1, EntryFacts DEF AllSound, Sound
<1> QED
  BY <1>1, <1>2, FollowsOn

(* Entries are lost, so the reads of them are marked; the others stay. *)
LEMMA LossStep ==
    ASSUME ContextInv, NEW c \in Contexts, NEW keys \in SUBSET ContextKeys,
           memory' = [memory EXCEPT ![c] =
               [k \in ContextKeys |-> IF k \in keys THEN NoEntry ELSE memory[c][k]]],
           LoseKeys(c, keys), UNCHANGED <<count, stamps, seen>>,
           AllSound(file'.entries, stamps')
    PROVE  ContextInv'
<1> DEFINE new == [k \in ContextKeys |-> IF k \in keys THEN NoEntry ELSE memory[c][k]]
<1>1. stamps \in Nat /\ count \in [Contexts -> Nat] /\ lost \in BOOLEAN
  BY DEF ContextInv, Stored
<1>2. AllSound(new, stamps')
  BY <1>1, NoEntrySound, EntryFacts DEF AllSound
<1>3. lost' \in BOOLEAN /\ (~lost' => ~lost)
  BY <1>1 DEF LoseKeys, Relied
<1>4. ASSUME seen # NoRead, ~lost', seen.context = c
      PROVE  Follows(new[seen.key], seen.version, seen.value)
  <2>1. seen.key \in ContextKeys /\ seen.key \notin keys
    BY <1>4 DEF ContextInv, Read, LoseKeys, Relied
  <2>2. new[seen.key] = memory[c][seen.key]
    BY <2>1
  <2> QED
    BY <1>3, <1>4, <2>2 DEF ContextInv, Ordered
<1> HIDE DEF new
<1> QED
  BY <1>1, <1>2, <1>3, <1>4, InstanceStep DEF new

(* The new entry of a write. *)
LEMMA WriteSound ==
    ASSUME NEW version \in Nat, version > 0, NEW made \in Nat, made > 0
    PROVE  Sound([version |-> version, value |-> made, stamp |-> made], made)
BY DEF Sound

(* SetKey, whoever calls it and whether or not the read ends with it. *)
LEMMA SetKeyKeeps ==
    ASSUME ContextInv, NEW c \in Contexts, NEW k \in ContextKeys, SetKey(c, k),
           seen' = seen \/ seen' = NoRead
    PROVE  ContextInv'
<1> DEFINE e == memory[c][k]
           fresh == Missing(e)
           version == IF fresh THEN count'[c] ELSE e.version + 1
           r == [version |-> version, value |-> stamps', stamp |-> stamps']
           new == [memory[c] EXCEPT ![k] = r]
<1>1. /\ stamps' = stamps + 1 /\ PersistContext(c)
      /\ count' = IF fresh THEN [count EXCEPT ![c] = @ + 1] ELSE count
      /\ memory' = [memory EXCEPT ![c] = new]
      /\ IF fresh /\ e # NoEntry THEN LoseKeys(c, {k}) ELSE UNCHANGED lost
  BY DEF SetKey
<1>2. /\ stamps \in Nat /\ count \in [Contexts -> Nat] /\ lost \in BOOLEAN
      /\ AllSound(file.entries, stamps)
  BY DEF ContextInv, Stored
<1>3. /\ Sound(e, stamps) /\ AllSound(memory[c], stamps)
      /\ memory[c] = [j \in ContextKeys |-> memory[c][j]]
  BY EntryFacts
<1>4. count' \in [Contexts -> Nat] /\ (fresh => count'[c] > 0)
  BY <1>1, <1>2
<1>5. stamps' \in Nat /\ stamps' > 0 /\ stamps <= stamps'
  BY <1>1, <1>2
<1>6. version \in Nat /\ version > 0
  BY <1>3, <1>4 DEF Sound
<1>7. AllSound(new, stamps')
  <2>1. Sound(r, stamps')
    BY <1>5, <1>6, WriteSound
  <2>2. AllSound(memory[c], stamps')
    BY <1>2, <1>3, <1>5, AllSoundLater
  <2> HIDE DEF r
  <2> QED
    BY <1>3, <2>1, <2>2 DEF AllSound
<1>8. AllSound(file'.entries, stamps')
  <2>1. memory'[c] = new
    BY <1>1 DEF ContextInv, Stored
  <2> HIDE DEF new
  <2> QED
    BY <1>1, <1>2, <1>5, <1>7, <2>1, PersistSound
<1>9. lost' \in BOOLEAN /\ (~lost' => ~lost)
  BY <1>1, <1>2 DEF LoseKeys, Relied
<1>10. ASSUME seen # NoRead, ~lost', seen.context = c
       PROVE  Follows(new[seen.key], seen.version, seen.value)
  <2>1. seen.key \in ContextKeys
    BY <1>10 DEF ContextInv, Read
  <2>2. CASE seen.key # k
    <3>1. new[seen.key] = memory[c][seen.key]
      BY <2>1, <2>2, <1>3
    <3> QED
      BY <1>9, <1>10, <3>1 DEF ContextInv, Ordered
  <2>3. CASE seen.key = k
    <3>1. new[k] = r /\ r.version = version /\ r.value = stamps'
      BY <1>3
    <3>2. ~fresh \/ e = NoEntry
      BY <1>1, <1>10, <2>3 DEF LoseKeys, Relied
    <3>3. e.version < version /\ e.value < stamps'
      BY <1>1, <1>2, <1>3, <1>4, <3>2 DEF Sound, NoEntry, Missing
    <3>4. Follows(new[seen.key], memory[c][seen.key].version, memory[c][seen.key].value)
      BY <2>3, <3>1, <3>3 DEF Follows
    <3> HIDE DEF new
    <3> QED
      BY <1>7, <1>9, <1>10, <3>4, StillRead
  <2> QED
    BY <2>2, <2>3
<1> HIDE DEF new
<1> QED
  BY <1>1, <1>4, <1>5, <1>7, <1>8, <1>9, <1>10, InstanceStep

LEMMA CompareAndSetKeeps == ContextInv /\ CompareAndSet => ContextInv'
<1> SUFFICES ASSUME ContextInv, CompareAndSet PROVE ContextInv'
  OBVIOUS
<1>1. seen # NoRead /\ seen' = NoRead /\ seen.context \in Contexts /\ seen.key \in ContextKeys
  BY DEF CompareAndSet, ContextInv, Read
<1>2. CASE SetKey(seen.context, seen.key)
  BY <1>1, <1>2, SetKeyKeeps
<1>3. CASE UNCHANGED <<memory, count, file, lapsed, stamps, lost>>
  BY <1>1, <1>3 DEF ContextInv, Stored, AllSound, Read, Ordered
<1> QED
  BY <1>2, <1>3 DEF CompareAndSet

LEMMA AtomicSetKeeps ==
    ASSUME ContextInv, NEW c \in Contexts, NEW keys \in SUBSET ContextKeys, AtomicSet(c, keys)
    PROVE  ContextInv'
<1> DEFINE r(k) == [version |-> VersionInBatch(c, k), value |-> stamps', stamp |-> stamps']
           new == [k \in ContextKeys |-> IF k \notin keys THEN memory[c][k] ELSE r(k)]
<1>1. /\ stamps' = stamps + 1 /\ PersistContext(c)
      /\ memory' = [memory EXCEPT ![c] = new]
      /\ LoseKeys(c, {k \in keys : is_expired(memory[c][k])})
      /\ UNCHANGED <<count, lapsed, seen>>
  BY DEF AtomicSet
<1>2. /\ stamps \in Nat /\ count \in [Contexts -> Nat] /\ lost \in BOOLEAN
      /\ AllSound(file.entries, stamps)
  BY DEF ContextInv, Stored
<1>3. stamps' \in Nat /\ stamps' > 0 /\ stamps <= stamps' /\ stamps < stamps'
  BY <1>1, <1>2
<1>4. ASSUME NEW k \in ContextKeys
      PROVE  /\ Sound(memory[c][k], stamps) /\ Sound(memory[c][k], stamps')
             /\ VersionInBatch(c, k) \in Nat /\ VersionInBatch(c, k) > 0
  <2>1. Sound(memory[c][k], stamps)
    BY EntryFacts
  <2> QED
    BY <1>2, <1>3, <2>1, SoundLater DEF Sound, VersionInBatch
<1>5. AllSound(new, stamps')
  <2>1. \A k \in ContextKeys : Sound(r(k), stamps')
    BY <1>3, <1>4, WriteSound
  <2> HIDE DEF r
  <2> QED
    BY <1>4, <2>1 DEF AllSound
<1>6. AllSound(file'.entries, stamps')
  <2>1. memory'[c] = new
    BY <1>1 DEF ContextInv, Stored
  <2> HIDE DEF new
  <2> QED
    BY <1>1, <1>2, <1>3, <1>5, <2>1, PersistSound
<1>7. lost' \in BOOLEAN /\ (~lost' => ~lost)
  BY <1>1, <1>2 DEF LoseKeys, Relied
<1>8. ASSUME seen # NoRead, ~lost', seen.context = c
      PROVE  Follows(new[seen.key], seen.version, seen.value)
  <2>1. seen.key \in ContextKeys
    BY <1>8 DEF ContextInv, Read
  <2>2. CASE seen.key \notin keys
    <3>1. new[seen.key] = memory[c][seen.key]
      BY <2>1, <2>2
    <3> QED
      BY <1>7, <1>8, <3>1 DEF ContextInv, Ordered
  <2>3. CASE seen.key \in keys
    <3>1. /\ new[seen.key].version = VersionInBatch(c, seen.key)
          /\ new[seen.key].value = stamps'
      BY <2>1, <2>3
    <3>2. ~is_expired(memory[c][seen.key])
      BY <1>1, <1>8, <2>3 DEF LoseKeys, Relied
    <3>3. /\ memory[c][seen.key].version < VersionInBatch(c, seen.key)
          /\ memory[c][seen.key].value < stamps'
      BY <1>2, <1>3, <1>4, <2>1, <3>2 DEF VersionInBatch, Missing, Sound, NoEntry
    <3>4. Follows(new[seen.key], memory[c][seen.key].version, memory[c][seen.key].value)
      BY <3>1, <3>3 DEF Follows
    <3> HIDE DEF new
    <3> QED
      BY <1>5, <1>7, <1>8, <3>4, StillRead
  <2> QED
    BY <2>2, <2>3
<1> HIDE DEF new
<1>9. count' \in [Contexts -> Nat] /\ seen' = seen
  BY <1>1, <1>2
<1> QED
  BY <1>1, <1>3, <1>5, <1>6, <1>7, <1>8, <1>9, InstanceStep

LEMMA TouchKeeps ==
    ASSUME ContextInv, NEW c \in Contexts, NEW k \in ContextKeys, Touch(c, k)
    PROVE  ContextInv'
<1>1. ~Missing(memory[c][k]) /\ PersistContext(c) /\ UNCHANGED <<count, lapsed, seen, lost>>
  BY DEF Touch
<1>2. /\ stamps \in Nat /\ count \in [Contexts -> Nat] /\ lost \in BOOLEAN
      /\ AllSound(file.entries, stamps) /\ memory = [b \in Contexts |-> memory[b]]
  BY DEF ContextInv, Stored
<1>3. /\ Sound(memory[c][k], stamps) /\ AllSound(memory[c], stamps)
      /\ memory[c] = [j \in ContextKeys |-> memory[c][j]]
  BY EntryFacts
<1> DEFINE e == memory[c][k]
           same == UNCHANGED <<stamps, memory>>
           n == IF same THEN e.stamp ELSE stamps'
           r == [e EXCEPT !.stamp = n]
           new == [memory[c] EXCEPT ![k] = r]
<1>4. same \/ (stamps' = stamps + 1 /\ memory' = [memory EXCEPT ![c][k].stamp = stamps'])
  BY DEF Touch
<1>a. stamps' \in Nat /\ stamps <= stamps'
  BY <1>2, <1>4
<1>b. n \in Nat
  BY <1>3, <1>a DEF Sound
<1>c. memory' = [memory EXCEPT ![c] = new]
  <2>1. CASE same
    <3>1. r = e
      BY <1>3, <2>1 DEF Sound
    <3>2. new = memory[c]
      BY <1>3, <3>1
    <3> HIDE DEF new
    <3> QED
      BY <1>2, <2>1, <3>2
  <2>2. CASE ~same
    BY <1>4, <2>2
  <2> QED
    BY <2>1, <2>2
<1> HIDE DEF n
<1>5. Sound(r, stamps) /\ r.version = e.version /\ r.value = e.value
  BY <1>1, <1>3, <1>b DEF Sound, Missing
<1> HIDE DEF r
<1>6. AllSound(new, stamps) /\ AllSound(new, stamps')
  <2>1. AllSound(new, stamps)
    BY <1>3, <1>5 DEF AllSound
  <2> HIDE DEF new
  <2> QED
    BY <1>2, <1>a, <2>1, AllSoundLater
<1>7. memory' = [memory EXCEPT ![c] = new]
  BY <1>c DEF r
<1>8. AllSound(file'.entries, stamps')
  <2>1. memory'[c] = new
    BY <1>2, <1>7
  <2> HIDE DEF new
  <2> QED
    BY <1>1, <1>2, <1>a, <1>6, <2>1, PersistSound
<1>9. ASSUME seen # NoRead, ~lost', seen.context = c
      PROVE  Follows(new[seen.key], seen.version, seen.value)
  <2>1. seen.key \in ContextKeys /\ Follows(memory[c][seen.key], seen.version, seen.value)
    BY <1>1, <1>9 DEF ContextInv, Read, Ordered
  <2>2. /\ new[seen.key].version = memory[c][seen.key].version
        /\ new[seen.key].value = memory[c][seen.key].value
    BY <1>3, <1>5, <2>1
  <2> HIDE DEF new
  <2> QED
    BY <2>1, <2>2 DEF Follows
<1> HIDE DEF new
<1>10. lost' = lost /\ seen' = seen /\ count' \in [Contexts -> Nat] /\ lost' \in BOOLEAN
  BY <1>1, <1>2
<1> QED
  BY <1>a, <1>6, <1>7, <1>8, <1>9, <1>10, InstanceStep

LEMMA RemoveKeeps ==
    ASSUME ContextInv, NEW c \in Contexts, NEW keys \in SUBSET ContextKeys, RemoveKeys(c, keys)
    PROVE  ContextInv'
<1> DEFINE new == [k \in ContextKeys |-> IF k \in keys THEN NoEntry ELSE memory[c][k]]
<1>1. /\ memory' = [memory EXCEPT ![c] = new] /\ LoseKeys(c, keys) /\ PersistContext(c)
      /\ UNCHANGED <<count, lapsed, stamps, seen>>
  BY DEF RemoveKeys
<1>2. stamps \in Nat /\ AllSound(file.entries, stamps)
  BY DEF ContextInv, Stored
<1>3. AllSound(new, stamps')
  BY <1>1, <1>2, NoEntrySound, EntryFacts DEF AllSound
<1>4. memory'[c] = new
  BY <1>1 DEF ContextInv, Stored
<1>5. AllSound(file'.entries, stamps')
  <2> HIDE DEF new
  <2> QED
    BY <1>1, <1>2, <1>3, <1>4, PersistSound
<1> QED
  BY <1>1, <1>5, LossStep

(* A reader finds an entry expired and drops it. *)
LEMMA GetValueKeeps ==
    ASSUME ContextInv, NEW c \in Contexts, NEW k \in ContextKeys, GetValue(c, k)
    PROVE  ContextInv'
<1> DEFINE keys == {j \in {k} : is_expired(memory[c][k])}
           new == [j \in ContextKeys |-> IF j \in keys THEN NoEntry ELSE memory[c][j]]
<1>1. /\ memory' = Dropped(c, k) /\ LoseKeys(c, keys)
      /\ UNCHANGED <<count, file, lapsed, stamps, seen>>
  BY DEF GetValue
<1>2. memory[c] = [j \in ContextKeys |-> memory[c][j]] /\ memory = [b \in Contexts |-> memory[b]]
  BY EntryFacts DEF ContextInv, Stored
<1>3. new = IF is_expired(memory[c][k]) THEN [memory[c] EXCEPT ![k] = NoEntry] ELSE memory[c]
  BY <1>2
<1>4. memory' = [memory EXCEPT ![c] = new]
  BY <1>1, <1>2, <1>3 DEF Dropped
<1>5. AllSound(file'.entries, stamps')
  BY <1>1 DEF ContextInv, Stored
<1>6. keys \in SUBSET ContextKeys
  OBVIOUS
<1> QED
  BY <1>1, <1>4, <1>5, <1>6, LossStep

(* A read that is going to be relied on; it may have dropped an expired entry,
   and finds it missing in either case. *)
LEMMA ReadKeeps ==
    ASSUME ContextInv, NEW c \in Contexts, NEW k \in ContextKeys, ReadForUpdate(c, k)
    PROVE  ContextInv'
<1> DEFINE e == IF Missing(memory[c][k]) THEN NoEntry ELSE memory[c][k]
<1>1. /\ memory' \in {memory, Dropped(c, k)}
      /\ seen' = [by |-> "agent", context |-> c, key |-> k,
                  version |-> e.version, value |-> e.value]
      /\ lost' = FALSE
      /\ UNCHANGED <<count, file, lapsed, stamps>>
  BY DEF ReadForUpdate
<1>2. /\ stamps \in Nat /\ count \in [Contexts -> Nat] /\ AllSound(file.entries, stamps)
      /\ memory = [b \in Contexts |-> memory[b]]
      /\ \A b \in Contexts : AllSound(memory[b], stamps)
  BY DEF ContextInv, Stored
<1>3. /\ Sound(memory[c][k], stamps) /\ AllSound(memory[c], stamps)
      /\ memory[c] = [j \in ContextKeys |-> memory[c][j]]
  BY EntryFacts
<1>4. Sound(e, stamps)
  BY <1>2, <1>3, NoEntrySound
<1>5. seen'.context = c /\ seen'.key = k /\ seen'.version = e.version /\ seen'.value = e.value
  BY <1>1
<1>6. Read'
  <2>1. e.version \in Nat /\ e.value \in Nat /\ e.value <= stamps
    BY <1>2, <1>4 DEF Sound, NoEntry
  <2> QED
    BY <1>1, <1>5, <2>1 DEF Read
<1>7. CASE memory' = memory
  <2>1. Stored'
    BY <1>1, <1>2, <1>7 DEF Stored
  <2>2. Follows(memory[c][k], e.version, e.value)
    BY <1>3 DEF Follows, Missing, Sound, NoEntry
  <2>3. Ordered'
    BY <1>5, <1>7, <2>2 DEF Ordered
  <2> QED
    BY <1>6, <2>1, <2>3 DEF ContextInv
<1>8. CASE memory' # memory
  <2>1. is_expired(memory[c][k]) /\ memory' = [memory EXCEPT ![c][k] = NoEntry]
    BY <1>1, <1>8 DEF Dropped
  <2> DEFINE new == [memory[c] EXCEPT ![k] = NoEntry]
  <2>2. AllSound(new, stamps)
    BY <1>2, <1>3, NoEntrySound DEF AllSound
  <2>3. memory' = [memory EXCEPT ![c] = new]
    BY <2>1
  <2>4. new[k] = NoEntry
    BY <1>3
  <2>5. memory'[c] = new /\ memory'[c][k] = NoEntry
    BY <1>2, <2>3, <2>4
  <2> HIDE DEF new
  <2>6. Stored'
    BY <1>1, <1>2, <2>2, <2>3 DEF Stored
  <2>7. e = NoEntry
    BY <2>1 DEF Missing
  <2>8. Ordered'
    BY <1>5, <2>5, <2>7 DEF Ordered, Follows
  <2> QED
    BY <1>6, <2>6, <2>8 DEF ContextInv
<1> QED
  BY <1>7, <1>8

(* A new process loads what the file holds: every read of it is over. *)
LEMMA RestartKeeps ==
    ASSUME ContextInv, NEW c \in Contexts, Restart(c)
    PROVE  ContextInv'
<1> DEFINE new == Lasting(file.entries)
<1>1. /\ memory' = [memory EXCEPT ![c] = new] /\ count' = [count EXCEPT ![c] = 0]
      /\ LoseKeys(c, ContextKeys) /\ UNCHANGED <<file, lapsed, stamps, seen>>
  BY DEF Restart
<1>2. /\ stamps \in Nat /\ count \in [Contexts -> Nat] /\ lost \in BOOLEAN
      /\ AllSound(file.entries, stamps)
  BY DEF ContextInv, Stored
<1>3. AllSound(new, stamps') /\ AllSound(file'.entries, stamps')
  BY <1>1, <1>2, LastingSound
<1>4. lost' \in BOOLEAN /\ (seen # NoRead /\ ~lost' => seen.context # c)
  BY <1>1, <1>2 DEF LoseKeys, Relied, ContextInv, Read
<1>5. ~lost' => ~lost
  BY <1>1 DEF LoseKeys
<1> HIDE DEF new
<1>6. count' \in [Contexts -> Nat] /\ stamps' \in Nat /\ stamps <= stamps'
  BY <1>1, <1>2
<1> QED
  BY <1>1, <1>3, <1>4, <1>5, <1>6, InstanceStep

LEMMA ContextStutters ==
    ContextInv /\ UNCHANGED <<memory, count, file, stamps, seen, lost>> => ContextInv'
BY DEF ContextInv, Stored, Read, Ordered

LEMMA ContextSteps == ContextInv /\ [ContextNext]_contextVars => ContextInv'
<1> SUFFICES ASSUME ContextInv, [ContextNext]_contextVars PROVE ContextInv'
  OBVIOUS
<1>1. CASE CompareAndSet
  BY <1>1, CompareAndSetKeeps
<1>2. ASSUME NEW n \in 1..MaxStamps, Lapse(n) PROVE ContextInv'
  BY <1>2, ContextStutters DEF Lapse
<1>3. ASSUME NEW c \in Contexts, NEW k \in ContextKeys,
             \/ ReadForUpdate(c, k) \/ GetValue(c, k) \/ Touch(c, k) \/ Delete(c, k)
             \/ SetKey(c, k) /\ UNCHANGED seen
      PROVE  ContextInv'
  <2>1. {k} \cap Entries(c) \in SUBSET ContextKeys
    OBVIOUS
  <2> QED
    BY <1>3, <2>1, ReadKeeps, GetValueKeeps, TouchKeeps, RemoveKeeps, SetKeyKeeps DEF Delete
<1>4. ASSUME NEW c \in Contexts, NEW keys \in SUBSET ContextKeys,
             AtomicSet(c, keys) \/ DeleteMany(c, keys)
      PROVE  ContextInv'
  <2>1. keys \cap Entries(c) \in SUBSET ContextKeys
    OBVIOUS
  <2> QED
    BY <1>4, <2>1, AtomicSetKeeps, RemoveKeeps DEF DeleteMany
<1>5. ASSUME NEW c \in Contexts, Clear(c) \/ Restart(c) PROVE ContextInv'
  <2>1. Entries(c) \in SUBSET ContextKeys
    BY DEF Entries
  <2> QED
    BY <1>5, <2>1, RemoveKeeps, RestartKeeps DEF Clear
<1>6. CASE UNCHANGED contextVars
  BY <1>6, ContextStutters DEF contextVars
<1> QED
  BY <1>1, <1>2, <1>3, <1>4, <1>5, <1>6 DEF ContextNext

THEOREM ContextInvariant == ContextSpec => []ContextInv
BY ContextStarts, ContextSteps, PTL DEF ContextSpec

-----------------------------------------------------------------------------
(* Only a compare-and-set ends a read. *)
LEMMA OnlyCompareEnds ==
    ASSUME ContextNext, seen # NoRead, seen' = NoRead
    PROVE  CompareAndSet
BY DEF ContextNext, Lapse, ReadForUpdate, NoRead, GetValue, Touch, Delete, RemoveKeys, AtomicSet,
       DeleteMany, Clear, Restart

(* A compare-and-set that writes replaces the very value its caller read,
   unless the key was lost in between (set_if_version of
   orchestration/shared_context.py). *)
THEOREM UpdatesAreNeverLost == ContextSpec => UpdatesAreNotLost
<1>1. ContextInv /\ [ContextNext]_contextVars =>
        [seen # NoRead /\ seen' = NoRead /\ stamps' # stamps =>
            LET c == seen.context k == seen.key
            IN  memory[c][k].value = seen.value \/ lost]_contextVars
  <2> SUFFICES ASSUME ContextInv, ContextNext, seen # NoRead, seen' = NoRead, stamps' # stamps,
                      ~lost
               PROVE  memory[seen.context][seen.key].value = seen.value
    BY DEF contextVars
  <2>1. CompareAndSet
    BY OnlyCompareEnds
  <2>2. memory[seen.context][seen.key].version = seen.version
    BY <2>1 DEF CompareAndSet
  <2>3. Follows(memory[seen.context][seen.key], seen.version, seen.value) /\ seen.version \in Nat
    BY DEF ContextInv, Ordered, Read
  <2> QED
    BY <2>2, <2>3 DEF Follows
<1> QED
  BY <1>1, ContextInvariant, PTL DEF ContextSpec, UpdatesAreNotLost

(* Within one life of a key a larger version is a later write. *)
THEOREM VersionsAlwaysOrder == ContextSpec => []VersionsOrderWrites
<1>1. ContextInv => VersionsOrderWrites
  <2> SUFFICES ASSUME ContextInv, seen # NoRead, ~lost
               PROVE  LET e == memory[seen.context][seen.key]
                      IN  /\ e.version >= seen.version
                          /\ e.version = seen.version <=> e.value = seen.value
    BY DEF VersionsOrderWrites
  <2>1. /\ seen.context \in Contexts /\ seen.key \in ContextKeys
        /\ seen.version \in Nat /\ seen.value \in Nat
        /\ Follows(memory[seen.context][seen.key], seen.version, seen.value)
    BY DEF ContextInv, Ordered, Read
  <2>2. memory[seen.context][seen.key] \in [version : Nat, value : Nat, stamp : Nat]
    BY <2>1, EntryFacts
  <2> QED
    BY <2>1, <2>2 DEF Follows
<1> QED
  BY <1>1, ContextInvariant, PTL

-----------------------------------------------------------------------------
(* The types of the context: versions, values and stamps are at most the   *)
(* number of writes and touches, which is what MaxStamps bounds.           *)

EntryBy(n) == [version : 0..n, value : 0..n, stamp : 0..n]

ContextBounded ==
    /\ memory \in [Contexts -> [ContextKeys -> EntryBy(stamps)]]
    /\ count \in [Contexts -> 0..stamps]
    /\ file.kind \in {"torn", "saved"}
    /\ file = [kind |-> file.kind, entries |-> file.entries]
    /\ file.entries \in [ContextKeys -> EntryBy(stamps)]
    /\ lapsed \subseteq 1..MaxStamps
    /\ stamps \in 0..MaxStamps
    /\ lost \in BOOLEAN

ContextTypesInv == ContextBounded /\ Read

LEMMA EntryGrows ==
    ASSUME NEW n \in Nat, NEW m \in Nat, n <= m
    PROVE  EntryBy(n) \subseteq EntryBy(m) /\ NoEntry \in EntryBy(n)
<1>1. 0..n \subseteq 0..m /\ 0 \in 0..n
  OBVIOUS
<1> QED
  BY <1>1 DEF EntryBy, NoEntry

LEMMA LastingTyped ==
    ASSUME NEW n \in Nat, NEW entries \in [ContextKeys -> EntryBy(n)]
    PROVE  Lasting(entries) \in [ContextKeys -> EntryBy(n)]
<1>1. NoEntry \in EntryBy(n)
  BY EntryGrows
<1> QED
  BY <1>1 DEF Lasting

(* One instance gets new entries, and the file may be written. *)
LEMMA ContextStepTyped ==
    ASSUME ContextTypesInv, NEW c \in Contexts,
           NEW new \in [ContextKeys -> EntryBy(stamps')],
           memory' = [memory EXCEPT ![c] = new],
           stamps' \in {stamps, stamps + 1}, stamps' <= MaxStamps,
           count' \in [Contexts -> 0..stamps'],
           PersistContext(c) \/ file' = file,
           lapsed' = lapsed, lost' \in BOOLEAN,
           Read'
    PROVE  ContextTypesInv'
<1>1. /\ MaxStamps \in Nat /\ stamps \in Nat /\ stamps' \in Nat
      /\ stamps <= stamps' /\ stamps' \in 0..MaxStamps
  BY ContextAssumption DEF ContextTypesInv, ContextBounded
<1>2. EntryBy(stamps) \subseteq EntryBy(stamps') /\ NoEntry \in EntryBy(stamps')
  BY <1>1, EntryGrows
<1>3. memory' \in [Contexts -> [ContextKeys -> EntryBy(stamps')]]
  <2>1. memory \in [Contexts -> [ContextKeys -> EntryBy(stamps)]]
    BY DEF ContextTypesInv, ContextBounded
  <2>2. [ContextKeys -> EntryBy(stamps)] \subseteq [ContextKeys -> EntryBy(stamps')]
    BY <1>2
  <2> QED
    BY <2>1, <2>2
<1>4. /\ file'.kind \in {"torn", "saved"}
      /\ file' = [kind |-> file'.kind, entries |-> file'.entries]
      /\ file'.entries \in [ContextKeys -> EntryBy(stamps')]
  <2>1. CASE file' = file
    <3>1. [ContextKeys -> EntryBy(stamps)] \subseteq [ContextKeys -> EntryBy(stamps')]
      BY <1>2
    <3> QED
      BY <2>1, <3>1 DEF ContextTypesInv, ContextBounded
  <2>2. CASE file' = Torn
    <3>1. [k \in ContextKeys |-> NoEntry] \in [ContextKeys -> EntryBy(stamps')]
      BY <1>2
    <3> QED
      BY <2>2, <3>1 DEF Torn
  <2>3. CASE file' = Saved(Lasting(memory'[c]))
    <3>1. memory'[c] \in [ContextKeys -> EntryBy(stamps')]
      BY <1>3
    <3>2. Lasting(memory'[c]) \in [ContextKeys -> EntryBy(stamps')]
      BY <1>1, <3>1, LastingTyped
    <3> QED
      BY <2>3, <3>2 DEF Saved
  <2> QED
    BY <2>1, <2>2, <2>3 DEF PersistContext
<1>5. lapsed' \subseteq 1..MaxStamps
  BY DEF ContextTypesInv, ContextBounded
<1> QED
  BY <1>1, <1>3, <1>4, <1>5 DEF ContextTypesInv, ContextBounded

LEMMA ContextTypesStart == ContextInit => ContextTypesInv
<1> SUFFICES ASSUME ContextInit PROVE ContextTypesInv
  OBVIOUS
<1>1. NoEntry \in EntryBy(0) /\ 0 \in 0..MaxStamps
  BY ContextAssumption, EntryGrows
<1>2. [k \in ContextKeys |-> NoEntry] \in [ContextKeys -> EntryBy(0)]
  BY <1>1
<1>3. /\ stamps = 0 /\ lapsed = {} /\ lost = FALSE
      /\ file = [kind |-> "saved", entries |-> [k \in ContextKeys |-> NoEntry]]
      /\ memory = [c \in Contexts |-> [k \in ContextKeys |-> NoEntry]]
      /\ count = [c \in Contexts |-> 0]
  BY DEF ContextInit, Saved
<1>4. memory \in [Contexts -> [ContextKeys -> EntryBy(stamps)]]
  BY <1>2, <1>3
<1>5. /\ file.kind = "saved" /\ file.entries \in [ContextKeys -> EntryBy(stamps)]
      /\ file = [kind |-> file.kind, entries |-> file.entries]
  BY <1>2, <1>3
<1>6. count \in [Contexts -> 0..stamps]
  BY <1>3
<1>7. ContextBounded
  BY <1>1, <1>3, <1>4, <1>5, <1>6 DEF ContextBounded
<1> QED
  BY <1>7 DEF ContextInit, ContextTypesInv, Read

(* set, also as the end of set_if_version. *)
LEMMA SetKeyTyped ==
    ASSUME ContextTypesInv, NEW c \in Contexts, NEW k \in ContextKeys, SetKey(c, k),
           Read'
    PROVE  ContextTypesInv'
<1> DEFINE e == memory[c][k]
           entry == [version |-> IF Missing(e) THEN count'[c] ELSE e.version + 1,
                     value |-> stamps', stamp |-> stamps']
           new == [memory[c] EXCEPT ![k] = entry]
<1>1. /\ stamps < MaxStamps /\ stamps' = stamps + 1
      /\ count' = IF Missing(e) THEN [count EXCEPT ![c] = @ + 1] ELSE count
      /\ memory' = [memory EXCEPT ![c] = new]
      /\ lost' = lost \/ lost' = (lost \/ Relied(c, {k}))
      /\ PersistContext(c) /\ lapsed' = lapsed
  BY DEF SetKey, LoseKeys
<1>2. /\ MaxStamps \in Nat /\ stamps \in Nat /\ stamps' \in Nat
      /\ memory[c] \in [ContextKeys -> EntryBy(stamps)] /\ e \in EntryBy(stamps)
      /\ count \in [Contexts -> 0..stamps] /\ lost \in BOOLEAN
  BY <1>1, ContextAssumption DEF ContextTypesInv, ContextBounded
<1>3. e.version \in 0..stamps
  BY <1>2 DEF EntryBy
<1> HIDE DEF e
<1>4. count' \in [Contexts -> 0..stamps']
  BY <1>1, <1>2
<1>5. entry \in EntryBy(stamps')
  <2>1. stamps' \in 0..stamps' /\ count'[c] \in 0..stamps' /\ e.version + 1 \in 0..stamps'
    BY <1>1, <1>2, <1>3, <1>4
  <2> QED
    BY <2>1 DEF EntryBy
<1> HIDE DEF entry
<1>6. new \in [ContextKeys -> EntryBy(stamps')]
  <2>1. EntryBy(stamps) \subseteq EntryBy(stamps')
    BY <1>1, <1>2, EntryGrows
  <2> QED
    BY <1>2, <1>5, <2>1
<1> HIDE DEF new
<1>7. lost' \in BOOLEAN
  BY <1>1, <1>2
<1>8. stamps' \in {stamps, stamps + 1} /\ stamps' <= MaxStamps
  BY <1>1, <1>2
<1> QED
  BY <1>1, <1>4, <1>6, <1>7, <1>8, ContextStepTyped

LEMMA AtomicSetTyped ==
    ASSUME ContextTypesInv, NEW c \in Contexts, NEW keys \in SUBSET ContextKeys,
           AtomicSet(c, keys)
    PROVE  ContextTypesInv'
<1> DEFINE new == [k \in ContextKeys |->
              IF k \notin keys THEN memory[c][k]
              ELSE [version |-> VersionInBatch(c, k), value |-> stamps', stamp |-> stamps']]
<1>1. /\ stamps < MaxStamps /\ stamps' = stamps + 1
      /\ count' = count /\ seen' = seen /\ lapsed' = lapsed
      /\ lost' = (lost \/ Relied(c, {k \in keys : is_expired(memory[c][k])}))
      /\ PersistContext(c)
  BY DEF AtomicSet, LoseKeys
<1>2. /\ MaxStamps \in Nat /\ stamps \in Nat /\ stamps' \in Nat
      /\ memory \in [Contexts -> [ContextKeys -> EntryBy(stamps)]]
      /\ count \in [Contexts -> 0..stamps] /\ lost \in BOOLEAN
  BY <1>1, ContextAssumption DEF ContextTypesInv, ContextBounded
<1>3. memory' = [memory EXCEPT ![c] = new]
  BY <1>2 DEF AtomicSet
<1>4. count' \in [Contexts -> 0..stamps']
  BY <1>1, <1>2
<1>5. EntryBy(stamps) \subseteq EntryBy(stamps')
  BY <1>1, <1>2, EntryGrows
<1>6. ASSUME NEW k \in ContextKeys
      PROVE  /\ memory[c][k] \in EntryBy(stamps')
             /\ [version |-> VersionInBatch(c, k), value |-> stamps', stamp |-> stamps']
                   \in EntryBy(stamps')
  <2>1. memory[c][k] \in EntryBy(stamps)
    BY <1>2
  <2>2. memory[c][k].version \in 0..stamps
    BY <2>1 DEF EntryBy
  <2>3. VersionInBatch(c, k) \in 0..stamps' /\ stamps' \in 0..stamps'
    BY <1>1, <1>2, <2>2 DEF VersionInBatch
  <2> QED
    BY <1>5, <2>1, <2>3 DEF EntryBy
<1>7. new \in [ContextKeys -> EntryBy(stamps')]
  BY <1>6
<1> HIDE DEF new
<1>8. lost' \in BOOLEAN /\ stamps' \in {stamps, stamps + 1} /\ stamps' <= MaxStamps
  BY <1>1, <1>2
<1>9. Read'
  BY <1>1, <1>2 DEF ContextTypesInv, Read
<1> QED
  BY <1>1, <1>3, <1>4, <1>7, <1>8, <1>9, ContextStepTyped

(* Steps that take entries away, or read. *)
LEMMA FewerTyped ==
    ASSUME ContextTypesInv, NEW c \in Contexts,
           NEW new \in [ContextKeys -> EntryBy(stamps)],
           memory' = [memory EXCEPT ![c] = new],
           count' = count \/ count' = [count EXCEPT ![c] = 0],
           stamps' = stamps, lapsed' = lapsed, lost' \in BOOLEAN,
           PersistContext(c) \/ file' = file,
           Read'
    PROVE  ContextTypesInv'
<1>1. stamps \in 0..MaxStamps /\ MaxStamps \in Nat /\ count \in [Contexts -> 0..stamps]
  BY ContextAssumption DEF ContextTypesInv, ContextBounded
<1>2. count' \in [Contexts -> 0..stamps'] /\ stamps' \in {stamps, stamps + 1}
      /\ stamps' <= MaxStamps /\ new \in [ContextKeys -> EntryBy(stamps')]
  BY <1>1
<1> QED
  BY <1>2, ContextStepTyped

LEMMA ContextTypesKept ==
    ASSUME ContextTypesInv, [ContextNext]_contextVars
    PROVE  ContextTypesInv'
<1>1. /\ MaxStamps \in Nat /\ stamps \in Nat /\ stamps \in 0..MaxStamps
      /\ memory \in [Contexts -> [ContextKeys -> EntryBy(stamps)]]
      /\ lost \in BOOLEAN /\ file.entries \in [ContextKeys -> EntryBy(stamps)]
      /\ NoEntry \in EntryBy(stamps)
  BY ContextAssumption, EntryGrows DEF ContextTypesInv, ContextBounded
<1>2. ASSUME UNCHANGED <<seen, stamps>> PROVE Read'
  BY <1>2 DEF ContextTypesInv, Read
<1>3. ASSUME NEW c \in Contexts, NEW k \in ContextKeys,
             memory' \in {memory, Dropped(c, k)},
             lost' \in BOOLEAN, UNCHANGED <<count, file, lapsed, stamps>>, Read'
      PROVE  ContextTypesInv'
  <2> DEFINE new == memory'[c]
  <2>1. memory[c] \in [ContextKeys -> EntryBy(stamps)]
    BY <1>1
  <2>2. \/ memory' = [memory EXCEPT ![c] = memory[c]]
        \/ memory' = [memory EXCEPT ![c] = [memory[c] EXCEPT ![k] = NoEntry]]
    BY <1>1, <1>3 DEF Dropped
  <2>3. [memory[c] EXCEPT ![k] = NoEntry] \in [ContextKeys -> EntryBy(stamps)]
    BY <1>1, <2>1
  <2> QED
    BY <1>3, <2>1, <2>2, <2>3, FewerTyped
<1>4. ASSUME NEW c \in Contexts, NEW k \in ContextKeys, ReadForUpdate(c, k)
      PROVE  ContextTypesInv'
  <2> DEFINE e == IF Missing(memory[c][k]) THEN NoEntry ELSE memory[c][k]
  <2>1. /\ memory' \in {memory, Dropped(c, k)}
        /\ seen' = [by |-> "agent", context |-> c, key |-> k,
                    version |-> e.version, value |-> e.value]
        /\ lost' = FALSE /\ UNCHANGED <<count, file, lapsed, stamps>>
    BY <1>4 DEF ReadForUpdate
  <2>2. e \in EntryBy(stamps)
    BY <1>1
  <2> HIDE DEF e
  <2>3. e.version \in Nat /\ e.value \in Nat /\ e.value <= stamps
    BY <1>1, <2>2 DEF EntryBy
  <2>4. Read'
    BY <2>1, <2>3 DEF Read
  <2> QED
    BY <1>3, <2>1, <2>4
<1>5. ASSUME NEW c \in Contexts, NEW k \in ContextKeys, GetValue(c, k)
      PROVE  ContextTypesInv'
  <2>1. /\ memory' \in {memory, Dropped(c, k)}
        /\ lost' \in BOOLEAN /\ UNCHANGED <<count, file, lapsed, stamps, seen>>
    BY <1>1, <1>5 DEF GetValue, LoseKeys
  <2> QED
    BY <1>2, <1>3, <2>1
<1>6. ASSUME NEW c \in Contexts, NEW k \in ContextKeys, Touch(c, k)
      PROVE  ContextTypesInv'
  <2>1. PersistContext(c) /\ UNCHANGED <<count, lapsed, seen, lost>>
    BY <1>6 DEF Touch
  <2>2. CASE UNCHANGED <<stamps, memory>>
    <3>1. memory' = [memory EXCEPT ![c] = memory[c]]
          /\ memory[c] \in [ContextKeys -> EntryBy(stamps)]
      BY <1>1, <2>2
    <3> QED
      BY <1>1, <1>2, <2>1, <2>2, <3>1, FewerTyped
  <2>3. CASE stamps < MaxStamps /\ stamps' = stamps + 1
             /\ memory' = [memory EXCEPT ![c][k].stamp = stamps']
    <3> DEFINE new == [memory[c] EXCEPT ![k].stamp = stamps']
    <3>1. memory' = [memory EXCEPT ![c] = new]
      BY <2>3
    <3>2. EntryBy(stamps) \subseteq EntryBy(stamps')
      BY <1>1, <2>3, EntryGrows
    <3>3. [memory[c][k] EXCEPT !.stamp = stamps'] \in EntryBy(stamps')
      <4>1. memory[c][k] \in EntryBy(stamps') /\ stamps' \in 0..stamps'
        BY <1>1, <2>3, <3>2
      <4> QED
        BY <4>1 DEF EntryBy
    <3>4. new \in [ContextKeys -> EntryBy(stamps')]
      BY <1>1, <3>2, <3>3
    <3> HIDE DEF new
    <3>5. count' \in [Contexts -> 0..stamps'] /\ stamps' <= MaxStamps
      BY <1>1, <2>1, <2>3 DEF ContextTypesInv, ContextBounded
    <3>6. Read'
      BY <1>1, <2>1, <2>3 DEF ContextTypesInv, Read
    <3> QED
      BY <1>1, <2>1, <2>3, <3>1, <3>4, <3>5, <3>6, ContextStepTyped
  <2> QED
    BY <1>6, <2>2, <2>3 DEF Touch
<1>7. ASSUME NEW c \in Contexts, NEW keys \in SUBSET ContextKeys, RemoveKeys(c, keys)
      PROVE  ContextTypesInv'
  <2> DEFINE new == [k \in ContextKeys |-> IF k \in keys THEN NoEntry ELSE memory[c][k]]
  <2>1. /\ memory' = [memory EXCEPT ![c] = new]
        /\ lost' \in BOOLEAN /\ PersistContext(c) /\ UNCHANGED <<count, lapsed, stamps, seen>>
    BY <1>1, <1>7 DEF RemoveKeys, LoseKeys
  <2>2. new \in [ContextKeys -> EntryBy(stamps)]
    BY <1>1
  <2> HIDE DEF new
  <2> QED
    BY <1>2, <2>1, <2>2, FewerTyped
<1>8. ASSUME NEW c \in Contexts, Restart(c) PROVE ContextTypesInv'
  <2>1. /\ memory' = [memory EXCEPT ![c] = Lasting(file.entries)]
        /\ count' = [count EXCEPT ![c] = 0]
        /\ lost' \in BOOLEAN /\ UNCHANGED <<file, lapsed, stamps, seen>>
    BY <1>1, <1>8 DEF Restart, LoseKeys
  <2>2. Lasting(file.entries) \in [ContextKeys -> EntryBy(stamps)]
    BY <1>1, LastingTyped
  <2> QED
    BY <1>2, <2>1, <2>2, FewerTyped
<1>9. ASSUME NEW n \in 1..MaxStamps, Lapse(n) PROVE ContextTypesInv'
  BY <1>9 DEF Lapse, ContextTypesInv, ContextBounded, Read
<1>10. CASE CompareAndSet
  <2>1. seen # NoRead /\ seen.context \in Contexts /\ seen.key \in ContextKeys
        /\ seen' = NoRead
    BY <1>10 DEF CompareAndSet, ContextTypesInv, Read
  <2>2. Read'
    BY <2>1 DEF Read
  <2>3. CASE SetKey(seen.context, seen.key)
    BY <2>1, <2>2, <2>3, SetKeyTyped
  <2>4. CASE UNCHANGED <<memory, count, file, lapsed, stamps, lost>>
    BY <2>2, <2>4 DEF ContextTypesInv, ContextBounded
  <2> QED
    BY <1>10, <2>3, <2>4 DEF CompareAndSet
<1>11. ASSUME NEW c \in Contexts, NEW k \in ContextKeys, SetKey(c, k), seen' = seen
       PROVE  ContextTypesInv'
  <2>1. stamps' = stamps + 1
    BY <1>11 DEF SetKey
  <2>2. Read'
    BY <1>1, <1>11, <2>1 DEF ContextTypesInv, Read
  <2> QED
    BY <1>11, <2>2, SetKeyTyped
<1>12. ASSUME NEW c \in Contexts, NEW keys \in SUBSET ContextKeys, AtomicSet(c, keys)
       PROVE  ContextTypesInv'
  BY <1>12, AtomicSetTyped
<1>13. CASE UNCHANGED contextVars
  BY <1>13 DEF contextVars, ContextTypesInv, ContextBounded, Read
<1>14. ASSUME NEW c \in Contexts, NEW keys \in SUBSET ContextKeys,
              \/ DeleteMany(c, keys) \/ Clear(c)
              \/ \E k \in ContextKeys : Delete(c, k)
       PROVE  ContextTypesInv'
  <2>1. Entries(c) \subseteq ContextKeys
    BY DEF Entries
  <2>2. \E gone \in SUBSET ContextKeys : RemoveKeys(c, gone)
    BY <1>14, <2>1 DEF DeleteMany, Clear, Delete
  <2> QED
    BY <1>7, <2>2
<1> QED
  BY <1>4, <1>5, <1>6, <1>8, <1>9, <1>10, <1>11, <1>12, <1>13, <1>14 DEF ContextNext

LEMMA ContextTyped == ContextTypesInv => ContextTypeOK
<1> SUFFICES ASSUME ContextTypesInv PROVE ContextTypeOK
  OBVIOUS
<1>1. stamps \in Nat /\ MaxStamps \in Nat /\ stamps <= MaxStamps
  BY ContextAssumption DEF ContextTypesInv, ContextBounded
<1>2. EntryBy(stamps) \subseteq EntryBy(MaxStamps) /\ EntryBy(MaxStamps) = ContextEntry
  BY <1>1, EntryGrows DEF EntryBy, ContextEntry
<1>3. [ContextKeys -> EntryBy(stamps)] \subseteq [ContextKeys -> ContextEntry]
  BY <1>2
<1>4. /\ memory \in [Contexts -> [ContextKeys -> ContextEntry]]
      /\ file.entries \in [ContextKeys -> ContextEntry]
  BY <1>3 DEF ContextTypesInv, ContextBounded
<1>5. count \in [Contexts -> 0..MaxStamps]
  BY <1>1 DEF ContextTypesInv, ContextBounded
<1>6. file \in [kind : {"torn", "saved"}, entries : [ContextKeys -> ContextEntry]]
  BY <1>4 DEF ContextTypesInv, ContextBounded
<1> QED
  BY <1>4, <1>5, <1>6 DEF ContextTypesInv, ContextBounded, ContextTypeOK

-----------------------------------------------------------------------------
(* The parts together (MCOrchestration).                                   *)

(* Every variable of the package keeps its type, in each part: queues of known
   messages, lists of known agents, versions no larger than the writes. *)
THEOREM TypesHold == Spec => []TypeOK
<1> DEFINE Typed ==
      /\ BusInv /\ RegistryTypeOK /\ GraphTypeOK
      /\ ContextTypesInv /\ CoordinatorInv /\ CrewInv
<1>1. Init => Typed
  BY BusStarts, RegistryStarts, GraphStarts, ContextTypesStart, CoordinatorStarts,
     CrewStarts DEF Init
<1>2. Typed /\ [Next]_vars => Typed'
  <2> SUFFICES ASSUME Typed, [Next]_vars PROVE Typed'
    OBVIOUS
  <2>1. /\ [BusNext]_busVars /\ [RegistryNext]_registryVars /\ [GraphNext]_graphVars
        /\ [ContextNext]_contextVars
        /\ CoordinatorStep \/ UNCHANGED coordinatorVars
        /\ CrewStep \/ UNCHANGED crewVars
    BY Zenon DEF Next, vars
  <2>2. BusInv' /\ RegistryTypeOK' /\ GraphTypeOK' /\ ContextTypesInv'
    BY <2>1, BusKeeps, RegistryTypesKept, GraphTypesKept, ContextTypesKept
  <2>3. CoordinatorInv'
    <3>1. CASE UNCHANGED coordinatorVars
      BY <3>1 DEF CoordinatorInv, CoordinatorTypeOK, OfChosen, Chosen,
                  coordinatorVars
    <3> QED
      BY <2>1, <3>1, CoordinatorKeeps
  <2>4. CrewInv'
    <3>1. CASE UNCHANGED crewVars
      BY <3>1 DEF CrewInv, CrewTypeOK, CallsHaveAgents, AgentsAreFreed, crewVars
    <3> QED
      BY <2>1, <3>1, CrewKeeps
  <2> QED
    BY <2>2, <2>3, <2>4
<1>3. Typed => TypeOK
  BY ContextTyped DEF TypeOK, BusInv, CoordinatorInv, CrewInv
<1> QED
  BY <1>1, <1>2, <1>3, PTL DEF Spec
=============================================================================
