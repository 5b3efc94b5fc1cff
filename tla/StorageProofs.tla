---------------------------- MODULE StorageProofs ----------------------------
(***************************************************************************)
(* What is stored, proved for all processes, paths, connections, tables,   *)
(* engines, servers, tools, keys, skills and users: locks, the connection  *)
(* pool, the schema, recovery, files, projects, the tool catalog, API keys *)
(* and the memories of one process or user.                                *)
(***************************************************************************)
EXTENDS ServicesProofs

-----------------------------------------------------------------------------
(* Locks (storage/locks.py): a process has no path in two of its blocks, so *)
(* that leaving one block unlocks nothing that another still needs.         *)

LockTypes ==
    /\ kernel \in [LockPaths -> {Unlocked} \cup [by : LockUsers, how : {"block", "probe"}]]
    /\ blocks \in [LockUsers -> Seq(LockPaths)]
    /\ blocked \in [LockUsers -> LockPaths \cup {0}]

NoBlockTwice == \A u \in LockUsers : \A i, j \in DOMAIN blocks[u] :
    blocks[u][i] = blocks[u][j] => i = j

LocksInv == LockTypes /\ LocksHaveBlocks /\ NoBlockTwice

LEMMA LocksStart == LocksInit => LocksInv
  BY DEF LocksInit, LocksInv, LockTypes, LocksHaveBlocks, NoBlockTwice, Unlocked

(* A block is appended, or the last one taken away. *)
LEMMA BlockAppended ==
    ASSUME NEW S, NEW s \in Seq(S), NEW p \in S
    PROVE  /\ Append(s, p) \in Seq(S)
           /\ Len(s) \in Nat /\ DOMAIN s = 1..Len(s)
           /\ DOMAIN Append(s, p) = 1..(Len(s) + 1)
           /\ \A i \in DOMAIN s : Append(s, p)[i] = s[i] /\ s[i] \in S
           /\ Append(s, p)[Len(s) + 1] = p
  OBVIOUS

LEMMA BlockLeft ==
    ASSUME NEW S, NEW s \in Seq(S), s # <<>>
    PROVE  /\ SubSeq(s, 1, Len(s) - 1) \in Seq(S)
           /\ Len(s) \in Nat \ {0} /\ DOMAIN s = 1..Len(s)
           /\ DOMAIN SubSeq(s, 1, Len(s) - 1) = 1..(Len(s) - 1)
           /\ \A i \in 1..(Len(s) - 1) : SubSeq(s, 1, Len(s) - 1)[i] = s[i]
           /\ \A i \in DOMAIN s : s[i] \in S
  OBVIOUS

LEMMA TakeKeeps ==
    ASSUME LocksInv, NEW u \in LockUsers, NEW p \in LockPaths, kernel[p] = Unlocked, Take(u, p)
    PROVE  /\ kernel' \in [LockPaths -> {Unlocked} \cup [by : LockUsers, how : {"block", "probe"}]]
           /\ blocks' \in [LockUsers -> Seq(LockPaths)]
           /\ LocksHaveBlocks' /\ NoBlockTwice'
<1> DEFINE s == blocks[u]
           t == Append(s, p)
<1>1. /\ kernel \in [LockPaths -> {Unlocked} \cup [by : LockUsers, how : {"block", "probe"}]]
      /\ blocks \in [LockUsers -> Seq(LockPaths)]
  BY DEF LocksInv, LockTypes
<1>2. /\ kernel' = [kernel EXCEPT ![p] = Owned(u, "block")]
      /\ blocks' = [blocks EXCEPT ![u] = t]
      /\ s \in Seq(LockPaths)
  BY <1>1 DEF Take
<1>3. /\ t \in Seq(LockPaths) /\ Len(s) \in Nat /\ DOMAIN s = 1..Len(s)
      /\ DOMAIN t = 1..(Len(s) + 1)
      /\ \A i \in DOMAIN s : t[i] = s[i] /\ s[i] \in LockPaths
      /\ t[Len(s) + 1] = p
  BY <1>2, BlockAppended
<1>4. Owned(u, "block") \in [by : LockUsers, how : {"block", "probe"}]
  BY DEF Owned
<1>5. kernel' \in [LockPaths -> {Unlocked} \cup [by : LockUsers, how : {"block", "probe"}]]
  BY <1>1, <1>2, <1>4
<1>6. blocks' \in [LockUsers -> Seq(LockPaths)]
  BY <1>1, <1>2, <1>3
<1>7. /\ Unlocked # Owned(u, "block") /\ Owned(u, "block").by = u
      /\ \A v \in LockUsers : Owned(v, "block") # Unlocked
  BY DEF Owned, Unlocked
<1>8. \A v \in LockUsers : \A i \in DOMAIN blocks[v] :
         blocks[v][i] \in LockPaths /\ kernel[blocks[v][i]] = Owned(v, "block")
  BY <1>1 DEF LocksInv, LocksHaveBlocks
<1>9. \A v \in LockUsers : \A i \in DOMAIN blocks[v] : blocks[v][i] # p
  BY <1>7, <1>8
<1> HIDE DEF s, t
<1>10. blocks'[u] = t /\ \A v \in LockUsers \ {u} : blocks'[v] = blocks[v]
  BY <1>1, <1>2
<1>11. kernel'[p] = Owned(u, "block") /\ \A q \in LockPaths \ {p} : kernel'[q] = kernel[q]
  BY <1>1, <1>2
<1>12. \A i \in DOMAIN t : i = Len(s) + 1 \/ i \in DOMAIN s
  BY <1>3
<1>13. \A v \in LockUsers : \A i \in DOMAIN blocks'[v] : kernel'[blocks'[v][i]] = Owned(v, "block")
  <2> SUFFICES ASSUME NEW v \in LockUsers, NEW i \in DOMAIN blocks'[v]
               PROVE  kernel'[blocks'[v][i]] = Owned(v, "block")
    OBVIOUS
  <2>1. CASE v # u
    BY <2>1, <1>8, <1>9, <1>10, <1>11
  <2>2. CASE v = u /\ i = Len(s) + 1
    BY <2>2, <1>3, <1>10, <1>11
  <2>3. CASE v = u /\ i \in DOMAIN s
    <3>1. blocks'[v][i] = blocks[u][i]
      BY <2>3, <1>3, <1>10 DEF s
    <3> QED
      BY <3>1, <2>3, <1>8, <1>9, <1>11 DEF s
  <2> QED
    BY <2>1, <2>2, <2>3, <1>10, <1>12
<1>14. ASSUME NEW q \in LockPaths, kernel'[q].how = "block"
       PROVE  \E i \in DOMAIN blocks'[kernel'[q].by] : blocks'[kernel'[q].by][i] = q
  <2>1. CASE q = p
    <3>1. kernel'[q].by = u /\ Len(s) + 1 \in DOMAIN t
      BY <2>1, <1>3, <1>7, <1>11
    <3> QED
      BY <3>1, <2>1, <1>3, <1>10
  <2>2. CASE q # p
    <3>1. kernel'[q] = kernel[q]
      BY <2>2, <1>11
    <3>2. PICK i \in DOMAIN blocks[kernel[q].by] : blocks[kernel[q].by][i] = q
      BY <3>1, <1>14 DEF LocksInv, LocksHaveBlocks
    <3>3. kernel[q].by \in LockUsers
      BY <1>1, <1>14, <3>1 DEF Unlocked
    <3>4. CASE kernel[q].by # u
      BY <3>1, <3>2, <3>3, <3>4, <1>10
    <3>5. CASE kernel[q].by = u
      <4>1. i \in DOMAIN s /\ i \in DOMAIN t /\ t[i] = q
        BY <3>2, <3>5, <1>3 DEF s
      <4> QED
        BY <4>1, <3>1, <3>5, <1>10
    <3> QED
      BY <3>4, <3>5
  <2> QED
    BY <2>1, <2>2
<1>15. NoBlockTwice'
  <2> SUFFICES ASSUME NEW v \in LockUsers, NEW i \in DOMAIN blocks'[v], NEW j \in DOMAIN blocks'[v],
                      blocks'[v][i] = blocks'[v][j]
               PROVE  i = j
    BY DEF NoBlockTwice
  <2>1. CASE v # u
    BY <2>1, <1>10 DEF LocksInv, NoBlockTwice
  <2>2. CASE v = u
    <3>1. i \in DOMAIN t /\ j \in DOMAIN t /\ t[i] = t[j]
      BY <2>2, <1>10
    <3>2. \A k \in DOMAIN s : t[k] # p /\ t[k] = s[k]
      BY <1>3, <1>9 DEF s
    <3>3. \A k, l \in DOMAIN s : s[k] = s[l] => k = l
      BY DEF LocksInv, NoBlockTwice, s
    <3> QED
      BY <3>1, <3>2, <3>3, <1>3, <1>12
  <2> QED
    BY <2>1, <2>2
<1> QED
  BY <1>5, <1>6, <1>13, <1>14, <1>15 DEF LocksHaveBlocks

LEMMA LeaveBlockKeeps == ASSUME LocksInv, NEW u \in LockUsers, LeaveBlock(u) PROVE LocksInv'
<1> DEFINE s == blocks[u]
           n == Len(s)
           t == SubSeq(s, 1, n - 1)
           p == s[n]
<1>1. /\ kernel \in [LockPaths -> {Unlocked} \cup [by : LockUsers, how : {"block", "probe"}]]
      /\ blocks \in [LockUsers -> Seq(LockPaths)]
      /\ blocked \in [LockUsers -> LockPaths \cup {0}]
  BY DEF LocksInv, LockTypes
<1>2. /\ s # <<>> /\ s \in Seq(LockPaths)
      /\ kernel' = [kernel EXCEPT ![p] = Unlocked]
      /\ blocks' = [blocks EXCEPT ![u] = t]
      /\ blocked' = blocked
  BY <1>1 DEF LeaveBlock
<1>3. /\ t \in Seq(LockPaths) /\ n \in Nat \ {0} /\ DOMAIN s = 1..n
      /\ DOMAIN t = 1..(n - 1)
      /\ \A i \in 1..(n - 1) : t[i] = s[i]
      /\ \A i \in DOMAIN s : s[i] \in LockPaths
  BY <1>2, BlockLeft
<1>4. n \in DOMAIN s /\ p \in LockPaths
  BY <1>3
<1>5. \A v \in LockUsers : \A i \in DOMAIN blocks[v] :
         blocks[v][i] \in LockPaths /\ kernel[blocks[v][i]] = Owned(v, "block")
  BY <1>1 DEF LocksInv, LocksHaveBlocks
<1>6. \A i, j \in DOMAIN s : s[i] = s[j] => i = j
  BY DEF LocksInv, NoBlockTwice
<1>7. kernel[p] = Owned(u, "block")
  BY <1>4, <1>5
<1>8. \A v \in LockUsers : Owned(v, "block") = Owned(u, "block") => v = u
  BY DEF Owned
<1> HIDE DEF t, n, s, p
<1>9. blocks'[u] = t /\ \A v \in LockUsers \ {u} : blocks'[v] = blocks[v]
  BY <1>1, <1>2
<1>10. kernel'[p] = Unlocked /\ \A q \in LockPaths \ {p} : kernel'[q] = kernel[q]
  BY <1>1, <1>2, <1>4
<1>11. LockTypes'
  BY <1>1, <1>2, <1>3, <1>4 DEF LockTypes
<1>12. \A v \in LockUsers : \A i \in DOMAIN blocks'[v] : kernel'[blocks'[v][i]] = Owned(v, "block")
  <2> SUFFICES ASSUME NEW v \in LockUsers, NEW i \in DOMAIN blocks'[v]
               PROVE  kernel'[blocks'[v][i]] = Owned(v, "block")
    OBVIOUS
  <2>1. CASE v # u
    <3>1. kernel[blocks[v][i]] = Owned(v, "block") /\ blocks[v][i] \in LockPaths
          /\ blocks'[v] = blocks[v]
      BY <2>1, <1>5, <1>9
    <3>2. blocks[v][i] # p
      BY <3>1, <2>1, <1>7, <1>8
    <3> QED
      BY <3>1, <3>2, <1>10
  <2>2. CASE v = u
    <3>1. i \in 1..(n - 1) /\ i \in DOMAIN s /\ blocks'[v][i] = s[i] /\ i # n
      BY <2>2, <1>3, <1>9
    <3>2. s[i] # p /\ s[i] \in LockPaths /\ kernel[s[i]] = Owned(u, "block")
      BY <3>1, <1>4, <1>5, <1>6 DEF p, s
    <3> QED
      BY <3>1, <3>2, <2>2, <1>10
  <2> QED
    BY <2>1, <2>2
<1>13. ASSUME NEW q \in LockPaths, kernel'[q].how = "block"
       PROVE  \E i \in DOMAIN blocks'[kernel'[q].by] : blocks'[kernel'[q].by][i] = q
  <2>1. q # p /\ kernel'[q] = kernel[q]
    BY <1>10, <1>13 DEF Unlocked
  <2>2. PICK i \in DOMAIN blocks[kernel[q].by] : blocks[kernel[q].by][i] = q
    BY <2>1, <1>13 DEF LocksInv, LocksHaveBlocks
  <2>3. kernel[q].by \in LockUsers
    BY <1>1, <1>13, <2>1 DEF Unlocked
  <2>4. CASE kernel[q].by # u
    BY <2>1, <2>2, <2>3, <2>4, <1>9
  <2>5. CASE kernel[q].by = u
    <3>1. i \in DOMAIN s /\ s[i] = q
      BY <2>2, <2>5 DEF s
    <3>2. i \in 1..n /\ i # n
      BY <3>1, <2>1, <1>3 DEF p
    <3>3. i \in DOMAIN t /\ t[i] = q
      BY <3>1, <3>2, <1>3
    <3> QED
      BY <3>3, <2>1, <2>5, <1>9
  <2> QED
    BY <2>4, <2>5
<1>14. NoBlockTwice'
  <2> SUFFICES ASSUME NEW v \in LockUsers, NEW i \in DOMAIN blocks'[v], NEW j \in DOMAIN blocks'[v],
                      blocks'[v][i] = blocks'[v][j]
               PROVE  i = j
    BY DEF NoBlockTwice
  <2>1. CASE v # u
    BY <2>1, <1>9 DEF LocksInv, NoBlockTwice
  <2>2. CASE v = u
    <3>1. /\ i \in 1..(n - 1) /\ j \in 1..(n - 1) /\ i \in DOMAIN s /\ j \in DOMAIN s
          /\ t[i] = t[j]
      BY <2>2, <1>3, <1>9
    <3> QED
      BY <3>1, <1>3, <1>6
  <2> QED
    BY <2>1, <2>2
<1> QED
  BY <1>11, <1>12, <1>13, <1>14 DEF LocksInv, LocksHaveBlocks

LEMMA ProbeKeeps ==
    ASSUME LocksInv, NEW u \in LockUsers, NEW p \in LockPaths, Probe(u, p)
    PROVE  LocksInv'
<1>1. /\ kernel[p] = Unlocked
      /\ kernel' = [kernel EXCEPT ![p] = Owned(u, "probe")]
      /\ blocks' = blocks /\ blocked' = blocked
  BY DEF Probe
<1>2. /\ kernel \in [LockPaths -> {Unlocked} \cup [by : LockUsers, how : {"block", "probe"}]]
      /\ blocks \in [LockUsers -> Seq(LockPaths)]
  BY DEF LocksInv, LockTypes
<1>3. kernel'[p].how # "block" /\ \A q \in LockPaths \ {p} : kernel'[q] = kernel[q]
  BY <1>1, <1>2 DEF Owned
<1>4. \A v \in LockUsers : \A i \in DOMAIN blocks[v] :
         blocks[v][i] \in LockPaths /\ kernel[blocks[v][i]] = Owned(v, "block")
  BY <1>2 DEF LocksInv, LocksHaveBlocks
<1>5. \A v \in LockUsers : Owned(v, "block") # Unlocked
  BY DEF Owned, Unlocked
<1>6. LockTypes'
  <2>1. Owned(u, "probe") \in [by : LockUsers, how : {"block", "probe"}]
    BY DEF Owned
  <2> QED
    BY <2>1, <1>1 DEF LocksInv, LockTypes
<1>7. \A v \in LockUsers : \A i \in DOMAIN blocks'[v] : kernel'[blocks'[v][i]] = Owned(v, "block")
  BY <1>1, <1>3, <1>4, <1>5
<1>8. \A q \in LockPaths : kernel'[q].how = "block" =>
         \E i \in DOMAIN blocks'[kernel'[q].by] : blocks'[kernel'[q].by][i] = q
  BY <1>1, <1>3 DEF LocksInv, LocksHaveBlocks
<1> QED
  BY <1>1, <1>6, <1>7, <1>8 DEF LocksInv, LocksHaveBlocks, NoBlockTwice

LEMMA ProcessEndsKeeps ==
    ASSUME LocksInv, NEW u \in LockUsers, ProcessEnds(u)
    PROVE  LocksInv'
<1>1. /\ kernel' = [p \in LockPaths |-> IF kernel[p].by = u THEN Unlocked ELSE kernel[p]]
      /\ blocks' = [blocks EXCEPT ![u] = <<>>]
      /\ blocked' = [blocked EXCEPT ![u] = 0]
  BY DEF ProcessEnds
<1>2. /\ kernel \in [LockPaths -> {Unlocked} \cup [by : LockUsers, how : {"block", "probe"}]]
      /\ blocks \in [LockUsers -> Seq(LockPaths)]
      /\ blocked \in [LockUsers -> LockPaths \cup {0}]
  BY DEF LocksInv, LockTypes
<1>3. LockTypes'
  BY <1>1, <1>2 DEF LockTypes
<1>4. blocks'[u] = <<>> /\ \A v \in LockUsers \ {u} : blocks'[v] = blocks[v]
  BY <1>1, <1>2
<1>5. \A v \in LockUsers : \A i \in DOMAIN blocks'[v] : kernel'[blocks'[v][i]] = Owned(v, "block")
  <2> SUFFICES ASSUME NEW v \in LockUsers, NEW i \in DOMAIN blocks'[v]
               PROVE  kernel'[blocks'[v][i]] = Owned(v, "block")
    OBVIOUS
  <2>1. v # u /\ blocks'[v] = blocks[v]
    BY <1>4
  <2>2. blocks[v][i] \in LockPaths /\ kernel[blocks[v][i]] = Owned(v, "block")
    BY <2>1, <1>2 DEF LocksInv, LocksHaveBlocks
  <2>3. kernel[blocks[v][i]].by = v
    BY <2>2 DEF Owned
  <2> QED
    BY <2>1, <2>2, <2>3, <1>1
<1>6. ASSUME NEW q \in LockPaths, kernel'[q].how = "block"
      PROVE  \E i \in DOMAIN blocks'[kernel'[q].by] : blocks'[kernel'[q].by][i] = q
  <2>1. kernel'[q] = kernel[q] /\ kernel[q].by # u
    BY <1>1, <1>6 DEF Unlocked
  <2>2. kernel[q].by \in LockUsers
    BY <1>2, <1>6, <2>1 DEF Unlocked
  <2> QED
    BY <2>1, <2>2, <1>4, <1>6 DEF LocksInv, LocksHaveBlocks
<1>7. NoBlockTwice'
  BY <1>4 DEF LocksInv, NoBlockTwice
<1> QED
  BY <1>3, <1>5, <1>6, <1>7 DEF LocksInv, LocksHaveBlocks

LEMMA LocksStep == LocksInv /\ (LocksNext \/ UNCHANGED lockVars) => LocksInv'
<1> SUFFICES ASSUME LocksInv, LocksNext \/ UNCHANGED lockVars PROVE LocksInv'
  OBVIOUS
<1>1. blocked \in [LockUsers -> LockPaths \cup {0}]
  BY DEF LocksInv, LockTypes
<1>2. ASSUME NEW u \in LockUsers, NEW p \in LockPaths, EnterBlock(u, p) PROVE LocksInv'
  <2>1. CASE kernel[p] = Unlocked
    <3>1. Take(u, p) /\ blocked' = blocked
      BY <1>2, <2>1 DEF EnterBlock
    <3> QED
      BY <3>1, <2>1, <1>1, TakeKeeps DEF LocksInv, LockTypes
  <2>2. CASE kernel[p] # Unlocked
    <3>1. blocked' = [blocked EXCEPT ![u] = p] /\ kernel' = kernel /\ blocks' = blocks
      BY <1>2, <2>2 DEF EnterBlock
    <3> QED
      BY <3>1 DEF LocksInv, LockTypes, LocksHaveBlocks, NoBlockTwice
  <2> QED
    BY <2>1, <2>2
<1>3. ASSUME NEW u \in LockUsers, NEW p \in LockPaths, TryEnter(u, p) PROVE LocksInv'
  <2>1. Take(u, p) /\ blocked' = blocked /\ kernel[p] = Unlocked
    BY <1>3 DEF TryEnter
  <2> QED
    BY <2>1, <1>1, TakeKeeps DEF LocksInv, LockTypes
<1>4. ASSUME NEW u \in LockUsers, Granted(u) PROVE LocksInv'
  <2>1. /\ Take(u, blocked[u]) /\ kernel[blocked[u]] = Unlocked /\ blocked[u] \in LockPaths
        /\ blocked' = [blocked EXCEPT ![u] = 0]
    BY <1>1, <1>4 DEF Granted
  <2> QED
    BY <2>1, <1>1, TakeKeeps DEF LocksInv, LockTypes
<1>5. CASE LocksNext
  BY <1>2, <1>3, <1>4, <1>5, ProbeKeeps, LeaveBlockKeeps, ProcessEndsKeeps DEF LocksNext
<1>6. CASE UNCHANGED lockVars
  BY <1>6 DEF lockVars, LocksInv, LockTypes, LocksHaveBlocks, NoBlockTwice
<1> QED
  BY <1>5, <1>6

(* Along a chain of waiting processes that take locks in order, the path waited
   for grows: nobody is behind himself. *)
LEMMA WaitingGrows ==
    ASSUME LocksInv, NEW v \in LockUsers, NEW w \in WaitsFor(v),
           \A p \in LockPaths : kernel[p] # Owned(w, "probe")
    PROVE  /\ w \in LockUsers /\ blocked[v] \in LockPaths
           /\ \E i \in DOMAIN blocks[w] : blocks[w][i] = blocked[v]
<1>1. /\ kernel \in [LockPaths -> {Unlocked} \cup [by : LockUsers, how : {"block", "probe"}]]
      /\ blocked \in [LockUsers -> LockPaths \cup {0}]
  BY DEF LocksInv, LockTypes
<1>2. /\ blocked[v] # 0 /\ kernel[blocked[v]] # Unlocked /\ w = kernel[blocked[v]].by
  BY DEF WaitsFor
<1>3. /\ blocked[v] \in LockPaths
      /\ kernel[blocked[v]] \in [by : LockUsers, how : {"block", "probe"}]
  BY <1>1, <1>2
<1>4. kernel[blocked[v]].how = "block"
  BY <1>2, <1>3 DEF Owned
<1> QED
  BY <1>2, <1>3, <1>4 DEF LocksInv, LocksHaveBlocks

LEMMA LocksAreRight == LocksInv => LocksHaveBlocks /\ DeadlocksAreEarned
<1> SUFFICES ASSUME LocksInv PROVE DeadlocksAreEarned
  BY DEF LocksInv
<1> SUFFICES ASSUME NEW u \in LockUsers, u \in Blockers(u),
                    \A v \in Blockers(u) \cup {u} :
                        /\ \A i \in DOMAIN blocks[v] : ~(blocks[v][i] >= blocked[v])
                        /\ \A p \in LockPaths : kernel[p] # Owned(v, "probe")
             PROVE  FALSE
  BY DEF DeadlocksAreEarned
<1> DEFINE S == {w \in Blockers(u) : blocked[w] > blocked[u]}
<1>1. \A w \in LockUsers : blocked[w] \in Nat
  <2> TAKE w \in LockUsers
  <2>1. blocked[w] \in LockPaths \cup {0}
    BY DEF LocksInv, LockTypes
  <2>2. LockPaths \subseteq Nat
    BY LockAssumption
  <2>3. 0 \in Nat
    OBVIOUS
  <2> QED
    BY Zenon, <2>1, <2>2, <2>3
<1>2. Blockers(u) \subseteq LockUsers
  BY DEF Blockers
<1>3. \A v \in Blockers(u) \cup {u} : WaitsFor(v) \cap LockUsers \subseteq Blockers(u)
  BY DEF Blockers, Closed
<1>4. ASSUME NEW v \in Blockers(u) \cup {u}, NEW w \in WaitsFor(v)
      PROVE  w \in Blockers(u) /\ blocked[w] > blocked[v]
  <2>1. kernel[blocked[v]] # Unlocked /\ blocked[v] # 0 /\ w = kernel[blocked[v]].by
    BY DEF WaitsFor
  <2>2. v \in LockUsers
    BY <1>2
  <2>3. w \in LockUsers
    BY <2>1, <2>2 DEF LocksInv, LockTypes
  <2>4. w \in Blockers(u)
    BY <2>3, <1>3
  <2>5. \E i \in DOMAIN blocks[w] : blocks[w][i] = blocked[v]
    BY <2>2, <2>4, WaitingGrows
  <2> QED
    BY <2>2, <2>3, <2>4, <2>5, <1>1
<1>5. WaitsFor(u) \subseteq S
  BY <1>4
<1>6. Closed(S)
  <2> SUFFICES ASSUME NEW v \in S, NEW w \in WaitsFor(v) PROVE w \in S
    BY DEF Closed
  <2>1. w \in Blockers(u) /\ blocked[w] > blocked[v] /\ blocked[v] > blocked[u]
    BY <1>4
  <2> QED
    BY <2>1, <1>1, <1>2
<1>7. S \in SUBSET LockUsers
  BY <1>2
<1>8. u \in S
  BY <1>5, <1>6, <1>7 DEF Blockers
<1> QED
  BY <1>1, <1>8

-----------------------------------------------------------------------------
(* The pool (storage/pool.py): no connection is in the queue twice, and       *)
(* whoever waits for one has none.                                           *)

(* A queue of different connections out of the first m. *)
QueueOf(q, m) ==
    /\ q \in Seq(1..m) /\ Len(q) <= PoolSize
    /\ \A i, j \in DOMAIN q : q[i] = q[j] => i = j
Queued(q, c) == \E i \in DOMAIN q : q[i] = c

PoolInv ==
    /\ created \in Nat
    /\ QueueOf(idle, created)
    /\ lent \in [PoolUsers -> 0..created]
    /\ asking \subseteq PoolUsers
    /\ \A u \in asking : lent[u] = 0
    /\ initialized \in BOOLEAN /\ closing \in BOOLEAN /\ disturbed \in BOOLEAN
    /\ closing => disturbed
    /\ ~initialized /\ ~disturbed => created = 0
    /\ IsFiniteSet(Lent)
    /\ PoolIsWhole

LEMMA PoolStart == PoolInit => PoolInv
<1> SUFFICES ASSUME PoolInit PROVE PoolInv
  OBVIOUS
<1>1. /\ idle = <<>> /\ lent = [u \in PoolUsers |-> 0] /\ asking = {} /\ initialized = FALSE
      /\ created = 0 /\ closedConns = {} /\ closing = FALSE /\ disturbed = FALSE
  BY DEF PoolInit
<1>2. Lent = {} /\ IsFiniteSet(Lent)
  BY <1>1, FS_EmptySet DEF Lent
<1>3. PoolSize \in Nat
  BY PoolAssumption
<1>4. QueueOf(idle, created)
  <2>1. <<>> \in Seq(1..0) /\ Len(<<>>) = 0 /\ DOMAIN <<>> = {}
    OBVIOUS
  <2> QED
    BY <1>1, <1>3, <2>1 DEF QueueOf
<1>5. PoolIsWhole
  BY <1>1, <1>2 DEF PoolIsWhole
<1>6. lent \in [PoolUsers -> 0..created] /\ asking \subseteq PoolUsers
  BY <1>1
<1>7. \A u \in asking : lent[u] = 0
  BY <1>1
<1>8. /\ initialized \in BOOLEAN /\ closing \in BOOLEAN /\ disturbed \in BOOLEAN
      /\ ~closing /\ created \in Nat /\ created = 0
  BY <1>1
<1> QED
  BY <1>2, <1>4, <1>5, <1>6, <1>7, <1>8 DEF PoolInv

LEMMA QueueGrowsUp ==
    ASSUME NEW q, NEW m \in Nat, NEW n \in Nat, m <= n, QueueOf(q, m)
    PROVE  QueueOf(q, n)
<1>1. 1..m \subseteq 1..n
  OBVIOUS
<1> QED
  BY <1>1 DEF QueueOf

(* What put_nowait makes of the queue. *)
LEMMA PutBackQueues ==
    ASSUME NEW q, NEW m \in Nat, QueueOf(q, m), NEW c \in 1..m, ~Queued(q, c)
    PROVE  /\ QueueOf(PutBack(q, c), m)
           /\ \A d : Queued(PutBack(q, c), d) => Queued(q, d) \/ d = c
           /\ Len(q) < PoolSize => Len(PutBack(q, c)) = Len(q) + 1
<1>1. /\ q \in Seq(1..m) /\ Len(q) <= PoolSize
      /\ \A i, j \in DOMAIN q : q[i] = q[j] => i = j
      /\ PoolSize \in Nat
  BY PoolAssumption DEF QueueOf
<1>2. CASE ~(Len(q) < PoolSize)
  BY <1>1, <1>2 DEF PutBack, QueueOf
<1>3. CASE Len(q) < PoolSize
  <2> DEFINE t == Append(q, c)
  <2>1. PutBack(q, c) = t
    BY <1>3 DEF PutBack
  <2>2. /\ t \in Seq(1..m) /\ Len(q) \in Nat /\ DOMAIN q = 1..Len(q)
        /\ DOMAIN t = 1..(Len(q) + 1)
        /\ \A i \in DOMAIN q : t[i] = q[i]
        /\ t[Len(q) + 1] = c
    BY <1>1, BlockAppended
  <2>3. Len(t) = Len(q) + 1
    BY <1>1
  <2> HIDE DEF t
  <2>4. \A i \in DOMAIN t : i = Len(q) + 1 \/ i \in DOMAIN q
    BY <2>2
  <2>5. \A i \in DOMAIN q : t[i] # c
    BY <2>2 DEF Queued
  <2>6. \A i, j \in DOMAIN t : t[i] = t[j] => i = j
    BY <1>1, <2>2, <2>4, <2>5
  <2>7. \A d : Queued(t, d) => Queued(q, d) \/ d = c
    BY <2>2, <2>4 DEF Queued
  <2>8. Len(t) <= PoolSize
    BY <1>1, <1>3, <2>2, <2>3
  <2> QED
    BY <2>1, <2>2, <2>3, <2>6, <2>7, <2>8 DEF QueueOf
<1> QED
  BY <1>2, <1>3

(* What get() leaves of it. *)
LEMMA TakingQueues ==
    ASSUME NEW q, NEW m \in Nat, QueueOf(q, m), q # <<>>
    PROVE  /\ QueueOf(Tail(q), m)
           /\ Head(q) \in 1..m /\ Queued(q, Head(q)) /\ ~Queued(Tail(q), Head(q))
           /\ \A d : Queued(Tail(q), d) => Queued(q, d)
           /\ Len(q) \in Nat \ {0} /\ Len(Tail(q)) = Len(q) - 1
<1>1. /\ q \in Seq(1..m) /\ Len(q) <= PoolSize
      /\ \A i, j \in DOMAIN q : q[i] = q[j] => i = j
      /\ PoolSize \in Nat
  BY PoolAssumption DEF QueueOf
<1> DEFINE t == Tail(q)
<1>2. /\ t \in Seq(1..m) /\ Len(q) \in Nat \ {0} /\ DOMAIN q = 1..Len(q)
      /\ Len(t) = Len(q) - 1
      /\ DOMAIN t = 1..(Len(q) - 1)
      /\ \A i \in DOMAIN t : t[i] = q[i + 1]
      /\ Head(q) = q[1]
  BY <1>1
<1> HIDE DEF t
<1>3. \A i \in DOMAIN t : i + 1 \in DOMAIN q /\ i + 1 # 1 /\ i \in Nat
  BY <1>2
<1>4. 1 \in DOMAIN q /\ Head(q) \in 1..m
  BY <1>1, <1>2
<1>5. Queued(q, Head(q))
  BY <1>2, <1>4 DEF Queued
<1>6. ~Queued(t, Head(q))
  BY <1>1, <1>2, <1>3, <1>4 DEF Queued
<1>7. \A d : Queued(t, d) => Queued(q, d)
  BY <1>2, <1>3 DEF Queued
<1>8. \A i, j \in DOMAIN t : t[i] = t[j] => i = j
  <2> TAKE i, j \in DOMAIN t
  <2>1. t[i] = t[j] => i + 1 = j + 1
    BY <1>1, <1>2, <1>3
  <2> QED
    BY <2>1, <1>3
<1>9. QueueOf(t, m)
  BY <1>1, <1>2, <1>8 DEF QueueOf
<1> QED
  BY <1>2, <1>4, <1>5, <1>6, <1>7, <1>9 DEF t

(* What a replacement leaves: nothing new is queued but the new connection, or
   the old one after a failure. *)
LEMMA ReplacedQueues ==
    ASSUME created \in Nat, disturbed \in BOOLEAN,
           NEW q, QueueOf(q, created), NEW c \in 1..created, ~Queued(q, c), Replaced(q, c)
    PROVE  /\ created' \in Nat /\ created <= created' /\ QueueOf(idle', created')
           /\ \A d : Queued(idle', d) => Queued(q, d) \/ d = c \/ d = created + 1
           /\ disturbed' \in BOOLEAN /\ (disturbed => disturbed')
           /\ ~disturbed' => ~disturbed /\ (Len(q) < PoolSize => Len(idle') = Len(q) + 1)
<1>1. CASE /\ created' = created + 1 /\ idle' = PutBack(q, created + 1)
           /\ UNCHANGED disturbed
  <2>1. QueueOf(q, created + 1)
    BY QueueGrowsUp
  <2>2. ~Queued(q, created + 1)
    <3>1. \A i \in DOMAIN q : q[i] \in 1..created
      BY DEF QueueOf
    <3> QED
      BY <3>1 DEF Queued
  <2> QED
    BY <1>1, <2>1, <2>2, PutBackQueues
<1>2. CASE /\ idle' = PutBack(q, c) /\ disturbed' = TRUE
           /\ UNCHANGED created
  BY <1>2, PutBackQueues
<1> QED
  BY <1>1, <1>2 DEF Replaced

(* One body more, one body fewer. *)
LEMMA OneMoreLent ==
    ASSUME lent \in [PoolUsers -> Nat], IsFiniteSet(Lent), NEW u \in PoolUsers, NEW c \in Nat \ {0},
           lent[u] = 0, lent' = [lent EXCEPT ![u] = c]
    PROVE  /\ Lent' = Lent \cup {u} /\ IsFiniteSet(Lent')
           /\ Cardinality(Lent) \in Nat /\ Cardinality(Lent') = Cardinality(Lent) + 1
<1>1. Lent' = Lent \cup {u} /\ u \notin Lent
  BY DEF Lent
<1> QED
  BY <1>1, FS_AddElement, FS_CardinalityType

LEMMA OneFewerLent ==
    ASSUME lent \in [PoolUsers -> Nat], IsFiniteSet(Lent), NEW u \in PoolUsers,
           lent[u] # 0, lent' = [lent EXCEPT ![u] = 0]
    PROVE  /\ Lent' = Lent \ {u} /\ IsFiniteSet(Lent')
           /\ Cardinality(Lent) \in Nat \ {0} /\ Cardinality(Lent') = Cardinality(Lent) - 1
<1>1. Lent' = Lent \ {u} /\ u \in Lent
  BY DEF Lent
<1>2. Cardinality(Lent') \in Nat /\ IsFiniteSet(Lent')
  BY <1>1, FS_RemoveElement, FS_CardinalityType
<1> QED
  BY <1>1, <1>2, FS_RemoveElement, FS_CardinalityType

LEMMA PoolFacts ==
    ASSUME PoolInv
    PROVE  /\ lent \in [PoolUsers -> Nat] /\ PoolSize \in Nat /\ PoolSize > 0
           /\ Len(idle) \in Nat /\ Cardinality(Lent) \in Nat
           /\ \A u \in PoolUsers : ~Queued(idle, lent[u]) \/ lent[u] = 0
           /\ \A u \in PoolUsers : lent[u] # 0 => u \in Lent /\ lent[u] \in 1..created
           /\ \A u \in Lent : u \in PoolUsers /\ lent[u] # 0
           /\ \A c : Queued(idle, c) => c \in 1..created
<1>1. lent \in [PoolUsers -> Nat] /\ PoolSize \in Nat /\ PoolSize > 0
  BY PoolAssumption DEF PoolInv
<1>2. Len(idle) \in Nat /\ Cardinality(Lent) \in Nat
  BY FS_CardinalityType DEF PoolInv, QueueOf
<1>3. \A u \in PoolUsers : ~Queued(idle, lent[u]) \/ lent[u] = 0
  BY DEF PoolInv, PoolIsWhole, Queued, Lent
<1>4. \A u \in PoolUsers : lent[u] # 0 => u \in Lent /\ lent[u] \in 1..created
  BY <1>1 DEF PoolInv, Lent
<1>5. \A c : Queued(idle, c) => c \in 1..created
  BY DEF PoolInv, QueueOf, Queued
<1>6. \A u \in Lent : u \in PoolUsers /\ lent[u] # 0
  BY DEF Lent
<1> QED
  BY <1>1, <1>2, <1>3, <1>4, <1>5, <1>6

(* PoolIsWhole in terms of what is queued. *)
LEMMA PoolIsWholeIf ==
    ASSUME \A u \in Lent : lent[u] \notin closedConns,
           \A u, v \in Lent : u # v => lent[u] # lent[v],
           \A u \in Lent : ~Queued(idle, lent[u]),
           initialized /\ ~disturbed => Len(idle) + Cardinality(Lent) = PoolSize
    PROVE  PoolIsWhole
  BY DEF PoolIsWhole, Queued

LEMMA FirstOrNone ==
    ASSUME NEW S, NEW s \in Seq(S), NEW k \in Nat, k <= Len(s)
    PROVE  /\ SubSeq(s, 1, k) \in Seq(S) /\ Len(SubSeq(s, 1, k)) = k
           /\ DOMAIN SubSeq(s, 1, k) = 1..k
           /\ \A i \in 1..k : SubSeq(s, 1, k)[i] = s[i]
<1>1. Len(s) \in Nat
  OBVIOUS
<1>2. CASE k = 0
  <2>1. SubSeq(s, 1, 0) = <<>>
    OBVIOUS
  <2>3. <<>> \in Seq(S) /\ Len(<<>>) = 0 /\ DOMAIN <<>> = {} /\ 1..0 = {}
    OBVIOUS
  <2> QED
    BY Zenon, <1>2, <2>1, <2>3
<1>3. CASE k # 0
  <2>1. k \in 1..Len(s)
    BY <1>1, <1>3
  <2> QED
    BY Zenon, <2>1, FirstPieces
<1> QED
  BY <1>2, <1>3

(* The first k of two pieces, and those of the numbers after m. *)
LEMMA FirstOfBoth ==
    ASSUME NEW m \in Nat, NEW n \in Nat, NEW q, QueueOf(q, m), NEW t,
           t = SubSeq(q \o [i \in 1..n |-> m + i], 1,
                      IF Len(q) + n < PoolSize THEN Len(q) + n ELSE PoolSize)
    PROVE  /\ QueueOf(t, m + n)
           /\ \A d : Queued(t, d) => Queued(q, d) \/ d \in (m + 1)..(m + n)
           /\ Len(t) = IF Len(q) + n < PoolSize THEN Len(q) + n ELSE PoolSize
<1> DEFINE k == IF Len(q) + n < PoolSize THEN Len(q) + n ELSE PoolSize
           r == [i \in 1..n |-> m + i]
           b == q \o r
<1>1. /\ q \in Seq(1..m) /\ Len(q) <= PoolSize /\ Len(q) \in Nat /\ DOMAIN q = 1..Len(q)
      /\ \A i, j \in DOMAIN q : q[i] = q[j] => i = j
      /\ \A i \in DOMAIN q : q[i] \in 1..m
      /\ PoolSize \in Nat
  BY PoolAssumption DEF QueueOf
<1>2. k \in Nat /\ k <= Len(q) + n /\ k <= PoolSize
  BY <1>1
<1>3. r \in Seq(1..(m + n)) /\ Len(r) = n
  <2>1. r \in [1..n -> 1..(m + n)]
    OBVIOUS
  <2> QED
    BY <2>1
<1>4. q \in Seq(1..(m + n))
  <2>1. 1..m \subseteq 1..(m + n)
    OBVIOUS
  <2> QED
    BY <1>1, <2>1
<1>5. /\ b \in Seq(1..(m + n)) /\ Len(b) = Len(q) + n
      /\ \A i \in 1..(Len(q) + n) : b[i] = IF i <= Len(q) THEN q[i] ELSE r[i - Len(q)]
  BY <1>1, <1>3, <1>4
<1>6. \A i \in 1..n : r[i] = m + i
  OBVIOUS
<1> HIDE DEF r, b
<1>7. /\ t \in Seq(1..(m + n)) /\ Len(t) = k /\ DOMAIN t = 1..k
      /\ \A i \in 1..k : t[i] = b[i]
  <2>1. t = SubSeq(b, 1, k)
    BY DEF b, r
  <2> HIDE DEF k
  <2>2. k <= Len(b)
    BY <1>2, <1>5
  <2>3. PICK A : A = 1..(m + n)
    OBVIOUS
  <2>4. b \in Seq(A)
    BY <1>5, <2>3
  <2>5. /\ t \in Seq(A) /\ Len(t) = k /\ DOMAIN t = 1..k
        /\ \A i \in 1..k : t[i] = b[i]
    <3>1. k \in Nat /\ k <= Len(b)
      BY <1>2, <2>2
    <3>2. /\ SubSeq(b, 1, k) \in Seq(A) /\ Len(SubSeq(b, 1, k)) = k
          /\ DOMAIN SubSeq(b, 1, k) = 1..k
          /\ \A i \in 1..k : SubSeq(b, 1, k)[i] = b[i]
      BY Zenon, <2>4, <3>1, FirstOrNone
    <3> QED
      BY Zenon, <2>1, <3>2
  <2> QED
    BY <2>3, <2>5
<1> HIDE DEF k
<1>8. \A i \in 1..k : \/ i \in DOMAIN q /\ t[i] = q[i] /\ t[i] \in 1..m
                      \/ i > Len(q) /\ t[i] = m + (i - Len(q)) /\ i - Len(q) \in 1..n
  <2> TAKE i \in 1..k
  <2>1. i \in 1..(Len(q) + n) /\ i \in Nat \ {0}
    BY <1>1, <1>2
  <2>2. t[i] = IF i <= Len(q) THEN q[i] ELSE r[i - Len(q)]
    BY <1>5, <1>7, <2>1
  <2>3. CASE i <= Len(q)
    <3>1. i \in DOMAIN q
      BY <1>1, <2>1, <2>3
    <3> QED
      BY <3>1, <1>1, <2>2, <2>3
  <2>4. CASE ~(i <= Len(q))
    <3>1. i - Len(q) \in 1..n /\ i > Len(q)
      BY <1>1, <2>1, <2>4
    <3> QED
      BY <3>1, <1>6, <2>2, <2>4
  <2> QED
    BY <2>3, <2>4
<1>9. \A i, j \in DOMAIN t : t[i] = t[j] => i = j
  <2> TAKE i, j \in DOMAIN t
  <2> SUFFICES ASSUME t[i] = t[j] PROVE i = j
    OBVIOUS
  <2>1. i \in 1..k /\ j \in 1..k /\ i \in Nat /\ j \in Nat
    BY <1>2, <1>7
  <2>2. CASE i \in DOMAIN q /\ t[i] = q[i] /\ t[i] \in 1..m
    <3>1. j \in DOMAIN q /\ t[j] = q[j]
      BY <1>1, <1>8, <2>1, <2>2
    <3> QED
      BY <3>1, <1>1, <2>2
  <2>3. CASE i > Len(q) /\ t[i] = m + (i - Len(q)) /\ i - Len(q) \in 1..n
    <3>1. ~(t[i] \in 1..m)
      <4>1. \A l \in 1..n : ~(m + l \in 1..m)
        OBVIOUS
      <4> QED
        BY <2>3, <4>1
    <3>2. j > Len(q) /\ t[j] = m + (j - Len(q)) /\ j - Len(q) \in 1..n
      BY <1>8, <2>1, <3>1
    <3>3. m + (i - Len(q)) = m + (j - Len(q))
      BY <2>3, <3>2
    <3> QED
      BY <1>1, <2>1, <3>3
  <2> QED
    BY <1>8, <2>1, <2>2, <2>3
<1>10. \A i \in DOMAIN t : Queued(q, t[i]) \/ t[i] \in (m + 1)..(m + n)
  <2> TAKE i \in DOMAIN t
  <2>1. i \in 1..k
    BY <1>7
  <2>2. CASE i \in DOMAIN q /\ t[i] = q[i]
    BY <2>2 DEF Queued
  <2>3. CASE t[i] = m + (i - Len(q)) /\ i - Len(q) \in 1..n
    <3>1. \A l \in 1..n : m + l \in (m + 1)..(m + n)
      OBVIOUS
    <3> QED
      BY <2>3, <3>1
  <2> QED
    BY <1>8, <2>1, <2>2, <2>3
<1>11. \A d : Queued(t, d) => Queued(q, d) \/ d \in (m + 1)..(m + n)
  BY <1>10 DEF Queued
<1>12. QueueOf(t, m + n)
  BY <1>2, <1>7, <1>9 DEF QueueOf
<1> QED
  BY <1>7, <1>11, <1>12 DEF k

LEMMA InitializeKeeps == ASSUME PoolInv, NEW u \in PoolUsers, Initialize(u) PROVE PoolInv'
<1>1. /\ u \notin asking /\ lent[u] = 0 /\ asking' = asking \cup {u}
      /\ lent' = lent /\ closedConns' = closedConns /\ closing' = closing
      /\ Lent' = Lent
  BY DEF Initialize, Lent
<1>2. CASE initialized
  <2>1. UNCHANGED <<idle, initialized, created, disturbed>>
    BY <1>2 DEF Initialize
  <2>2. PoolIsWhole'
    BY <1>1, <2>1 DEF PoolInv, PoolIsWhole
  <2>3. /\ asking' \subseteq PoolUsers /\ \A v \in asking' : lent'[v] = 0
    BY <1>1 DEF PoolInv
  <2>4. QueueOf(idle', created') /\ IsFiniteSet(Lent')
    BY <1>1, <2>1 DEF PoolInv
  <2> QED
    BY <1>1, <2>1, <2>2, <2>3, <2>4 DEF PoolInv
<1>3. CASE ~initialized
  <2>1. PICK n \in 0..PoolSize :
              /\ created' = created + n
              /\ idle' = SubSeq(idle \o [i \in 1..n |-> created + i], 1,
                               IF Len(idle) + n < PoolSize THEN Len(idle) + n ELSE PoolSize)
              /\ initialized' = TRUE
              /\ disturbed' = (disturbed \/ n < PoolSize)
    BY <1>3 DEF Initialize
  <2>2. created \in Nat /\ n \in Nat /\ QueueOf(idle, created) /\ PoolSize \in Nat
    BY PoolAssumption DEF PoolInv
  <2>3. PICK t : t = idle'
    OBVIOUS
  <2>4. /\ QueueOf(t, created + n)
        /\ \A d : Queued(t, d) => Queued(idle, d) \/ d \in (created + 1)..(created + n)
        /\ Len(t) = IF Len(idle) + n < PoolSize THEN Len(idle) + n ELSE PoolSize
    BY <2>1, <2>2, <2>3, FirstOfBoth
  <2>5. \A v \in Lent : ~Queued(t, lent[v])
    <3>1. \A v \in Lent : ~Queued(idle, lent[v]) /\ lent[v] \in 1..created
      BY PoolFacts
    <3> QED
      BY <3>1, <2>2, <2>4
  <2>6. ~disturbed' => Len(t) + Cardinality(Lent) = PoolSize
    <3> SUFFICES ASSUME ~disturbed' PROVE Len(t) + Cardinality(Lent) = PoolSize
      OBVIOUS
    <3>1. ~disturbed /\ n = PoolSize /\ created = 0
      <4>1. ~disturbed /\ ~(n < PoolSize)
        BY <2>1
      <4>2. n = PoolSize
        BY <2>2, <4>1
      <4> QED
        BY <1>3, <4>1, <4>2 DEF PoolInv
    <3>2. Lent = {}
      BY <3>1 DEF PoolInv, Lent
    <3>3. Len(idle) \in Nat
      BY PoolFacts
    <3>4. Len(t) = PoolSize
      BY <2>2, <2>4, <3>1, <3>3
    <3> QED
      BY <2>2, <3>2, <3>4, FS_EmptySet
  <2>7. PoolIsWhole'
    <3>1. /\ \A v \in Lent' : lent'[v] \notin closedConns'
          /\ \A v, w \in Lent' : v # w => lent'[v] # lent'[w]
      BY <1>1 DEF PoolInv, PoolIsWhole
    <3>2. \A v \in Lent' : ~Queued(idle', lent'[v])
      BY <1>1, <2>3, <2>5
    <3>3. initialized' /\ ~disturbed' => Len(idle') + Cardinality(Lent') = PoolSize
      BY <1>1, <2>3, <2>6
    <3> QED
      BY <3>1, <3>2, <3>3, PoolIsWholeIf DEF PoolIsWhole, Queued
  <2>8. /\ created' \in Nat /\ lent' \in [PoolUsers -> 0..created']
        /\ QueueOf(idle', created')
    <3>1. 0..created \subseteq 0..(created + n)
      BY <2>2
    <3>2. lent \in [PoolUsers -> 0..created]
      BY DEF PoolInv
    <3> QED
      BY <1>1, <2>1, <2>2, <2>3, <2>4, <3>1, <3>2
  <2>9. /\ asking' \subseteq PoolUsers /\ \A v \in asking' : lent'[v] = 0
        /\ IsFiniteSet(Lent') /\ (closing' => disturbed') /\ disturbed' \in BOOLEAN
    BY <1>1, <2>1 DEF PoolInv
  <2> QED
    BY <1>1, <2>1, <2>7, <2>8, <2>9 DEF PoolInv
<1> QED
  BY <1>2, <1>3

LEMMA TakeConnectionKeeps == ASSUME PoolInv, NEW u \in PoolUsers, TakeConnection(u) PROVE PoolInv'
<1>1. /\ u \in asking /\ idle # <<>> /\ asking' = asking \ {u} /\ lent[u] = 0
      /\ initialized' = initialized /\ closedConns' = closedConns /\ closing' = closing
  BY DEF TakeConnection, PoolInv
<1>2. created \in Nat /\ QueueOf(idle, created)
  BY DEF PoolInv
<1> DEFINE c == Head(idle)
           rest == Tail(idle)
<1>3. /\ QueueOf(rest, created)
      /\ c \in 1..created /\ Queued(idle, c) /\ ~Queued(rest, c)
      /\ \A d : Queued(rest, d) => Queued(idle, d)
      /\ Len(idle) \in Nat \ {0} /\ Len(rest) = Len(idle) - 1
  BY <1>1, <1>2, TakingQueues
<1> HIDE DEF c, rest
<1>4. CASE c \notin closedConns
  <2>1. /\ lent' = [lent EXCEPT ![u] = c] /\ idle' = rest /\ created' = created
        /\ disturbed' = disturbed
    BY <1>4 DEF TakeConnection, c, rest
  <2>2. /\ Lent' = Lent \cup {u} /\ IsFiniteSet(Lent')
        /\ Cardinality(Lent) \in Nat /\ Cardinality(Lent') = Cardinality(Lent) + 1
    <3>1. c \in Nat \ {0} /\ u \in PoolUsers
      BY <1>2, <1>3
    <3>2. lent \in [PoolUsers -> Nat] /\ IsFiniteSet(Lent)
      BY PoolFacts DEF PoolInv
    <3> QED
      BY <1>1, <2>1, <3>1, <3>2, OneMoreLent
  <2>3. lent \in [PoolUsers -> 0..created]
    BY DEF PoolInv
  <2>4. lent'[u] = c /\ \A v \in PoolUsers \ {u} : lent'[v] = lent[v]
    BY <2>1, <2>3
  <2>5. \A v \in Lent : v # u /\ v \in PoolUsers /\ lent[v] # c /\ ~Queued(idle, lent[v])
    BY <1>1, <1>3, PoolFacts
  <2>6. /\ \A v \in Lent' : lent'[v] \notin closedConns'
        /\ \A v, w \in Lent' : v # w => lent'[v] # lent'[w]
    BY <1>1, <1>4, <2>2, <2>4, <2>5 DEF PoolInv, PoolIsWhole
  <2>7. \A v \in Lent' : ~Queued(idle', lent'[v])
    BY <1>3, <2>1, <2>2, <2>4, <2>5
  <2>8. initialized' /\ ~disturbed' => Len(idle') + Cardinality(Lent') = PoolSize
    <3>1. initialized /\ ~disturbed => Len(idle) + Cardinality(Lent) = PoolSize
      BY DEF PoolInv, PoolIsWhole
    <3> QED
      BY <3>1, <1>1, <1>3, <2>1, <2>2
  <2>9. PoolIsWhole'
    BY <2>6, <2>7, <2>8 DEF PoolIsWhole, Queued
  <2>10. lent' \in [PoolUsers -> 0..created']
    BY <1>2, <1>3, <2>1, <2>3
  <2>11. \A v \in asking' : lent'[v] = 0
    BY <1>1, <2>4 DEF PoolInv
  <2> QED
    BY <1>1, <1>3, <2>1, <2>2, <2>9, <2>10, <2>11 DEF PoolInv
<1>5. CASE c \in closedConns
  <2>1. Replaced(rest, c) /\ lent' = lent /\ Lent' = Lent
    BY <1>5 DEF TakeConnection, c, rest, Lent
  <2>2. /\ created' \in Nat /\ created <= created' /\ QueueOf(idle', created')
        /\ \A d : Queued(idle', d) => Queued(rest, d) \/ d = c \/ d = created + 1
        /\ disturbed' \in BOOLEAN /\ (disturbed => disturbed')
        /\ ~disturbed' => ~disturbed /\ (Len(rest) < PoolSize => Len(idle') = Len(rest) + 1)
    BY <1>2, <1>3, <2>1, ReplacedQueues DEF PoolInv
  <2>3. Len(idle) <= PoolSize /\ PoolSize \in Nat
    BY <1>2, PoolAssumption DEF QueueOf
  <2>4. ~disturbed' => Len(idle') = Len(idle)
    BY <1>3, <2>2, <2>3
  <2>5. \A v \in Lent' : ~Queued(idle', lent'[v])
    <3>1. \A v \in Lent : ~Queued(idle, lent[v]) /\ lent[v] \in 1..created
      BY PoolFacts
    <3> QED
      BY <3>1, <1>2, <1>3, <2>1, <2>2
  <2>6. PoolIsWhole'
    <3>1. /\ \A v \in Lent' : lent'[v] \notin closedConns'
          /\ \A v, w \in Lent' : v # w => lent'[v] # lent'[w]
      BY <1>1, <2>1 DEF PoolInv, PoolIsWhole
    <3>2. initialized' /\ ~disturbed' => Len(idle') + Cardinality(Lent') = PoolSize
      BY <1>1, <2>1, <2>2, <2>4 DEF PoolInv, PoolIsWhole
    <3> QED
      BY <3>1, <3>2, <2>5 DEF PoolIsWhole, Queued
  <2>7. lent' \in [PoolUsers -> 0..created']
    <3>1. 0..created \subseteq 0..created'
      BY <1>2, <2>2
    <3> QED
      BY <2>1, <3>1 DEF PoolInv
  <2>8. /\ asking' \subseteq PoolUsers /\ \A v \in asking' : lent'[v] = 0
        /\ IsFiniteSet(Lent') /\ (closing' => disturbed')
    BY <1>1, <2>1, <2>2 DEF PoolInv
  <2>9. ~initialized' /\ ~disturbed' => created' = 0
    <3> SUFFICES ASSUME ~initialized', ~disturbed' PROVE FALSE
      OBVIOUS
    <3>1. created = 0
      BY <1>1, <2>2 DEF PoolInv
    <3> QED
      BY <3>1, <1>3
  <2> QED
    BY <1>1, <2>2, <2>6, <2>7, <2>8, <2>9 DEF PoolInv
<1> QED
  BY <1>4, <1>5

LEMMA GetTimesOutKeeps == ASSUME PoolInv, NEW u \in PoolUsers, GetTimesOut(u) PROVE PoolInv'
<1>1. /\ asking' = asking \ {u}
      /\ UNCHANGED <<idle, lent, initialized, created, closedConns, closing, disturbed>>
  BY DEF GetTimesOut
<1>2. Lent' = Lent
  BY <1>1 DEF Lent
<1>3. PoolIsWhole'
  BY <1>1, <1>2 DEF PoolInv, PoolIsWhole
<1>4. asking' \subseteq PoolUsers /\ \A v \in asking' : lent'[v] = 0
  BY <1>1 DEF PoolInv
<1>5. QueueOf(idle', created')
  BY <1>1 DEF PoolInv
<1> QED
  BY <1>1, <1>2, <1>3, <1>4, <1>5 DEF PoolInv

LEMMA BodyEndsKeeps == ASSUME PoolInv, NEW u \in PoolUsers, BodyEnds(u) PROVE PoolInv'
<1>1. /\ lent[u] # 0 /\ idle' = PutBack(idle, lent[u]) /\ lent' = [lent EXCEPT ![u] = 0]
      /\ UNCHANGED <<asking, initialized, created, closedConns, closing, disturbed>>
  BY DEF BodyEnds
<1>2. lent[u] \in 1..created /\ u \in Lent /\ ~Queued(idle, lent[u])
  BY <1>1, PoolFacts
<1>3. created \in Nat /\ QueueOf(idle, created) /\ lent \in [PoolUsers -> 0..created]
  BY DEF PoolInv
<1>4. /\ QueueOf(PutBack(idle, lent[u]), created)
      /\ \A d : Queued(PutBack(idle, lent[u]), d) => Queued(idle, d) \/ d = lent[u]
      /\ Len(idle) < PoolSize => Len(PutBack(idle, lent[u])) = Len(idle) + 1
  BY <1>2, <1>3, PutBackQueues
<1>5. /\ Lent' = Lent \ {u} /\ IsFiniteSet(Lent')
      /\ Cardinality(Lent) \in Nat \ {0} /\ Cardinality(Lent') = Cardinality(Lent) - 1
  <2>1. lent \in [PoolUsers -> Nat] /\ IsFiniteSet(Lent)
    BY PoolFacts DEF PoolInv
  <2> QED
    BY <1>1, <2>1, OneFewerLent
<1>6. \A v \in Lent' : lent'[v] = lent[v] /\ v \in Lent /\ v # u
  BY <1>1, <1>3, <1>5, PoolFacts
<1>7. /\ \A v \in Lent' : lent'[v] \notin closedConns'
      /\ \A v, w \in Lent' : v # w => lent'[v] # lent'[w]
  BY <1>1, <1>6 DEF PoolInv, PoolIsWhole
<1>8. \A v \in Lent' : ~Queued(idle', lent'[v])
  <2> TAKE v \in Lent'
  <2>1. lent[v] # lent[u]
    BY <1>2, <1>6 DEF PoolInv, PoolIsWhole
  <2>2. ~Queued(idle, lent[v])
    BY <1>6, PoolFacts
  <2> QED
    BY <1>1, <1>4, <1>6, <2>1, <2>2
<1>9. initialized' /\ ~disturbed' => Len(idle') + Cardinality(Lent') = PoolSize
  <2> SUFFICES ASSUME initialized', ~disturbed' PROVE Len(idle') + Cardinality(Lent') = PoolSize
    OBVIOUS
  <2>1. Len(idle) + Cardinality(Lent) = PoolSize
    BY <1>1 DEF PoolInv, PoolIsWhole
  <2>2. Len(idle) < PoolSize /\ Len(idle) \in Nat
    BY <1>5, <2>1, PoolFacts
  <2>3. Len(idle') = Len(idle) + 1
    BY <1>1, <1>4, <2>2
  <2> QED
    BY <1>5, <2>1, <2>2, <2>3
<1>10. PoolIsWhole'
  BY <1>7, <1>8, <1>9 DEF PoolIsWhole, Queued
<1>11. /\ lent' \in [PoolUsers -> 0..created'] /\ \A v \in asking' : lent'[v] = 0
  <2>1. 0 \in 0..created
    BY <1>3
  <2> QED
    BY <1>1, <1>3, <2>1 DEF PoolInv
<1>12. QueueOf(idle', created')
  BY <1>1, <1>4
<1> QED
  BY <1>1, <1>5, <1>10, <1>11, <1>12 DEF PoolInv

LEMMA BodyFailsKeeps == ASSUME PoolInv, NEW u \in PoolUsers, BodyFails(u) PROVE PoolInv'
<1>1. /\ lent[u] # 0 /\ lent' = [lent EXCEPT ![u] = 0]
      /\ closedConns' = closedConns \cup {lent[u]}
      /\ Replaced(idle, lent[u])
      /\ UNCHANGED <<asking, initialized, closing>>
  BY DEF BodyFails
<1>2. lent[u] \in 1..created /\ u \in Lent /\ ~Queued(idle, lent[u])
  BY <1>1, PoolFacts
<1>3. created \in Nat /\ QueueOf(idle, created) /\ lent \in [PoolUsers -> 0..created]
      /\ disturbed \in BOOLEAN
  BY DEF PoolInv
<1>4. /\ created' \in Nat /\ created <= created' /\ QueueOf(idle', created')
      /\ \A d : Queued(idle', d) => Queued(idle, d) \/ d = lent[u] \/ d = created + 1
      /\ disturbed' \in BOOLEAN /\ (disturbed => disturbed')
      /\ ~disturbed' => ~disturbed /\ (Len(idle) < PoolSize => Len(idle') = Len(idle) + 1)
  BY <1>1, <1>2, <1>3, ReplacedQueues
<1>5. /\ Lent' = Lent \ {u} /\ IsFiniteSet(Lent')
      /\ Cardinality(Lent) \in Nat \ {0} /\ Cardinality(Lent') = Cardinality(Lent) - 1
  <2>1. lent \in [PoolUsers -> Nat] /\ IsFiniteSet(Lent)
    BY PoolFacts DEF PoolInv
  <2> QED
    BY <1>1, <2>1, OneFewerLent
<1>6. \A v \in Lent' : lent'[v] = lent[v] /\ v \in Lent /\ v # u
  BY <1>1, <1>3, <1>5, PoolFacts
<1>7. \A v \in Lent' : lent[v] # lent[u] /\ lent[v] \notin closedConns
  BY <1>2, <1>6 DEF PoolInv, PoolIsWhole
<1>8. /\ \A v \in Lent' : lent'[v] \notin closedConns'
      /\ \A v, w \in Lent' : v # w => lent'[v] # lent'[w]
  BY <1>1, <1>6, <1>7 DEF PoolInv, PoolIsWhole
<1>9. \A v \in Lent' : ~Queued(idle', lent'[v])
  <2> TAKE v \in Lent'
  <2>1. ~Queued(idle, lent[v]) /\ lent[v] \in 1..created
    BY <1>6, PoolFacts
  <2>2. lent[v] # created + 1
    BY <1>3, <2>1
  <2> QED
    BY <1>4, <1>6, <1>7, <2>1, <2>2
<1>10. initialized' /\ ~disturbed' => Len(idle') + Cardinality(Lent') = PoolSize
  <2> SUFFICES ASSUME initialized', ~disturbed' PROVE Len(idle') + Cardinality(Lent') = PoolSize
    OBVIOUS
  <2>1. Len(idle) + Cardinality(Lent) = PoolSize
    BY <1>1, <1>4 DEF PoolInv, PoolIsWhole
  <2>2. Len(idle) < PoolSize /\ Len(idle) \in Nat
    BY <1>5, <2>1, PoolFacts
  <2>3. Len(idle') = Len(idle) + 1
    BY <1>4, <2>2
  <2> QED
    BY <1>5, <2>1, <2>2, <2>3
<1>11. PoolIsWhole'
  BY <1>8, <1>9, <1>10 DEF PoolIsWhole, Queued
<1>12. lent' \in [PoolUsers -> 0..created'] /\ \A v \in asking' : lent'[v] = 0
  <2>1. 0 \in 0..created' /\ 0..created \subseteq 0..created'
    BY <1>3, <1>4
  <2>2. lent' \in [PoolUsers -> 0..created']
    BY <1>1, <1>3, <2>1
  <2>3. \A v \in asking : v \in PoolUsers /\ lent[v] = 0
    BY DEF PoolInv
  <2> QED
    BY <1>1, <1>3, <2>2, <2>3
<1>13. ~initialized' /\ ~disturbed' => created' = 0
  <2> SUFFICES ASSUME ~initialized', ~disturbed' PROVE FALSE
    OBVIOUS
  <2>1. created = 0
    BY <1>1, <1>4 DEF PoolInv
  <2> QED
    BY <1>2, <2>1
<1>14. asking' \subseteq PoolUsers /\ (closing' => disturbed') /\ closing' \in BOOLEAN
       /\ initialized' \in BOOLEAN
  BY <1>1, <1>4 DEF PoolInv
<1> QED
  BY <1>4, <1>5, <1>11, <1>12, <1>13, <1>14 DEF PoolInv

LEMMA DrainKeeps == ASSUME PoolInv, Drain PROVE PoolInv'
<1>1. /\ closing' = TRUE /\ idle' = <<>> /\ disturbed' = TRUE
      /\ closedConns' = closedConns \cup {idle[i] : i \in DOMAIN idle}
      /\ UNCHANGED <<lent, asking, initialized, created>>
  BY DEF Drain
<1>2. Lent' = Lent
  BY <1>1 DEF Lent
<1>3. QueueOf(idle', created')
  <2>1. <<>> \in Seq(1..created) /\ Len(<<>>) = 0 /\ DOMAIN <<>> = {}
    OBVIOUS
  <2>2. PoolSize \in Nat
    BY PoolAssumption
  <2> QED
    BY <1>1, <2>1, <2>2 DEF QueueOf
<1>4. \A v \in Lent' : lent'[v] \notin closedConns'
  <2>1. \A v \in Lent : ~Queued(idle, lent[v]) /\ lent[v] \notin closedConns
    BY PoolFacts DEF PoolInv, PoolIsWhole
  <2> QED
    BY <1>1, <1>2, <2>1 DEF Queued
<1>5. PoolIsWhole'
  <2>1. \A v, w \in Lent' : v # w => lent'[v] # lent'[w]
    BY <1>1, <1>2 DEF PoolInv, PoolIsWhole
  <2>2. \A v \in Lent' : \A i \in DOMAIN idle' : idle'[i] # lent'[v]
    BY <1>1
  <2> QED
    BY <1>1, <1>4, <2>1, <2>2 DEF PoolIsWhole
<1>6. /\ lent' \in [PoolUsers -> 0..created'] /\ asking' \subseteq PoolUsers
      /\ \A v \in asking' : lent'[v] = 0
  BY <1>1 DEF PoolInv
<1> QED
  BY <1>1, <1>2, <1>3, <1>5, <1>6 DEF PoolInv

LEMMA PoolStutters ==
    ASSUME PoolInv, UNCHANGED <<idle, lent, asking, created, closedConns, disturbed>>,
           \/ UNCHANGED <<initialized, closing>>
           \/ initialized' = FALSE /\ closing' = FALSE /\ closing
    PROVE  PoolInv'
<1>1. Lent' = Lent
  BY DEF Lent
<1>2. initialized' \in BOOLEAN /\ closing' \in BOOLEAN /\ (closing' => disturbed')
      /\ (~initialized' /\ ~disturbed' => created' = 0)
  <2>1. CASE UNCHANGED <<initialized, closing>>
    BY <2>1 DEF PoolInv
  <2>2. CASE initialized' = FALSE /\ closing' = FALSE /\ closing
    <3>1. disturbed'
      BY <2>2 DEF PoolInv
    <3> QED
      BY <2>2, <3>1
  <2> QED
    BY <2>1, <2>2
<1>3. PoolIsWhole'
  BY <1>1 DEF PoolInv, PoolIsWhole
<1>4. QueueOf(idle', created')
  BY DEF PoolInv
<1> QED
  BY <1>1, <1>2, <1>3, <1>4 DEF PoolInv

LEMMA PoolStep == PoolInv /\ (PoolNext \/ UNCHANGED poolVars) => PoolInv'
<1> SUFFICES ASSUME PoolInv, PoolNext \/ UNCHANGED poolVars PROVE PoolInv'
  OBVIOUS
<1>1. CASE ClearFlag
  BY <1>1, PoolStutters DEF ClearFlag
<1>2. CASE UNCHANGED poolVars
  BY <1>2, PoolStutters DEF poolVars
<1>3. CASE PoolNext
  BY <1>1, <1>3, InitializeKeeps, TakeConnectionKeeps, GetTimesOutKeeps, BodyEndsKeeps,
     BodyFailsKeeps, DrainKeeps DEF PoolNext
<1> QED
  BY <1>2, <1>3

-----------------------------------------------------------------------------
(* The schema (storage/database.py): what lies before the statement a       *)
(* process is at has been done, by itself or by another.                    *)

SchemaInv ==
    /\ tables \subseteq Tables /\ columns \subseteq NewColumns /\ overlooked \in BOOLEAN
    /\ object \in [Openers -> {"absent", "building", "raised", "ready"}]
    /\ at \in [Openers -> 1..(TableCount + ColumnCount + 1)]
    /\ \A o \in Openers :
          /\ \A t \in Tables : t < at[o] => t \in tables
          /\ \A c \in NewColumns : TableCount + c < at[o] => c \in columns \/ overlooked
          /\ \/ object[o] = "building"
             \/ at[o] = 1
             \/ object[o] = "ready" /\ at[o] = TableCount + ColumnCount + 1

LEMMA SchemaNumbers ==
    /\ TableCount \in Nat \ {0} /\ ColumnCount \in Nat
    /\ Tables = 1..TableCount /\ NewColumns = 1..ColumnCount
    /\ SessionsTable \in Tables
<1>1. TableCount \in Nat /\ ColumnCount \in Nat
  BY StorageAssumption, FS_CardinalityType DEF TableCount, ColumnCount
<1>2. Tables = 1..TableCount /\ NewColumns = 1..ColumnCount /\ SessionsTable \in Tables
  BY StorageAssumption DEF TableCount, ColumnCount
<1>3. TableCount # 0
  BY <1>2
<1> QED
  BY <1>1, <1>2, <1>3

LEMMA SchemaStart == StorageInit => SchemaInv
<1> SUFFICES ASSUME StorageInit PROVE SchemaInv
  OBVIOUS
<1>1. /\ tables \subseteq Tables /\ columns \subseteq NewColumns
      /\ object = [o \in Openers |-> "absent"] /\ at = [o \in Openers |-> 1]
      /\ overlooked = FALSE
  BY DEF StorageInit
<1>2. 1 \in 1..(TableCount + ColumnCount + 1)
  BY SchemaNumbers
<1>3. \A o \in Openers : /\ \A t \in Tables : ~(t < at[o])
                         /\ \A c \in NewColumns : ~(TableCount + c < at[o])
                         /\ at[o] = 1
  BY <1>1, SchemaNumbers
<1> QED
  BY <1>1, <1>2, <1>3 DEF SchemaInv

(* A process moves on by one statement, having done that one. *)
LEMMA StatementIsDone ==
    ASSUME SchemaInv, NEW o \in Openers, object[o] = "building", object' = object,
           at[o] <= TableCount + ColumnCount, at' = [at EXCEPT ![o] = @ + 1],
           tables \subseteq tables', tables' \subseteq Tables, columns' \subseteq NewColumns,
           overlooked' \in BOOLEAN, overlooked => overlooked',
           columns \subseteq columns' \/ overlooked',
           at[o] \in Tables => at[o] \in tables',
           \A c \in NewColumns : at[o] = TableCount + c => c \in columns' \/ overlooked'
    PROVE  SchemaInv'
<1>1. /\ at \in [Openers -> 1..(TableCount + ColumnCount + 1)]
      /\ at[o] \in Nat \ {0}
  BY SchemaNumbers DEF SchemaInv
<1>2. /\ at' \in [Openers -> 1..(TableCount + ColumnCount + 1)]
      /\ at'[o] = at[o] + 1 /\ \A p \in Openers \ {o} : at'[p] = at[p]
  BY <1>1, SchemaNumbers
<1>3. ASSUME NEW p \in Openers, NEW t \in Tables, t < at'[p] PROVE t \in tables'
  <2>1. t \in Nat
    BY SchemaNumbers
  <2>2. CASE p # o
    BY <2>2, <1>2, <1>3 DEF SchemaInv
  <2>3. CASE p = o
    <3>1. t < at[o] \/ t = at[o]
      BY <2>1, <2>3, <1>1, <1>2, <1>3
    <3> QED
      BY <3>1 DEF SchemaInv
  <2> QED
    BY <2>2, <2>3
<1>4. ASSUME NEW p \in Openers, NEW c \in NewColumns, TableCount + c < at'[p]
      PROVE  c \in columns' \/ overlooked'
  <2>1. c \in Nat /\ TableCount \in Nat
    BY SchemaNumbers
  <2>2. CASE p # o
    BY <2>2, <1>2, <1>4 DEF SchemaInv
  <2>3. CASE p = o
    <3>1. TableCount + c < at[o] \/ at[o] = TableCount + c
      BY <2>1, <2>3, <1>1, <1>2, <1>4
    <3> QED
      BY <3>1 DEF SchemaInv
  <2> QED
    BY <2>2, <2>3
<1>5. \A p \in Openers : \/ object'[p] = "building"
                         \/ at'[p] = 1
                         \/ object'[p] = "ready" /\ at'[p] = TableCount + ColumnCount + 1
  BY <1>2 DEF SchemaInv
<1>6. object' \in [Openers -> {"absent", "building", "raised", "ready"}]
  BY DEF SchemaInv
<1> QED
  BY <1>2, <1>3, <1>4, <1>5, <1>6, StorageAssumption DEF SchemaInv, TableCount, ColumnCount

(* A process begins again, or another object of it is there. *)
LEMMA SchemaIsLeft ==
    ASSUME SchemaInv, NEW o \in Openers, NEW s \in {"absent", "building", "raised", "ready"},
           object' = [object EXCEPT ![o] = s],
           UNCHANGED <<tables, columns, overlooked>>,
           \/ at' = [at EXCEPT ![o] = 1]
           \/ /\ at' = at
              /\ \/ s = "building" \/ at[o] = 1
                 \/ s = "ready" /\ at[o] = TableCount + ColumnCount + 1
    PROVE  SchemaInv'
<1>1. 1 \in 1..(TableCount + ColumnCount + 1)
  BY SchemaNumbers
<1>2. /\ at \in [Openers -> 1..(TableCount + ColumnCount + 1)]
      /\ object \in [Openers -> {"absent", "building", "raised", "ready"}]
  BY DEF SchemaInv
<1>3. /\ at' \in [Openers -> 1..(TableCount + ColumnCount + 1)]
      /\ object' \in [Openers -> {"absent", "building", "raised", "ready"}]
      /\ object'[o] = s
      /\ \A p \in Openers \ {o} : at'[p] = at[p] /\ object'[p] = object[p]
      /\ at'[o] = 1 \/ at'[o] = at[o]
  BY <1>1, <1>2
<1>4. \A p \in Openers : at'[p] = 1 \/ at'[p] = at[p]
  BY <1>3
<1>5. /\ \A t \in Tables : ~(t < 1)
      /\ \A c \in NewColumns : ~(TableCount + c < 1)
  BY SchemaNumbers
<1>6. \A p \in Openers :
          /\ \A t \in Tables : t < at'[p] => t \in tables'
          /\ \A c \in NewColumns : TableCount + c < at'[p] => c \in columns' \/ overlooked'
  BY <1>4, <1>5 DEF SchemaInv
<1>7. ASSUME NEW p \in Openers
      PROVE  \/ object'[p] = "building"
             \/ at'[p] = 1
             \/ object'[p] = "ready" /\ at'[p] = TableCount + ColumnCount + 1
  <2>1. CASE p # o
    BY <2>1, <1>3 DEF SchemaInv
  <2>2. CASE p = o /\ at' = [at EXCEPT ![o] = 1]
    BY <2>2, <1>2
  <2>3. CASE p = o /\ at' = at
    BY <2>2, <2>3, <1>3
  <2> QED
    BY <2>1, <2>2, <2>3
<1>8. /\ tables' \subseteq Tables /\ columns' \subseteq NewColumns /\ overlooked' \in BOOLEAN
  BY DEF SchemaInv
<1> QED
  BY <1>3, <1>6, <1>7, <1>8 DEF SchemaInv, TableCount, ColumnCount

LEMMA SchemaStep == SchemaInv /\ (SchemaNext \/ UNCHANGED storageVars) => SchemaInv'
<1> SUFFICES ASSUME SchemaInv, SchemaNext \/ UNCHANGED storageVars PROVE SchemaInv'
  OBVIOUS
<1>1. ASSUME NEW o \in Openers, Construct(o) PROVE SchemaInv'
  <2>1. /\ object[o] \in {"absent", "raised"}
        /\ object' = [object EXCEPT ![o] = IF object[o] = "absent" THEN "building" ELSE "ready"]
        /\ UNCHANGED <<tables, columns, at, overlooked>>
    BY <1>1 DEF Construct
  <2>2. at[o] = 1
    BY <2>1 DEF SchemaInv
  <2>3. PICK s \in {"absent", "building", "raised", "ready"} :
           object' = [object EXCEPT ![o] = s]
    BY <2>1
  <2> QED
    BY <2>1, <2>2, <2>3, SchemaIsLeft
<1>2. ASSUME NEW o \in Openers, OpenerDies(o) PROVE SchemaInv'
  <2>1. /\ object' = [object EXCEPT ![o] = "absent"] /\ at' = [at EXCEPT ![o] = 1]
        /\ UNCHANGED <<tables, columns, overlooked>>
    BY <1>2 DEF OpenerDies
  <2> QED
    BY <2>1, SchemaIsLeft
<1>3. ASSUME NEW o \in Openers, EnsureSchema(o) PROVE SchemaInv'
  <2>1. object[o] = "building" /\ at[o] \in 1..(TableCount + ColumnCount + 1) /\ at[o] \in Nat
    BY <1>3 DEF EnsureSchema, SchemaInv
  <2>2. CASE at[o] <= TableCount
    <3>1. CreateTable(o) \/ ScriptRaises(o)
      <4>1. ~(at[o] \in TableCount + 1 .. TableCount + ColumnCount)
        BY <2>1, <2>2, SchemaNumbers
      <4> QED
        BY <1>3, <2>2, <4>1 DEF EnsureSchema
    <3>2. CASE CreateTable(o)
      <4>1. /\ tables' = tables \cup {at[o]}
            /\ columns' = columns \/ columns' = NewColumns
            /\ at' = [at EXCEPT ![o] = @ + 1]
            /\ object' = object /\ overlooked' = overlooked
        BY <3>2 DEF CreateTable
      <4>2. /\ at[o] \in Tables /\ at[o] <= TableCount + ColumnCount
            /\ \A c \in NewColumns : at[o] # TableCount + c
        BY <2>1, <2>2, SchemaNumbers
      <4>3. tables \subseteq Tables /\ columns \subseteq NewColumns /\ overlooked \in BOOLEAN
        BY DEF SchemaInv
      <4> QED
        BY <2>1, <4>1, <4>2, <4>3, StatementIsDone
    <3>3. CASE ScriptRaises(o)
      <4>1. /\ object' = [object EXCEPT ![o] = "raised"] /\ at' = [at EXCEPT ![o] = 1]
            /\ UNCHANGED <<tables, columns, overlooked>>
        BY <3>3 DEF ScriptRaises
      <4> QED
        BY <4>1, SchemaIsLeft
    <3> QED
      BY <3>1, <3>2, <3>3
  <2>3. CASE at[o] \in TableCount + 1 .. TableCount + ColumnCount
    <3>1. ~(at[o] <= TableCount)
      BY <2>1, <2>3, SchemaNumbers
    <3>2. AddColumn(o)
      BY <1>3, <2>3, <3>1 DEF EnsureSchema
    <3>3. PICK c : c = at[o] - TableCount
      OBVIOUS
    <3>4. /\ at' = [at EXCEPT ![o] = @ + 1]
          /\ \/ columns' = columns \cup {c} /\ overlooked' = overlooked
             \/ overlooked' = (overlooked \/ c \notin columns) /\ columns' = columns
          /\ tables' = tables /\ object' = object
      BY <3>2, <3>3 DEF AddColumn
    <3>5. /\ c \in NewColumns /\ at[o] \notin Tables /\ at[o] <= TableCount + ColumnCount
          /\ \A d \in NewColumns : at[o] = TableCount + d => d = c
      BY <2>1, <2>3, <3>3, SchemaNumbers
    <3>6. tables \subseteq Tables /\ columns \subseteq NewColumns /\ overlooked \in BOOLEAN
      BY DEF SchemaInv
    <3>7. /\ columns \subseteq columns' /\ columns' \subseteq NewColumns
          /\ overlooked' \in BOOLEAN /\ (overlooked => overlooked')
          /\ c \in columns' \/ overlooked'
      BY <3>4, <3>5, <3>6
    <3> QED
      BY <2>1, <3>4, <3>5, <3>6, <3>7, StatementIsDone
  <2>4. CASE ~(at[o] <= TableCount) /\ ~(at[o] \in TableCount + 1 .. TableCount + ColumnCount)
    <3>1. /\ object' = [object EXCEPT ![o] = "ready"]
          /\ UNCHANGED <<tables, columns, at, overlooked>>
      BY <1>3, <2>4 DEF EnsureSchema
    <3>2. at[o] = TableCount + ColumnCount + 1
      BY <2>1, <2>4, SchemaNumbers
    <3> QED
      BY <3>1, <3>2, SchemaIsLeft
  <2> QED
    BY <2>2, <2>3, <2>4
<1>4. CASE UNCHANGED storageVars
  BY <1>4 DEF storageVars, SchemaInv
<1>5. CASE SchemaNext
  BY <1>1, <1>2, <1>3, <1>5 DEF SchemaNext
<1> QED
  BY <1>4, <1>5

LEMMA SchemaIsRight == SchemaInv => SchemaIsComplete
<1> SUFFICES ASSUME SchemaInv, NEW o \in Openers, object[o] = "ready", at[o] > TableCount
             PROVE  tables = Tables /\ (columns = NewColumns \/ overlooked)
  BY DEF SchemaIsComplete
<1>1. at[o] = TableCount + ColumnCount + 1
  BY SchemaNumbers DEF SchemaInv
<1>2. /\ \A t \in Tables : t < at[o]
      /\ \A c \in NewColumns : TableCount + c < at[o]
  BY <1>1, SchemaNumbers
<1> QED
  BY <1>2 DEF SchemaInv

-----------------------------------------------------------------------------
(* Recovery (storage/recovery.py).                                          *)

RecoveryInv ==
    /\ calls \in Seq(Call)
    /\ NothingHalfDone

LEMMA RecoveryStart == StorageInit => RecoveryInv
<1> SUFFICES ASSUME StorageInit PROVE RecoveryInv
  OBVIOUS
<1>1. calls = <<>> /\ process = "running"
  BY DEF StorageInit
<1>2. <<>> \in Seq(Call) /\ DOMAIN <<>> = {}
  OBVIOUS
<1> QED
  BY <1>1, <1>2 DEF RecoveryInv, NothingHalfDone

LEMMA RecordCallKeeps ==
    ASSUME RecoveryInv, NEW kind \in {"reads", "changes"}, RecordCall(kind)
    PROVE  RecoveryInv'
<1> DEFINE c == [kind |-> kind, success |-> "unknown"]
<1>1. /\ calls' = Append(calls, c) /\ process' = "running"
      /\ InFlight => process = "resumed"
  BY DEF RecordCall
<1>2. calls \in Seq(Call) /\ c \in Call
  BY DEF RecoveryInv, Call
<1> HIDE DEF c
<1>3. PICK t : t = Append(calls, c)
  OBVIOUS
<1>4. /\ t \in Seq(Call) /\ Len(calls) \in Nat /\ DOMAIN calls = 1..Len(calls)
      /\ DOMAIN t = 1..(Len(calls) + 1) /\ Len(t) = Len(calls) + 1
      /\ \A i \in DOMAIN calls : t[i] = calls[i]
  BY <1>2, <1>3, BlockAppended
<1>5. \A i \in DOMAIN calls : calls[i] # [kind |-> "changes", success |-> "unknown"]
  <2> SUFFICES ASSUME NEW i \in DOMAIN calls,
                      calls[i] = [kind |-> "changes", success |-> "unknown"]
               PROVE  FALSE
    OBVIOUS
  <2>1. i = Len(calls) /\ process # "resumed"
    BY DEF RecoveryInv, NothingHalfDone
  <2>2. calls # <<>>
    BY <1>2
  <2>3. InFlight
    BY <2>1, <2>2 DEF InFlight, LastCall
  <2> QED
    BY <1>1, <2>1, <2>3
<1>6. \A i \in DOMAIN t : t[i] = [kind |-> "changes", success |-> "unknown"] => i = Len(t)
  BY <1>4, <1>5
<1> QED
  BY <1>1, <1>3, <1>4, <1>6 DEF RecoveryInv, NothingHalfDone

LEMMA RecordResultKeeps ==
    ASSUME RecoveryInv, NEW s \in {"yes", "no"}, RecordResult(s)
    PROVE  RecoveryInv'
<1>1. /\ process = "running" /\ process' = process /\ InFlight
      /\ calls' = [calls EXCEPT ![Len(calls)].success = s]
  BY DEF RecordResult
<1>2. PICK t : t = calls'
  OBVIOUS
<1>3. calls \in Seq(Call) /\ calls # <<>>
  BY <1>1 DEF RecoveryInv, InFlight
<1>4. Len(calls) \in DOMAIN calls /\ DOMAIN calls = 1..Len(calls) /\ Len(calls) \in Nat
      /\ \A i \in DOMAIN calls : calls[i] \in Call
  BY <1>3
<1>5. /\ t = [calls EXCEPT ![Len(calls)] = [calls[Len(calls)] EXCEPT !.success = s]]
      /\ [calls[Len(calls)] EXCEPT !.success = s] \in Call
  BY <1>1, <1>2, <1>4 DEF Call
<1>6. t \in Seq(Call) /\ Len(t) = Len(calls) /\ DOMAIN t = DOMAIN calls
      /\ \A i \in DOMAIN calls : i # Len(calls) => t[i] = calls[i]
  BY <1>3, <1>4, <1>5
<1>7. \A i \in DOMAIN t : t[i] = [kind |-> "changes", success |-> "unknown"] => i = Len(t)
  BY <1>6 DEF RecoveryInv, NothingHalfDone
<1> QED
  BY <1>1, <1>2, <1>6, <1>7 DEF RecoveryInv, NothingHalfDone

LEMMA RecoveryStep == RecoveryInv /\ (RecoveryNext \/ UNCHANGED storageVars) => RecoveryInv'
<1> SUFFICES ASSUME RecoveryInv, RecoveryNext \/ UNCHANGED storageVars PROVE RecoveryInv'
  OBVIOUS
<1>1. CASE RunEnds \/ RunCrashes \/ RollBackRun
  BY <1>1 DEF RunEnds, RunCrashes, RollBackRun, RecoveryInv, NothingHalfDone
<1>2. CASE OnStartup \/ UNCHANGED storageVars
  BY <1>2 DEF OnStartup, storageVars, RecoveryInv, NothingHalfDone
<1>3. CASE ResumeRun
  <2>1. process' = "resumed" /\ calls' = calls /\ Reconcile = "resume" /\ calls \in Seq(Call)
    BY <1>3 DEF ResumeRun, RecoveryInv
  <2>2. calls # <<>> => LastCall(calls).success = "yes" \/ LastCall(calls).kind = "reads"
    BY <2>1 DEF Reconcile
  <2>3. ASSUME NEW i \in DOMAIN calls, calls[i] = [kind |-> "changes", success |-> "unknown"]
        PROVE  FALSE
    <3>1. i = Len(calls) /\ calls # <<>>
      BY <2>1, <2>3 DEF RecoveryInv, NothingHalfDone
    <3> QED
      BY <2>2, <2>3, <3>1 DEF LastCall
  <2> QED
    BY <2>1, <2>2, <2>3 DEF RecoveryInv, NothingHalfDone
<1>4. CASE RecoveryNext
  BY <1>1, <1>2, <1>3, <1>4, RecordCallKeeps, RecordResultKeeps DEF RecoveryNext
<1> QED
  BY <1>2, <1>4

-----------------------------------------------------------------------------
(* The filesystem engine (tools/filesystem.py): every write has a content and *)
(* so a temporary file of its own; and while engines take turns, whoever is   *)
(* about to cut into the file has its copy in the backup.                     *)

Steps == {"read", "backup", "backing", "temp", "move", "copy", "copying", "tidy", "unlink"}
IsStep(kind, step) ==
    \/ step \in {"backup", "backing"}
    \/ step \in {"temp", "move", "copying", "tidy"} /\ kind \in Writing
    \/ step = "read" /\ kind = "patch"
    \/ step \in {"copy", "copying"} /\ kind = "copy"
    \/ step = "unlink" /\ kind = "delete"

(* What an engine may be in the middle of when v contents were made. *)
OpFits(r, v) ==
    \/ r = NoOp
    \/ /\ r \in [kind : FileOps, at : Steps, content : Nat]
       /\ IsStep(r.kind, r.at)
       /\ r.kind \in Writing => r.content \in 2..v
       /\ r.kind \notin Writing => r.content \in {0, 1}
       /\ r.kind = "copy" => r.content = 1

OpsFit ==
    /\ versions \in Nat \ {0} /\ copySource = 1 /\ exposed \in BOOLEAN
    /\ fileCrashes \in Nat /\ lastWhole \in Nat
    /\ file \in Int /\ file <= versions
    /\ temps \subseteq 2..versions
    /\ DOMAIN op = Engines /\ op = [e \in Engines |-> op[e]]
    /\ \A e \in Engines : OpFits(op[e], versions)

(* Where the content of a write is, among the file f and the temporary files t. *)
Placed(r, f, t) ==
    /\ r.at \in {"read", "backup", "backing", "temp"} => r.content \notin t
    /\ r.at = "move" => r.content \in t
    /\ r.at # "tidy" => r.content # f

Tidying == \E e \in Engines : op[e].at = "tidy" /\ op[e].content = file

TempsInv ==
    /\ file \in temps => fileCrashes > 0 \/ Tidying
    /\ \A e \in Engines : op[e].kind \in Writing => Placed(op[e], file, temps)
    /\ \A e, f \in Engines :
          /\ op[e].kind \in Writing /\ op[f].kind \in Writing
          /\ op[e].content = op[f].content
          => e = f

(* The file, its backup and what the only engine that is busy is doing. *)
IsSaved == lastWhole = NoFile \/ backup = lastWhole
Covered(r) ==
    /\ IsSaved \/ file = lastWhole
    /\ file \in {NoFile, Torn, lastWhole}
    /\ r.at = "backing" => file = lastWhole
    /\ r.at \in {"copy", "copying", "unlink"} => IsSaved
    /\ r.at \in {"temp", "move"} /\ r.kind # "overwrite" => IsSaved

TurnsTaken ==
    /\ \A e, f \in Busy : e = f
    /\ \A e \in Busy : Covered(op[e])
    /\ Busy = {} => Covered(NoOp)

SafeFilesInv == OpsFit /\ TempsInv /\ (~exposed => TurnsTaken)

LEMMA SafeFilesStart == SafeFilesInit => SafeFilesInv
<1> SUFFICES ASSUME SafeFilesInit PROVE SafeFilesInv
  OBVIOUS
<1>1. /\ file = 0 /\ backup = 0 /\ copySource = 1 /\ versions = 1 /\ temps = {}
      /\ op = [e \in Engines |-> NoOp] /\ lastWhole = 0 /\ exposed = FALSE /\ fileCrashes = 0
  BY DEF SafeFilesInit, NoFile
<1>2. \A e \in Engines : op[e] = NoOp /\ op[e].kind = "none"
  BY <1>1 DEF NoOp
<1>3. Busy = {}
  BY <1>2 DEF Busy
<1>4. Covered(NoOp)
  BY <1>1 DEF Covered, IsSaved, NoOp, NoFile, Torn
<1>5. OpsFit
  <2>1. DOMAIN op = Engines /\ op = [e \in Engines |-> op[e]]
    BY <1>1
  <2>2. \A e \in Engines : OpFits(op[e], versions)
    BY <1>2 DEF OpFits
  <2>3. versions \in Nat \ {0} /\ temps \subseteq 2..versions /\ file \in Int /\ file <= versions
    BY <1>1
  <2> QED
    BY <1>1, <2>1, <2>2, <2>3 DEF OpsFit
<1>6. TempsInv
  BY <1>1, <1>2 DEF TempsInv, Writing
<1> QED
  BY <1>3, <1>4, <1>5, <1>6 DEF SafeFilesInv, TurnsTaken

LEMMA FilesAre ==
    ASSUME SafeFilesInv
    PROVE  /\ versions \in Nat \ {0} /\ copySource = 1 /\ exposed \in BOOLEAN
           /\ fileCrashes \in Nat /\ lastWhole \in Nat
           /\ file \in Int /\ file <= versions /\ Torn = -1 /\ NoFile = 0
           /\ temps \subseteq 2..versions
           /\ Torn \notin temps /\ NoFile \notin temps /\ 1 \notin temps
           /\ op = [f \in Engines |-> op[f]] /\ DOMAIN op = Engines
<1>1. versions \in Nat \ {0} /\ temps \subseteq 2..versions /\ Torn = -1 /\ NoFile = 0
  BY DEF SafeFilesInv, OpsFit, Torn, NoFile
<1>2. Torn \notin temps /\ NoFile \notin temps /\ 1 \notin temps
  BY <1>1
<1> QED
  BY <1>1, <1>2 DEF SafeFilesInv, OpsFit

(* What is known of an engine that is busy at some stage. *)
LEMMA OpIs ==
    ASSUME SafeFilesInv, NEW e \in Engines, op[e].at # "none"
    PROVE  /\ op[e] # NoOp
           /\ op[e] \in [kind : FileOps, at : Steps, content : Nat]
           /\ IsStep(op[e].kind, op[e].at)
           /\ op[e].kind \in Writing => op[e].content \in 2..versions /\ Placed(op[e], file, temps)
           /\ op[e].kind \notin Writing => op[e].content \in {0, 1}
           /\ op[e].kind = "copy" => op[e].content = 1
           /\ op[e].content <= versions
           /\ \A f \in Engines \ {e} : op[f].kind \in Writing => op[f].content # op[e].content
           /\ ~exposed => /\ Covered(op[e]) /\ Busy = {e}
                          /\ \A f \in Engines \ {e} : op[f] = NoOp
<1>1. op[e] # NoOp
  BY DEF NoOp
<1>2. e \in Busy
  BY <1>1 DEF Busy
<1>3. /\ op[e] \in [kind : FileOps, at : Steps, content : Nat]
      /\ IsStep(op[e].kind, op[e].at)
      /\ op[e].kind \in Writing => op[e].content \in 2..versions
      /\ op[e].kind \notin Writing => op[e].content \in {0, 1}
      /\ op[e].kind = "copy" => op[e].content = 1
  BY <1>1 DEF SafeFilesInv, OpsFit, OpFits
<1>4. op[e].kind \in Writing => Placed(op[e], file, temps)
  BY DEF SafeFilesInv, TempsInv
<1>5. ~exposed => Covered(op[e]) /\ Busy = {e} /\ \A f \in Engines \ {e} : op[f] = NoOp
  BY <1>2 DEF SafeFilesInv, TurnsTaken, Busy
<1>6. op[e].content <= versions
  BY <1>3, FilesAre
<1>7. ASSUME NEW f \in Engines \ {e}, op[f].kind \in Writing PROVE op[f].content # op[e].content
  <2>1. CASE op[e].kind \in Writing
    BY <1>7, <2>1 DEF SafeFilesInv, TempsInv
  <2>2. CASE op[e].kind \notin Writing
    <3>1. op[f] # NoOp
      BY <1>7 DEF NoOp, Writing
    <3>2. op[f].content \in 2..versions /\ op[e].content \in {0, 1}
      BY <1>3, <1>7, <2>2, <3>1 DEF SafeFilesInv, OpsFit, OpFits
    <3> QED
      BY <3>2, FilesAre
  <2> QED
    BY <2>1, <2>2
<1> QED
  BY <1>1, <1>3, <1>4, <1>5, <1>6, <1>7

(* One engine goes on, or is done: c is the content it writes. *)
LEMMA OneEngineMoves ==
    ASSUME SafeFilesInv, NEW e \in Engines, NEW r, NEW c, op' = [op EXCEPT ![e] = r],
           \A f \in Engines \ {e} : op[f].kind \in Writing => op[f].content # c,
           versions' \in Nat, versions <= versions', copySource' = copySource,
           exposed' \in BOOLEAN, exposed => exposed',
           fileCrashes' \in Nat, lastWhole' \in Nat,
           OpFits(r, versions'), r.kind \in Writing => r.content = c,
           file' \in {file, NoFile, Torn, c}, file' \in Int, file' <= versions',
           temps' \in {temps, temps \cup {c}, temps \ {c}}, temps' \subseteq 2..versions',
           file' \in temps' => fileCrashes' > 0 \/ Tidying',
           r.kind \in Writing => Placed(r, file', temps'),
           ~exposed' => Covered(r)' /\ \A f \in Engines \ {e} : op[f] = NoOp
    PROVE  SafeFilesInv'
<1>1. DOMAIN op = Engines /\ op = [f \in Engines |-> op[f]]
  BY DEF SafeFilesInv, OpsFit
<1>2. /\ DOMAIN op' = Engines /\ op' = [f \in Engines |-> op'[f]]
      /\ op'[e] = r /\ \A f \in Engines \ {e} : op'[f] = op[f]
  BY <1>1
<1>3. versions \in Nat \ {0} /\ versions' \in Nat \ {0} /\ Torn = -1 /\ NoFile = 0
  BY FilesAre
<1>4. OpsFit'
  <2>1. ASSUME NEW f \in Engines \ {e} PROVE OpFits(op'[f], versions')
    <3>1. OpFits(op[f], versions) /\ op'[f] = op[f]
      BY <1>2, <2>1 DEF SafeFilesInv, OpsFit
    <3>2. 2..versions \subseteq 2..versions'
      BY <1>3
    <3> QED
      BY <3>1, <3>2 DEF OpFits
  <2>2. \A f \in Engines : OpFits(op'[f], versions')
    BY <1>2, <2>1
  <2>3. copySource' = 1
    BY FilesAre
  <2> QED
    BY <1>2, <1>3, <2>2, <2>3 DEF OpsFit
<1>5. TempsInv'
  <2>1. ASSUME NEW f \in Engines \ {e}, op[f].kind \in Writing
        PROVE  Placed(op[f], file', temps')
    <3>1. op[f] # NoOp
      BY <2>1 DEF NoOp, Writing
    <3>2. op[f].content \in 2..versions /\ op[f].content # c /\ Placed(op[f], file, temps)
      BY <2>1, <3>1 DEF SafeFilesInv, OpsFit, OpFits, TempsInv
    <3>3. op[f].content # NoFile /\ op[f].content # Torn
      BY <1>3, <3>2
    <3>4. op[f].content # file => op[f].content # file'
      BY <3>2, <3>3
    <3>5. op[f].content \in temps' <=> op[f].content \in temps
      BY <3>2
    <3> QED
      BY <3>2, <3>4, <3>5 DEF Placed
  <2>2. \A f \in Engines : op'[f].kind \in Writing => Placed(op'[f], file', temps')
    BY <1>2, <2>1
  <2>3. \A f \in Engines \ {e} : op'[f].kind \in Writing =>
            op[f].kind \in Writing /\ op'[f].content = op[f].content /\ op'[f].content # c
    BY <1>2
  <2>4. \A f, g \in Engines :
          /\ op'[f].kind \in Writing /\ op'[g].kind \in Writing
          /\ op'[f].content = op'[g].content
          => f = g
    BY <1>2, <2>3 DEF SafeFilesInv, TempsInv
  <2> QED
    BY <2>2, <2>4 DEF TempsInv
<1>6. ~exposed' => TurnsTaken'
  <2> SUFFICES ASSUME ~exposed' PROVE TurnsTaken'
    OBVIOUS
  <2>1. \A f \in Engines \ {e} : op'[f] = NoOp
    BY <1>2
  <2>2. Busy' \subseteq {e}
    BY <2>1 DEF Busy
  <2>3. Covered(r)' /\ (e \in Busy' <=> r # NoOp)
    BY <1>2 DEF Busy
  <2>4. Covered(op[e])'
    BY <1>2, <2>3 DEF Covered
  <2>5. ASSUME Busy' = {} PROVE Covered(NoOp)'
    BY <2>3, <2>5 DEF Covered
  <2> QED
    BY <2>2, <2>4, <2>5 DEF TurnsTaken
<1> QED
  BY <1>4, <1>5, <1>6 DEF SafeFilesInv

LEMMA BeginFileOpKeeps ==
    ASSUME SafeFilesInv, NEW e \in Engines, NEW kind \in FileOps, BeginFileOp(e, kind)
    PROVE  SafeFilesInv'
<1> DEFINE k == CASE kind \in Writing -> versions + 1 [] kind = "copy" -> copySource [] OTHER -> NoFile
           a == CASE kind = "patch" -> "read" [] kind = "overwrite" -> "temp" [] OTHER -> "backup"
<1>1. PICK r : r = [kind |-> kind, at |-> a, content |-> k]
  OBVIOUS
<1>2. /\ op[e] = NoOp /\ op' = [op EXCEPT ![e] = r]
      /\ versions' = IF kind \in Writing THEN versions + 1 ELSE versions
      /\ exposed' = (exposed \/ Busy # {})
      /\ UNCHANGED <<file, backup, copySource, temps, fileCrashes, lastWhole>>
  BY <1>1 DEF BeginFileOp
<1>3. /\ versions \in Nat \ {0} /\ file \in Int /\ file <= versions /\ temps \subseteq 2..versions
      /\ fileCrashes \in Nat /\ lastWhole \in Nat /\ copySource = 1 /\ NoFile = 0 /\ Torn = -1
  BY FilesAre
<1>4. /\ r.kind = kind /\ r.content = k /\ r.at = a
      /\ r = [kind |-> r.kind, at |-> r.at, content |-> r.content]
  BY <1>1
<1>5. /\ kind \in Writing => k = versions + 1
      /\ kind \notin Writing => k \in {0, 1}
      /\ kind = "copy" => k = 1
      /\ k \in Nat
  BY <1>3 DEF Writing, FileOps
<1>6. a \in Steps /\ IsStep(kind, a) /\ a \in {"read", "backup", "temp"} /\ (a = "temp" => kind = "overwrite")
  BY DEF Steps, IsStep, FileOps, Writing
<1> HIDE DEF k, a
<1>7. versions' \in Nat /\ versions <= versions' /\ 2..versions \subseteq 2..versions'
      /\ file' <= versions' /\ (kind \in Writing => k \in 2..versions')
  BY <1>2, <1>3, <1>5
<1>8. OpFits(r, versions')
  BY <1>4, <1>5, <1>6, <1>7 DEF OpFits
<1>9. PICK c : c = versions + 1
  OBVIOUS
<1>10. \A f \in Engines \ {e} : op[f].kind \in Writing => op[f].content # c
  <2> SUFFICES ASSUME NEW f \in Engines, op[f].kind \in Writing PROVE op[f].content # c
    OBVIOUS
  <2>1. op[f] # NoOp
    BY DEF NoOp, Writing
  <2>2. op[f].content \in 2..versions
    BY <2>1 DEF SafeFilesInv, OpsFit, OpFits
  <2> QED
    BY <1>3, <1>9, <2>2
<1>11. c \notin temps /\ c # file
  BY <1>3, <1>9
<1>12. r.kind \in Writing => r.content = c /\ Placed(r, file', temps')
  BY <1>2, <1>4, <1>5, <1>6, <1>9, <1>11 DEF Placed
<1>13. file' \in temps' => fileCrashes' > 0 \/ Tidying'
  <2> SUFFICES ASSUME file \in temps, ~(fileCrashes > 0) PROVE Tidying'
    BY <1>2
  <2>1. PICK f \in Engines : op[f].at = "tidy" /\ op[f].content = file
    BY DEF SafeFilesInv, TempsInv, Tidying
  <2>2. f # e
    BY <1>2, <2>1 DEF NoOp
  <2>3. op'[f] = op[f]
    BY <1>2, <2>2, FilesAre
  <2> QED
    BY <1>2, <2>1, <2>3 DEF Tidying
<1>14. ~exposed' => Covered(r)' /\ \A f \in Engines \ {e} : op[f] = NoOp
  <2> SUFFICES ASSUME ~exposed' PROVE Covered(r)' /\ \A f \in Engines \ {e} : op[f] = NoOp
    OBVIOUS
  <2>1. ~exposed /\ Busy = {}
    BY <1>2
  <2>2. Covered(NoOp) /\ \A f \in Engines : op[f] = NoOp
    BY <2>1 DEF SafeFilesInv, TurnsTaken, Busy
  <2> QED
    BY <1>2, <1>4, <1>6, <2>2 DEF Covered, IsSaved
<1>15. temps' \subseteq 2..versions' /\ file' \in Int /\ exposed' \in BOOLEAN
  BY <1>2, <1>3, <1>7
<1>16. /\ fileCrashes' \in Nat /\ lastWhole' \in Nat /\ copySource' = copySource /\ (exposed => exposed')
       /\ file' \in {file, NoFile, Torn, c} /\ temps' \in {temps, temps \cup {c}, temps \ {c}}
  BY <1>2, <1>3
<1> QED
  BY <1>2, <1>7, <1>8, <1>10, <1>12, <1>13, <1>14, <1>15, <1>16, OneEngineMoves

(* A busy engine takes a step: what is left to show of it. *)
LEMMA BusyEngineMoves ==
    ASSUME SafeFilesInv, NEW e \in Engines, op[e].at # "none", NEW r, op' = [op EXCEPT ![e] = r],
           \/ r = NoOp
           \/ /\ r = [op[e] EXCEPT !.at = r.at]
              /\ r.at \in Steps /\ IsStep(op[e].kind, r.at),
           versions' = versions, copySource' = copySource,
           exposed' \in BOOLEAN, exposed => exposed',
           fileCrashes' \in Nat, fileCrashes' >= fileCrashes, lastWhole' \in Nat,
           file' \in {file, NoFile, Torn, op[e].content},
           temps' \in {temps, temps \cup {op[e].content}, temps \ {op[e].content}},
           op[e].content \in temps' => op[e].content \in temps \/ op[e].kind \in Writing,
           file' = op[e].content =>
              \/ op[e].content \notin temps' \/ r.at = "tidy" \/ fileCrashes' > 0,
           r # NoOp /\ op[e].kind \in Writing => Placed(r, file', temps'),
           ~exposed' => Covered(r)'
    PROVE  SafeFilesInv'
<1>1. PICK c : c = op[e].content
  OBVIOUS
<1>2. /\ op[e] \in [kind : FileOps, at : Steps, content : Nat]
      /\ op[e].kind \in Writing => c \in 2..versions
      /\ op[e].kind \notin Writing => c \in {0, 1}
      /\ op[e].kind = "copy" => c = 1
      /\ c <= versions
      /\ \A f \in Engines \ {e} : op[f].kind \in Writing => op[f].content # c
      /\ ~exposed => \A f \in Engines \ {e} : op[f] = NoOp
  BY <1>1, OpIs
<1>3. /\ versions \in Nat \ {0} /\ file \in Int /\ file <= versions /\ temps \subseteq 2..versions
      /\ NoFile = 0 /\ Torn = -1 /\ Torn \notin temps /\ NoFile \notin temps /\ 1 \notin temps
      /\ op = [f \in Engines |-> op[f]] /\ fileCrashes \in Nat
  BY FilesAre
<1>4. r # NoOp => r.kind = op[e].kind /\ r.content = c
                  /\ r \in [kind : FileOps, at : Steps, content : Nat]
  BY <1>1, <1>2
<1>5. NoOp.kind \notin Writing /\ NoOp.at = "none"
  BY DEF NoOp, Writing
<1>6. r.kind \in Writing => r.content = c /\ Placed(r, file', temps')
  BY <1>4, <1>5
<1>7. OpFits(r, versions')
  <2>1. CASE r = NoOp
    BY <2>1 DEF OpFits
  <2>2. CASE r # NoOp
    <3>1. IsStep(r.kind, r.at)
      BY <1>4, <2>2
    <3> QED
      BY <1>2, <1>4, <2>2, <3>1 DEF OpFits
  <2> QED
    BY <2>1, <2>2
<1>8. temps' \subseteq 2..versions'
  BY <1>1, <1>2, <1>3
<1>9. file' \in Int /\ file' <= versions' /\ file' \in {file, NoFile, Torn, c}
  BY <1>1, <1>2, <1>3
<1>10. file' \in temps' => fileCrashes' > 0 \/ Tidying'
  <2> SUFFICES ASSUME file' \in temps', ~(fileCrashes' > 0) PROVE Tidying'
    OBVIOUS
  <2>1. op'[e] = r /\ \A f \in Engines \ {e} : op'[f] = op[f]
    BY <1>3
  <2>2. file' # NoFile /\ file' # Torn
    BY <1>3, <1>8
  <2>3. CASE file' = c
    <3>1. r.at = "tidy" /\ r.content = c
      BY <1>1, <1>4, <1>5, <2>3
    <3> QED
      BY <2>1, <2>3, <3>1 DEF Tidying
  <2>4. CASE file' = file /\ file' # c
    <3>1. file \in temps /\ ~(fileCrashes > 0)
      BY <1>1, <1>3, <2>4
    <3>2. PICK f \in Engines : op[f].at = "tidy" /\ op[f].content = file
      BY <3>1 DEF SafeFilesInv, TempsInv, Tidying
    <3>3. f # e
      BY <1>1, <2>4, <3>2
    <3> QED
      BY <2>1, <2>4, <3>2, <3>3 DEF Tidying
  <2> QED
    BY <1>9, <2>2, <2>3, <2>4
<1>11. ~exposed' => Covered(r)' /\ \A f \in Engines \ {e} : op[f] = NoOp
  BY <1>2
<1>12. temps' \in {temps, temps \cup {c}, temps \ {c}} /\ versions' \in Nat /\ versions <= versions'
  BY <1>1, <1>3
<1>13. \A f \in Engines \ {e} : op[f].kind \in Writing => op[f].content # c
  BY Zenon, <1>2
<1>14. file' \in Int /\ file' <= versions' /\ file' \in {file, NoFile, Torn, c}
  BY Zenon, <1>9
<1>15. r.kind \in Writing => r.content = c
  BY Zenon, <1>6
<1>16. r.kind \in Writing => Placed(r, file', temps')
  BY Zenon, <1>6
<1> QED
  BY Zenon, <1>7, <1>8, <1>10, <1>11, <1>12, <1>13, <1>14, <1>15, <1>16, OneEngineMoves

(* The engine goes on to another step, ... *)
LEMMA EngineGoes ==
    ASSUME SafeFilesInv, NEW e \in Engines, op[e].at # "none", NEW a \in Steps, Goes(e, a)
    PROVE  \E r : /\ op' = [op EXCEPT ![e] = r] /\ r # NoOp
                  /\ r.at = a /\ r.kind = op[e].kind /\ r.content = op[e].content
                  /\ r = [op[e] EXCEPT !.at = r.at]
<1>1. PICK r : r = [op[e] EXCEPT !.at = a]
  OBVIOUS
<1>2. op[e] \in [kind : FileOps, at : Steps, content : Nat]
  BY OpIs
<1>3. r.at = a /\ r.kind = op[e].kind /\ r.content = op[e].content /\ a # "none"
  BY <1>1, <1>2 DEF Steps
<1>4. r # NoOp
  BY <1>3 DEF NoOp
<1>5. op' = [op EXCEPT ![e] = r]
  BY <1>1, FilesAre DEF Goes
<1>6. r = [op[e] EXCEPT !.at = r.at]
  BY <1>1, <1>3
<1> QED
  BY <1>3, <1>4, <1>5, <1>6

(* ... with the files and the temporary files as they are, ... *)
LEMMA GoingOnKeeps ==
    ASSUME SafeFilesInv, NEW e \in Engines, op[e].at # "none",
           NEW a \in Steps, IsStep(op[e].kind, a), Goes(e, a),
           UNCHANGED <<file, copySource, temps, versions, fileCrashes, lastWhole>>,
           exposed' \in BOOLEAN, exposed => exposed',
           op[e].at \notin {"move", "copying", "tidy"}, a \notin {"move", "copying", "tidy"},
           ~exposed' => \A r : r.at = a /\ r.kind = op[e].kind => Covered(r)'
    PROVE  SafeFilesInv'
<1>1. PICK r : /\ op' = [op EXCEPT ![e] = r] /\ r # NoOp
               /\ r.at = a /\ r.kind = op[e].kind /\ r.content = op[e].content
               /\ r = [op[e] EXCEPT !.at = r.at]
  BY EngineGoes
<1>2. /\ op[e] \in [kind : FileOps, at : Steps, content : Nat]
      /\ IsStep(op[e].kind, op[e].at)
      /\ op[e].kind \in Writing => Placed(op[e], file, temps)
      /\ op[e].kind \notin Writing => op[e].content \in {0, 1}
  BY OpIs
<1>3. op[e].kind \in Writing => /\ op[e].content \notin temps /\ op[e].content # file
                                /\ Placed(r, file', temps')
  <2> SUFFICES ASSUME op[e].kind \in Writing
               PROVE  /\ op[e].content \notin temps /\ op[e].content # file
                      /\ Placed(r, file', temps')
    OBVIOUS
  <2>1. op[e].at \in {"read", "backup", "backing", "temp"}
    BY <1>2 DEF IsStep, Writing
  <2>2. op[e].content \notin temps /\ op[e].content # file
    BY <1>2, <2>1 DEF Placed
  <2> QED
    BY <1>1, <2>2 DEF Placed
<1>4. op[e].content \notin temps'
  BY <1>2, <1>3, FilesAre
<1>5. ~exposed' => Covered(r)'
  BY <1>1
<1>6. /\ fileCrashes' \in Nat /\ fileCrashes' >= fileCrashes /\ lastWhole' \in Nat
      /\ versions' = versions /\ copySource' = copySource
      /\ file' \in {file, NoFile, Torn, op[e].content}
      /\ temps' \in {temps, temps \cup {op[e].content}, temps \ {op[e].content}}
  BY FilesAre
<1> QED
  BY <1>1, <1>3, <1>4, <1>5, <1>6, BusyEngineMoves

(* ... or is done, or dies. *)
LEMMA FinishingKeeps ==
    ASSUME SafeFilesInv, NEW e \in Engines, op[e].at # "none", Finishes(e),
           versions' = versions, copySource' = copySource,
           exposed' \in BOOLEAN, exposed => exposed',
           fileCrashes' \in Nat, fileCrashes' >= fileCrashes, lastWhole' \in Nat,
           file' \in {file, NoFile, Torn, op[e].content},
           temps' \in {temps, temps \cup {op[e].content}, temps \ {op[e].content}},
           op[e].content \in temps' => op[e].content \in temps \/ op[e].kind \in Writing,
           file' = op[e].content => op[e].content \notin temps' \/ fileCrashes' > 0,
           ~exposed' => /\ IsSaved' \/ file' = lastWhole'
                        /\ file' \in {NoFile, Torn, lastWhole'}
    PROVE  SafeFilesInv'
<1>1. op' = [op EXCEPT ![e] = NoOp]
  BY DEF Finishes
<1>2. ~exposed' => Covered(NoOp)'
  BY DEF Covered, NoOp
<1> QED
  BY <1>1, <1>2, BusyEngineMoves

LEMMA ReadForPatchKeeps ==
    ASSUME SafeFilesInv, NEW e \in Engines, ReadForPatch(e)
    PROVE  SafeFilesInv'
<1>1. /\ op[e].at = "read" /\ op[e].at # "none" /\ Goes(e, "backup")
      /\ UNCHANGED <<file, backup, copySource, temps, versions, fileCrashes, lastWhole, exposed>>
  BY DEF ReadForPatch
<1>2. IsStep(op[e].kind, "backup") /\ "backup" \in Steps
  BY <1>1, OpIs DEF IsStep, Steps
<1>3. ~exposed' => \A r : r.at = "backup" /\ r.kind = op[e].kind => Covered(r)'
  BY <1>1, OpIs DEF Covered, IsSaved
<1>4. exposed' \in BOOLEAN
  BY <1>1, FilesAre
<1> QED
  BY <1>1, <1>2, <1>3, <1>4, GoingOnKeeps

LEMMA AfterBackupIs ==
    ASSUME SafeFilesInv, NEW e \in Engines, op[e].at \in {"backup", "backing"}
    PROVE  /\ AfterBackup(op[e].kind) \in {"temp", "copy", "unlink"}
           /\ AfterBackup(op[e].kind) \in Steps
           /\ IsStep(op[e].kind, AfterBackup(op[e].kind))
           /\ op[e].at # "none"
  BY OpIs DEF IsStep, AfterBackup, Writing, FileOps, Steps

LEMMA BeginBackupKeeps ==
    ASSUME SafeFilesInv, NEW e \in Engines, BeginBackup(e)
    PROVE  SafeFilesInv'
<1>1. /\ op[e].at = "backup" /\ op[e].at # "none"
      /\ UNCHANGED <<file, copySource, temps, versions, fileCrashes, lastWhole>>
  BY DEF BeginBackup
<1>2. /\ ~exposed => Covered(op[e])
      /\ op[e].content \in temps => op[e].kind \notin Writing
      /\ op[e].kind \notin Writing => op[e].content \in {0, 1}
  BY <1>1, OpIs DEF Placed
<1>3. op[e].content \notin temps
  BY <1>2, FilesAre
<1>4. PICK a : a = AfterBackup(op[e].kind)
  OBVIOUS
<1>5. a \in {"temp", "copy", "unlink"} /\ a \in Steps /\ IsStep(op[e].kind, a)
  BY <1>1, <1>4, AfterBackupIs
<1>6. CASE file = NoFile /\ op[e].kind = "delete"
  <2>1. Finishes(e) /\ UNCHANGED <<backup, exposed>>
    BY <1>6 DEF BeginBackup
  <2>2. ~exposed' => /\ IsSaved' \/ file' = lastWhole'
                     /\ file' \in {NoFile, Torn, lastWhole'}
    BY <1>1, <1>2, <2>1 DEF Covered, IsSaved
  <2>3. /\ fileCrashes' \in Nat /\ fileCrashes' >= fileCrashes /\ lastWhole' \in Nat
        /\ exposed' \in BOOLEAN /\ (exposed => exposed')
        /\ file' \in {file, NoFile, Torn, op[e].content}
        /\ temps' \in {temps, temps \cup {op[e].content}, temps \ {op[e].content}}
        /\ op[e].content \notin temps'
    BY <1>1, <1>3, <2>1, FilesAre
  <2> QED
    BY <1>1, <2>1, <2>2, <2>3, FinishingKeeps
<1>7. CASE file = NoFile /\ op[e].kind # "delete"
  <2>1. Goes(e, a) /\ UNCHANGED <<backup, exposed>>
    BY <1>4, <1>7 DEF BeginBackup
  <2>2. ~exposed' => \A r : r.at = a /\ r.kind = op[e].kind => Covered(r)'
    BY <1>1, <1>2, <1>5, <1>7, <2>1 DEF Covered, IsSaved
  <2>3. exposed' \in BOOLEAN /\ (exposed => exposed')
    BY <2>1, FilesAre
  <2> QED
    BY <1>1, <1>5, <2>1, <2>2, <2>3, GoingOnKeeps
<1>8. CASE file # NoFile
  <2>1. Goes(e, "backing") /\ backup' = Torn /\ exposed' = (exposed \/ file = Torn)
    BY <1>8 DEF BeginBackup
  <2>2. IsStep(op[e].kind, "backing") /\ "backing" \in Steps
    BY <1>1, OpIs DEF IsStep, Steps
  <2>3. ~exposed' => \A r : r.at = "backing" /\ r.kind = op[e].kind => Covered(r)'
    BY <1>1, <1>2, <1>8, <2>1 DEF Covered, IsSaved
  <2>4. exposed' \in BOOLEAN /\ (exposed => exposed')
    BY <2>1, FilesAre
  <2> QED
    BY <1>1, <2>1, <2>2, <2>3, <2>4, GoingOnKeeps
<1> QED
  BY <1>6, <1>7, <1>8

LEMMA EndBackupKeeps ==
    ASSUME SafeFilesInv, NEW e \in Engines, EndBackup(e)
    PROVE  SafeFilesInv'
<1>1. PICK a : a = AfterBackup(op[e].kind)
  OBVIOUS
<1>2. /\ op[e].at = "backing" /\ op[e].at # "none" /\ Goes(e, a)
      /\ Busy = {e} => backup' = file
      /\ UNCHANGED <<file, copySource, temps, versions, fileCrashes, lastWhole, exposed>>
  BY <1>1 DEF EndBackup
<1>3. a \in {"temp", "copy", "unlink"} /\ a \in Steps /\ IsStep(op[e].kind, a)
  BY <1>1, <1>2, AfterBackupIs
<1>4. ~exposed => backup' = file /\ Covered(op[e])
  BY <1>2, OpIs
<1>5. ~exposed' => \A r : r.at = a /\ r.kind = op[e].kind => Covered(r)'
  BY <1>2, <1>3, <1>4 DEF Covered, IsSaved
<1>6. exposed' \in BOOLEAN /\ (exposed => exposed')
  BY <1>2, FilesAre
<1> QED
  BY <1>2, <1>3, <1>5, <1>6, GoingOnKeeps

LEMMA WriteTempKeeps ==
    ASSUME SafeFilesInv, NEW e \in Engines, NEW ok \in BOOLEAN, WriteTemp(e, ok)
    PROVE  SafeFilesInv'
<1>1. /\ op[e].at = "temp" /\ op[e].at # "none" /\ temps' = temps \cup {op[e].content}
      /\ UNCHANGED <<file, backup, copySource, versions, fileCrashes, lastWhole, exposed>>
  BY DEF WriteTemp
<1>2. /\ ~exposed => Covered(op[e])
      /\ op[e].kind \in Writing /\ op[e].content # file
  BY <1>1, OpIs DEF Placed, IsStep
<1>3. /\ fileCrashes' \in Nat /\ fileCrashes' >= fileCrashes /\ lastWhole' \in Nat
      /\ versions' = versions /\ copySource' = copySource
      /\ exposed' \in BOOLEAN /\ (exposed => exposed')
      /\ file' \in {file, NoFile, Torn, op[e].content} /\ file' # op[e].content
      /\ temps' \in {temps, temps \cup {op[e].content}, temps \ {op[e].content}}
  BY <1>1, <1>2, FilesAre
<1>4. CASE Finishes(e)
  <2>1. ~exposed' => /\ IsSaved' \/ file' = lastWhole'
                     /\ file' \in {NoFile, Torn, lastWhole'}
    BY <1>1, <1>2 DEF Covered, IsSaved
  <2> QED
    BY <1>1, <1>2, <1>3, <1>4, <2>1, FinishingKeeps
<1>5. CASE Goes(e, "move")
  <2>1. "move" \in Steps /\ IsStep(op[e].kind, "move")
    BY <1>2 DEF Steps, IsStep
  <2>2. PICK r : /\ op' = [op EXCEPT ![e] = r] /\ r # NoOp
                 /\ r.at = "move" /\ r.kind = op[e].kind /\ r.content = op[e].content
                 /\ r = [op[e] EXCEPT !.at = r.at]
    BY <1>1, <1>5, <2>1, EngineGoes
  <2>3. Placed(r, file', temps')
    BY <1>1, <1>2, <2>2 DEF Placed
  <2>4. ~exposed' => Covered(r)'
    BY <1>1, <1>2, <2>2 DEF Covered, IsSaved
  <2> QED
    BY <1>1, <1>2, <1>3, <2>1, <2>2, <2>3, <2>4, BusyEngineMoves
<1> QED
  BY <1>4, <1>5 DEF WriteTemp

LEMMA MoveTempKeeps ==
    ASSUME SafeFilesInv, NEW e \in Engines, MoveTemp(e)
    PROVE  SafeFilesInv'
<1>1. /\ op[e].at = "move" /\ op[e].at # "none" /\ temps' = temps \ {op[e].content}
      /\ file' = op[e].content /\ lastWhole' = op[e].content
      /\ Finishes(e) /\ UNCHANGED <<backup, copySource, versions, fileCrashes, exposed>>
  BY DEF MoveTemp
<1>2. op[e].content \in Nat
  BY <1>1, OpIs
<1>3. /\ fileCrashes' \in Nat /\ fileCrashes' >= fileCrashes /\ lastWhole' \in Nat
      /\ exposed' \in BOOLEAN /\ (exposed => exposed')
      /\ file' \in {file, NoFile, Torn, op[e].content}
      /\ temps' \in {temps, temps \cup {op[e].content}, temps \ {op[e].content}}
      /\ op[e].content \notin temps'
  BY <1>1, <1>2, FilesAre
<1> QED
  BY <1>1, <1>3, FinishingKeeps

(* A copy into the file begins. *)
LEMMA CopyBegins ==
    ASSUME SafeFilesInv, NEW e \in Engines, op[e].at \in {"move", "copy"},
           file' = Torn, Goes(e, "copying"), exposed' \in BOOLEAN, exposed => exposed',
           ~exposed' /\ op[e].at = "move" /\ op[e].kind = "overwrite" => ~(file > NoFile),
           UNCHANGED <<backup, copySource, temps, versions, fileCrashes, lastWhole>>
    PROVE  SafeFilesInv'
<1>1. /\ ~exposed => Covered(op[e])
      /\ op[e].kind \in Writing => op[e].content \in 2..versions
      /\ op[e].kind \notin Writing => op[e].content \in {0, 1}
      /\ IsStep(op[e].kind, op[e].at) /\ op[e].at # "none"
  BY OpIs
<1>2. IsStep(op[e].kind, "copying") /\ "copying" \in Steps
  BY <1>1 DEF IsStep, Steps
<1>3. PICK r : /\ op' = [op EXCEPT ![e] = r] /\ r # NoOp
               /\ r.at = "copying" /\ r.kind = op[e].kind /\ r.content = op[e].content
               /\ r = [op[e] EXCEPT !.at = r.at]
  BY <1>1, <1>2, EngineGoes
<1>4. op[e].content # Torn
  BY <1>1, FilesAre
<1>5. op[e].kind \in Writing => Placed(r, file', temps')
  BY <1>3, <1>4 DEF Placed
<1>6. ~exposed' => IsSaved
  <2> SUFFICES ASSUME ~exposed' PROVE IsSaved
    OBVIOUS
  <2>1. Covered(op[e])
    BY <1>1
  <2>2. CASE op[e].at = "copy" \/ op[e].kind # "overwrite"
    BY <2>1, <2>2 DEF Covered
  <2>3. CASE op[e].at = "move" /\ op[e].kind = "overwrite"
    BY <2>1, <2>3, FilesAre DEF Covered, IsSaved
  <2> QED
    BY <2>2, <2>3
<1>7. ~exposed' => Covered(r)'
  BY <1>3, <1>6 DEF Covered, IsSaved
<1>8. /\ fileCrashes' \in Nat /\ fileCrashes' >= fileCrashes /\ lastWhole' \in Nat
      /\ versions' = versions /\ copySource' = copySource
      /\ file' \in {file, NoFile, Torn, op[e].content} /\ file' # op[e].content
      /\ temps' \in {temps, temps \cup {op[e].content}, temps \ {op[e].content}}
      /\ op[e].content \in temps' => op[e].content \in temps
  BY <1>4, FilesAre
<1> QED
  BY <1>1, <1>2, <1>3, <1>5, <1>7, <1>8, BusyEngineMoves

LEMMA CopyingKeeps ==
    ASSUME SafeFilesInv, NEW e \in Engines, MoveByCopy(e) \/ BeginCopy(e)
    PROVE  SafeFilesInv'
<1>1. exposed \in BOOLEAN
  BY FilesAre
<1>2. CASE MoveByCopy(e)
  <2>1. /\ op[e].at \in {"move", "copy"} /\ file' = Torn /\ Goes(e, "copying")
        /\ exposed' = (exposed \/ (op[e].kind = "overwrite" /\ file > NoFile))
        /\ UNCHANGED <<backup, copySource, temps, versions, fileCrashes, lastWhole>>
    BY <1>2 DEF MoveByCopy
  <2>2. /\ exposed' \in BOOLEAN /\ (exposed => exposed')
        /\ ~exposed' /\ op[e].at = "move" /\ op[e].kind = "overwrite" => ~(file > NoFile)
    BY <1>1, <2>1
  <2> QED
    BY Zenon, <2>1, <2>2, CopyBegins
<1>3. CASE BeginCopy(e)
  <2>1. /\ op[e].at = "copy" /\ file' = Torn /\ Goes(e, "copying") /\ exposed' = exposed
        /\ UNCHANGED <<backup, copySource, temps, versions, fileCrashes, lastWhole>>
    BY <1>3 DEF BeginCopy
  <2>2. op[e].at \in {"move", "copy"} /\ op[e].at # "move"
    BY <2>1
  <2> QED
    BY Zenon, <1>1, <2>1, <2>2, CopyBegins
<1> QED
  BY <1>2, <1>3

LEMMA EndCopyKeeps ==
    ASSUME SafeFilesInv, NEW e \in Engines, EndCopy(e)
    PROVE  SafeFilesInv'
<1>1. PICK c : c = op[e].content
  OBVIOUS
<1>2. /\ op[e].at = "copying" /\ op[e].at # "none"
      /\ file' \in {file, Torn, c} /\ (Busy = {e} => file' = c)
      /\ lastWhole' = IF file' = c THEN c ELSE lastWhole
      /\ IF op[e].kind = "copy" THEN Finishes(e) ELSE Goes(e, "tidy")
      /\ UNCHANGED <<backup, copySource, temps, versions, fileCrashes, exposed>>
  BY <1>1 DEF EndCopy
<1>3. /\ c \in Nat
      /\ op[e].kind = "copy" => c = 1
      /\ op[e].kind = "copy" \/ op[e].kind \in Writing
      /\ op[e].kind \in Writing => Placed(op[e], file, temps)
      /\ ~exposed => Busy = {e}
  BY <1>1, <1>2, OpIs DEF IsStep
<1>4. /\ fileCrashes' \in Nat /\ fileCrashes' >= fileCrashes /\ lastWhole' \in Nat
      /\ versions' = versions /\ copySource' = copySource
      /\ exposed' \in BOOLEAN /\ (exposed => exposed')
      /\ file' \in {file, NoFile, Torn, c}
      /\ temps' \in {temps, temps \cup {c}, temps \ {c}}
      /\ c \in temps' => c \in temps
  BY <1>2, <1>3, FilesAre
<1>5. ~exposed' => file' = c /\ lastWhole' = c
  BY <1>2, <1>3
<1>6. CASE op[e].kind = "copy"
  <2>1. c \notin temps'
    BY <1>2, <1>3, <1>6, FilesAre
  <2> QED
    BY <1>1, <1>2, <1>4, <1>5, <1>6, <2>1, FinishingKeeps
<1>7. CASE op[e].kind # "copy"
  <2>1. "tidy" \in Steps /\ IsStep(op[e].kind, "tidy") /\ op[e].kind \in Writing
    BY <1>3, <1>7 DEF Steps, IsStep
  <2>2. PICK r : /\ op' = [op EXCEPT ![e] = r] /\ r # NoOp
                 /\ r.at = "tidy" /\ r.kind = op[e].kind /\ r.content = op[e].content
                 /\ r = [op[e] EXCEPT !.at = r.at]
    BY <1>2, <1>7, <2>1, EngineGoes
  <2>3. Placed(r, file', temps')
    BY <2>2 DEF Placed
  <2>4. ~exposed' => Covered(r)'
    BY <1>5, <2>2 DEF Covered
  <2> QED
    BY <1>1, <1>2, <1>4, <2>1, <2>2, <2>3, <2>4, BusyEngineMoves
<1> QED
  BY <1>6, <1>7

(* The engine is done with the file and its backup as they are, removed its
   temporary file or left it. *)
LEMMA LeavingKeeps ==
    ASSUME SafeFilesInv, NEW e \in Engines, op[e].at # "none", Finishes(e),
           temps' \in {temps, temps \ {op[e].content}},
           fileCrashes' \in Nat, fileCrashes' >= fileCrashes,
           op[e].at = "tidy" => op[e].content \notin temps' \/ fileCrashes' > 0,
           UNCHANGED <<file, backup, copySource, versions, lastWhole, exposed>>
    PROVE  SafeFilesInv'
<1>1. /\ ~exposed => Covered(op[e])
      /\ op[e].kind \in Writing => Placed(op[e], file, temps)
      /\ op[e].kind \notin Writing => op[e].content \in {0, 1}
  BY OpIs
<1>2. ~exposed' => /\ IsSaved' \/ file' = lastWhole'
                   /\ file' \in {NoFile, Torn, lastWhole'}
  BY <1>1 DEF Covered, IsSaved
<1>3. file' = op[e].content => op[e].content \notin temps' \/ fileCrashes' > 0
  <2>1. CASE op[e].kind \in Writing
    BY <1>1, <2>1 DEF Placed
  <2>2. CASE op[e].kind \notin Writing
    BY <1>1, <2>2, FilesAre
  <2> QED
    BY <2>1, <2>2
<1>4. /\ lastWhole' \in Nat /\ exposed' \in BOOLEAN /\ (exposed => exposed')
      /\ file' \in {file, NoFile, Torn, op[e].content}
      /\ temps' \in {temps, temps \cup {op[e].content}, temps \ {op[e].content}}
      /\ op[e].content \in temps' => op[e].content \in temps
  BY FilesAre
<1> QED
  BY <1>2, <1>3, <1>4, FinishingKeeps

LEMMA UnlinkKeeps ==
    ASSUME SafeFilesInv, NEW e \in Engines, Unlink(e)
    PROVE  SafeFilesInv'
<1>1. /\ op[e].at = "unlink" /\ op[e].at # "none" /\ file' = NoFile /\ Finishes(e)
      /\ UNCHANGED <<backup, copySource, temps, versions, fileCrashes, lastWhole, exposed>>
  BY DEF Unlink
<1>2. /\ ~exposed => Covered(op[e])
      /\ op[e].kind \notin Writing /\ op[e].content \in {0, 1}
  BY <1>1, OpIs DEF IsStep, Writing
<1>3. ~exposed' => /\ IsSaved' \/ file' = lastWhole'
                   /\ file' \in {NoFile, Torn, lastWhole'}
  BY <1>1, <1>2 DEF Covered, IsSaved
<1>4. /\ fileCrashes' \in Nat /\ fileCrashes' >= fileCrashes /\ lastWhole' \in Nat
      /\ exposed' \in BOOLEAN /\ (exposed => exposed')
      /\ file' \in {file, NoFile, Torn, op[e].content}
      /\ temps' \in {temps, temps \cup {op[e].content}, temps \ {op[e].content}}
      /\ op[e].content \notin temps'
  BY <1>1, <1>2, FilesAre
<1> QED
  BY <1>1, <1>3, <1>4, FinishingKeeps

LEMMA SafeFilesStep == SafeFilesInv /\ SafeFilesNext => SafeFilesInv'
<1> SUFFICES ASSUME SafeFilesInv, NEW e \in Engines,
                    \/ \E kind \in FileOps : BeginFileOp(e, kind)
                    \/ ReadForPatch(e)
                    \/ BeginBackup(e) \/ EndBackup(e)
                    \/ \E ok \in BOOLEAN : WriteTemp(e, ok)
                    \/ MoveTemp(e) \/ MoveByCopy(e)
                    \/ BeginCopy(e) \/ EndCopy(e) \/ RemoveTemp(e)
                    \/ Unlink(e)
                    \/ StepRaises(e) \/ EngineDies(e)
             PROVE  SafeFilesInv'
  BY DEF SafeFilesNext
<1>1. CASE \E kind \in FileOps : BeginFileOp(e, kind)
  BY <1>1, BeginFileOpKeeps
<1>2. CASE \E ok \in BOOLEAN : WriteTemp(e, ok)
  BY <1>2, WriteTempKeeps
<1>3. fileCrashes \in Nat
  BY FilesAre
<1>4. ASSUME RemoveTemp(e) PROVE SafeFilesInv'
  <2>1. op[e].at = "tidy" /\ op[e].at # "none" /\ op[e].content \notin temps'
    BY <1>4 DEF RemoveTemp
  <2> QED
    BY <1>3, <1>4, <2>1, LeavingKeeps DEF RemoveTemp
<1>5. ASSUME op[e] # NoOp PROVE op[e].at # "none"
  BY <1>5 DEF SafeFilesInv, OpsFit, OpFits, Steps
<1>6. ASSUME StepRaises(e) PROVE SafeFilesInv'
  BY <1>3, <1>5, <1>6, LeavingKeeps DEF StepRaises
<1>7. ASSUME EngineDies(e) PROVE SafeFilesInv'
  <2>1. fileCrashes' \in Nat /\ fileCrashes' >= fileCrashes /\ fileCrashes' > 0
    BY <1>3, <1>7 DEF EngineDies
  <2> QED
    BY <1>5, <1>7, <2>1, LeavingKeeps DEF EngineDies
<1> QED
  BY <1>1, <1>2, <1>4, <1>6, <1>7, ReadForPatchKeeps, BeginBackupKeeps, EndBackupKeeps,
     MoveTempKeeps, CopyingKeeps, EndCopyKeeps, UnlinkKeeps

LEMMA SafeFilesAreSafe == SafeFilesInv => LatestIsKept /\ TempsAreMoved
<1> SUFFICES ASSUME SafeFilesInv PROVE LatestIsKept /\ TempsAreMoved
  OBVIOUS
<1>1. TempsAreMoved
  <2>1. ASSUME NEW e \in Engines, op[e].at = "move" PROVE op[e].content \in temps
    BY <2>1, OpIs DEF IsStep, Placed
  <2>2. file \in temps => fileCrashes > 0 \/ \E e \in Engines : op[e].at = "tidy"
    BY DEF SafeFilesInv, TempsInv, Tidying
  <2> QED
    BY <2>1, <2>2 DEF TempsAreMoved
<1>2. LatestIsKept
  <2> SUFFICES ASSUME ~exposed, lastWhole # NoFile PROVE lastWhole \in {file, backup}
    BY DEF LatestIsKept
  <2>1. PICK r : Covered(r)
    BY DEF SafeFilesInv, TurnsTaken
  <2> QED
    BY <2>1 DEF Covered, IsSaved
<1> QED
  BY <1>1, <1>2

-----------------------------------------------------------------------------
(* The registry of tools (tools/tool_registry.py): its counts add up, and the *)
(* file is what the registry holds.                                           *)

CatalogInv ==
    /\ catalog \in [ToolNames -> [status : ToolStatuses, calls : Nat, failures : Nat]]
    /\ FileFollowsCatalog

LEMMA CatalogStart == CatalogInit => CatalogInv
<1> SUFFICES ASSUME CatalogInit PROVE CatalogInv
  OBVIOUS
<1>1. catalog = [t \in ToolNames |-> NoTool] /\ catalogFile = catalog
  BY DEF CatalogInit
<1>2. NoTool \in [status : ToolStatuses, calls : Nat, failures : Nat] /\ NoTool.failures <= NoTool.calls
  BY DEF NoTool, ToolStatuses
<1> QED
  BY <1>1, <1>2 DEF CatalogInv, FileFollowsCatalog

LEMMA SavesKeeps ==
    ASSUME CatalogInv, NEW t \in ToolNames, NEW r \in [status : ToolStatuses, calls : Nat, failures : Nat],
           r.failures <= r.calls, NEW ok \in BOOLEAN, Saves([catalog EXCEPT ![t] = r], ok)
    PROVE  CatalogInv'
<1>1. /\ catalog' = [catalog EXCEPT ![t] = r] /\ unsavedTools' = ~ok
      /\ catalogFile' = IF ok THEN [catalog EXCEPT ![t] = r] ELSE catalogFile
  BY DEF Saves
<1>2. /\ catalog' \in [ToolNames -> [status : ToolStatuses, calls : Nat, failures : Nat]]
      /\ \A u \in ToolNames : catalog'[u].failures <= catalog'[u].calls
  BY <1>1 DEF CatalogInv, FileFollowsCatalog
<1>3. catalogFile' = catalog' \/ unsavedTools'
  BY <1>1
<1> QED
  BY <1>2, <1>3 DEF CatalogInv, FileFollowsCatalog

LEMMA CatalogStep == CatalogInv /\ RegistryStep => CatalogInv'
<1> SUFFICES ASSUME CatalogInv, RegistryStep PROVE CatalogInv'
  OBVIOUS
<1> DEFINE ToolEntries == [status : ToolStatuses, calls : Nat, failures : Nat]
<1>1. NoTool \in ToolEntries /\ NoTool.failures <= NoTool.calls
  BY DEF NoTool, ToolStatuses
<1>2. /\ catalog \in [ToolNames -> ToolEntries]
      /\ \A t \in ToolNames : catalog[t] \in ToolEntries /\ catalog[t].failures <= catalog[t].calls
  BY DEF CatalogInv, FileFollowsCatalog
<1>3. ASSUME NEW t \in ToolNames, NEW ok \in BOOLEAN, RegisterTool(t, ok) PROVE CatalogInv'
  <2>1. PICK r : r = [NoTool EXCEPT !.status = "enabled"]
    OBVIOUS
  <2>2. r \in ToolEntries /\ r.failures <= r.calls
    BY <2>1 DEF NoTool, ToolStatuses
  <2> QED
    BY <1>3, <2>1, <2>2, SavesKeeps DEF RegisterTool
<1>4. ASSUME NEW t \in ToolNames, NEW ok \in BOOLEAN, UnregisterTool(t, ok) PROVE CatalogInv'
  BY <1>1, <1>4, SavesKeeps DEF UnregisterTool
<1>5. ASSUME NEW t \in ToolNames, NEW ok \in BOOLEAN, NEW s \in ToolStatuses, SetToolStatus(t, s, ok)
      PROVE  CatalogInv'
  <2>1. PICK r : r = [catalog[t] EXCEPT !.status = s]
    OBVIOUS
  <2>2. r \in ToolEntries /\ r.failures <= r.calls
    BY <1>2, <2>1
  <2>3. [catalog EXCEPT ![t].status = s] = [catalog EXCEPT ![t] = r]
    BY <2>1
  <2> QED
    BY <1>5, <2>2, <2>3, SavesKeeps DEF SetToolStatus
<1>6. ASSUME NEW t \in ToolNames, NEW ok \in BOOLEAN, NEW success \in BOOLEAN, CountCall(t, success, ok)
      PROVE  CatalogInv'
  <2>1. PICK r : r = [catalog[t] EXCEPT !.calls = @ + 1, !.failures = IF success THEN @ ELSE @ + 1]
    OBVIOUS
  <2>2. r \in ToolEntries /\ r.failures <= r.calls
    <3>1. catalog[t] \in ToolEntries /\ catalog[t].failures <= catalog[t].calls
      BY <1>2
    <3>2. /\ r.status = catalog[t].status /\ r.calls = catalog[t].calls + 1
          /\ r.failures = IF success THEN catalog[t].failures ELSE catalog[t].failures + 1
          /\ r = [status |-> r.status, calls |-> r.calls, failures |-> r.failures]
      BY <2>1, <3>1
    <3> QED
      BY <3>1, <3>2
  <2>3. [catalog EXCEPT ![t].calls = @ + 1, ![t].failures = IF success THEN @ ELSE @ + 1]
          = [catalog EXCEPT ![t] = r]
    BY <1>2, <2>1
  <2> QED
    BY <1>6, <2>2, <2>3, SavesKeeps DEF CountCall
<1>7. ASSUME catalog' = [t \in ToolNames |-> NoTool] PROVE CatalogInv'
  <2>1. catalog' \in [ToolNames -> ToolEntries]
    BY <1>1, <1>7
  <2>2. \A t \in ToolNames : catalog'[t] = NoTool
    BY <1>7
  <2> QED
    BY <1>1, <2>1, <2>2 DEF CatalogInv, FileFollowsCatalog
<1>8. ASSUME NEW ok \in BOOLEAN, ClearCatalog(ok) PROVE CatalogInv'
  BY <1>7, <1>8 DEF ClearCatalog, Saves
<1>9. ASSUME LoadCatalog PROVE CatalogInv'
  BY <1>7, <1>9 DEF LoadCatalog
<1> HIDE DEF ToolEntries
<1> QED
  BY <1>3, <1>4, <1>5, <1>6, <1>8, <1>9 DEF RegistryStep

-----------------------------------------------------------------------------
(* API keys (api/keys.py): while one process at a time changes the file, each *)
(* key in it is the one last saved, encrypted with the one cipher; and what   *)
(* it holds was saved under its name in any case.                             *)

Edits == {"save", "remove", "saving", "removing"}
Editing(m) == editing[m].does \in Edits
Ciphering(m) == editing[m].does = "writes cipher"
Ciphers == Managers \cup {NoCipher}
KeyEntry == [key : Nat, cipher : Ciphers]
KeyTables == [KeyProviders -> KeyEntry]

KeyShapes ==
    /\ keysMade \in Nat /\ cipherFile \in Ciphers \cup {TornCipher}
    /\ cipherOf \in [Managers -> Ciphers]
    /\ DOMAIN editing = Managers /\ editing = [m \in Managers |-> editing[m]]
    /\ keysFile \in [torn : BOOLEAN, keys : KeyTables]
    /\ keysFile.torn => keysFile.keys = NoKeys
    /\ DOMAIN saved = KeyProviders /\ DOMAIN keptUnder = KeyProviders
    /\ \A m \in Managers : DOMAIN editing[m] = {"does", "provider", "keys"}
    /\ \A m \in Managers : Editing(m) =>
          editing[m].provider \in KeyProviders /\ editing[m].keys \in KeyTables

KeysWereSaved ==
    /\ \A p \in KeyProviders : keysFile.keys[p].key = 0 \/ keysFile.keys[p].key \in keptUnder[p]
    /\ \A m \in Managers : Editing(m) => \A p \in KeyProviders \ {editing[m].provider} :
          editing[m].keys[p].key = 0 \/ editing[m].keys[p].key \in keptUnder[p]

OneCipher(k, c) == k = NoKey \/ (k.cipher = c /\ c \in Managers)

KeysAreLast ==
    /\ \A m \in Managers : cipherOf[m] \in {NoCipher, cipherFile}
    /\ \A m \in Managers : Editing(m) => cipherFile \in Managers
    /\ \A m \in Managers : Ciphering(m) => cipherFile = TornCipher
    /\ \A m, q \in Managers : Ciphering(m) /\ Ciphering(q) => m = q
    /\ \A m, q \in Managers : Editing(m) /\ Editing(q) => m = q
    /\ keysFile.torn => \E m \in Managers : editing[m].does \in {"saving", "removing"}
    /\ \A p \in KeyProviders :
          /\ OneCipher(keysFile.keys[p], cipherFile)
          /\ ~keysFile.torn => keysFile.keys[p].key = saved[p]
    /\ \A m \in Managers : Editing(m) => \A p \in KeyProviders :
          /\ OneCipher(editing[m].keys[p], cipherFile)
          /\ p # editing[m].provider => editing[m].keys[p].key = saved[p]

KeysInv == KeyShapes /\ KeysWereSaved /\ (~tangled => KeysAreLast)

LEMMA NoKeysAre == NoKey \in KeyEntry /\ NoKey.key = 0 /\ NoKeys \in KeyTables
                   /\ \A p \in KeyProviders : NoKeys[p] = NoKey
  BY DEF NoKey, NoKeys, KeyEntry, KeyTables, Ciphers

LEMMA CiphersAre ==
    /\ NoCipher # TornCipher /\ NoCipher \notin Managers /\ TornCipher \notin Managers
    /\ NoKey.cipher = NoCipher
  BY KeyAssumption DEF NoCipher, TornCipher, NoKey

LEMMA KeysStart == KeysInit => KeysInv
<1> SUFFICES ASSUME KeysInit PROVE KeysInv
  OBVIOUS
<1>1. /\ cipherFile = NoCipher /\ cipherOf = [m \in Managers |-> NoCipher] /\ keysFile = WholeFile(NoKeys)
      /\ editing = [m \in Managers |-> NotEditing] /\ keysMade = 0
      /\ saved = [p \in KeyProviders |-> 0] /\ keptUnder = [p \in KeyProviders |-> {}]
  BY DEF KeysInit
<1>2. keysFile.torn = FALSE /\ keysFile.keys = NoKeys /\ keysFile \in [torn : BOOLEAN, keys : KeyTables]
  BY <1>1, NoKeysAre DEF WholeFile
<1>3. \A m \in Managers : ~Editing(m) /\ ~Ciphering(m) /\ DOMAIN editing[m] = {"does", "provider", "keys"}
  BY <1>1 DEF Editing, Ciphering, Edits, NotEditing
<1>4. KeyShapes
  BY <1>1, <1>2, <1>3 DEF KeyShapes, Ciphers
<1>5. KeysWereSaved
  BY <1>2, <1>3, NoKeysAre DEF KeysWereSaved
<1>6. KeysAreLast
  BY <1>1, <1>2, <1>3, NoKeysAre DEF KeysAreLast, OneCipher
<1> QED
  BY <1>4, <1>5, <1>6 DEF KeysInv

LEMMA KeysAreFoundThen == KeysInv => KeysAreFound
<1> SUFFICES ASSUME KeysInv, NEW m \in Managers, NEW p \in KeyProviders, cipherOf[m] # NoCipher
             PROVE  /\ ~tangled /\ ~keysFile.torn => GetKey(m, p) = saved[p]
                    /\ GetKey(m, p) # 0 => GetKey(m, p) \in keptUnder[p]
  BY DEF KeysAreFound
<1>1. LoadKeys = keysFile.keys
  BY DEF KeysInv, KeyShapes, LoadKeys
<1>2. GetKey(m, p) = IF keysFile.keys[p].cipher = cipherOf[m] THEN keysFile.keys[p].key ELSE 0
  BY <1>1 DEF GetKey
<1>3. GetKey(m, p) # 0 => GetKey(m, p) \in keptUnder[p]
  BY <1>2 DEF KeysInv, KeysWereSaved
<1>4. ASSUME ~tangled, ~keysFile.torn PROVE GetKey(m, p) = saved[p]
  <2>1. /\ OneCipher(keysFile.keys[p], cipherFile) /\ keysFile.keys[p].key = saved[p]
        /\ cipherOf[m] = cipherFile
    BY <1>4 DEF KeysInv, KeysAreLast
  <2> QED
    BY <1>2, <2>1, NoKeysAre, CiphersAre DEF OneCipher
<1> QED
  BY <1>3, <1>4

(* The file is not touched and nobody begins to edit. *)
LEMMA NobodyWrites ==
    ASSUME KeysInv, UNCHANGED <<cipherFile, keysFile, keysMade, saved, keptUnder>>,
           tangled => tangled',
           cipherOf' \in [Managers -> Ciphers],
           \A q \in Managers : cipherOf'[q] \in {NoCipher, cipherOf[q], cipherFile},
           DOMAIN editing' = Managers, editing' = [q \in Managers |-> editing'[q]],
           \A q \in Managers : DOMAIN editing'[q] = {"does", "provider", "keys"},
           \A q \in Managers : Editing(q)' => Editing(q) /\ editing'[q] = editing[q],
           \A q \in Managers : Ciphering(q)' => Ciphering(q),
           ~tangled' => \A q \in Managers :
               editing[q].does \in {"saving", "removing"} => editing'[q] = editing[q]
    PROVE  KeysInv'
<1>6. KeyShapes'
  BY DEF KeysInv, KeyShapes
<1>7. KeysWereSaved'
  BY DEF KeysInv, KeysWereSaved
<1>8. ~tangled' => KeysAreLast'
  <2> SUFFICES ASSUME ~tangled' PROVE KeysAreLast'
    OBVIOUS
  <2>1. KeysAreLast
    BY DEF KeysInv
  <2>2. \A p \in KeyProviders : OneCipher(keysFile.keys[p], cipherFile)'
    BY <2>1 DEF KeysAreLast, OneCipher
  <2>3. \A p \in KeyProviders : ~keysFile'.torn => keysFile'.keys[p].key = saved'[p]
    BY <2>1 DEF KeysAreLast
  <2>4. \A q \in Managers : Editing(q)' => \A p \in KeyProviders : OneCipher(editing[q].keys[p], cipherFile)'
    BY <2>1 DEF KeysAreLast, OneCipher
  <2>5. \A q \in Managers : Editing(q)' => \A p \in KeyProviders :
          p # editing'[q].provider => editing'[q].keys[p].key = saved'[p]
    BY <2>1 DEF KeysAreLast
  <2>6. keysFile'.torn => \E q \in Managers : editing'[q].does \in {"saving", "removing"}
    BY <2>1 DEF KeysAreLast
  <2>7. \A q \in Managers : cipherOf'[q] \in {NoCipher, cipherFile'}
    BY <2>1 DEF KeysAreLast
  <2>8. \A q \in Managers : Editing(q)' => cipherFile' \in Managers
    BY <2>1 DEF KeysAreLast
  <2>9. \A q, r \in Managers : Editing(q)' /\ Editing(r)' => q = r
    BY <2>1 DEF KeysAreLast
  <2>10. \A q \in Managers : Ciphering(q)' => cipherFile' = TornCipher
    BY <2>1 DEF KeysAreLast
  <2>11. \A q, r \in Managers : Ciphering(q)' /\ Ciphering(r)' => q = r
    BY <2>1 DEF KeysAreLast
  <2> QED
    BY <2>2, <2>3, <2>4, <2>5, <2>6, <2>7, <2>8, <2>9, <2>10, <2>11 DEF KeysAreLast
<1> QED
  BY <1>6, <1>7, <1>8 DEF KeysInv

LEMMA EditingIs ==
    ASSUME KeysInv
    PROVE  /\ DOMAIN editing = Managers /\ editing = [q \in Managers |-> editing[q]]
           /\ \A q \in Managers : DOMAIN editing[q] = {"does", "provider", "keys"}
           /\ cipherOf \in [Managers -> Ciphers] /\ cipherFile \in Ciphers \cup {TornCipher}
           /\ NotEditing.does = "nothing" /\ DOMAIN NotEditing = {"does", "provider", "keys"}
  BY DEF KeysInv, KeyShapes, NotEditing

(* Only m's entry of editing changes. *)
LEMMA EditingChanges ==
    ASSUME KeysInv, NEW m \in Managers, NEW r, editing' = [editing EXCEPT ![m] = r]
    PROVE  /\ DOMAIN editing' = Managers /\ editing' = [q \in Managers |-> editing'[q]]
           /\ editing'[m] = r /\ \A q \in Managers \ {m} : editing'[q] = editing[q]
  BY EditingIs

LEMMA FindCipherKeeps ==
    ASSUME KeysInv, NEW m \in Managers, FindCipher(m)
    PROVE  KeysInv'
<1>1. /\ cipherOf[m] = NoCipher /\ editing[m] = NotEditing
      /\ UNCHANGED <<cipherFile, keysFile, keysMade, saved, keptUnder>> /\ tangled' = tangled
      /\ \/ editing' = [editing EXCEPT ![m].does = "makes cipher"] /\ UNCHANGED cipherOf
         \/ /\ cipherFile \in Ciphers
            /\ cipherOf' = [cipherOf EXCEPT ![m] = cipherFile] /\ UNCHANGED editing
  BY EditingIs DEF FindCipher
<1>2. CASE editing' = [editing EXCEPT ![m].does = "makes cipher"] /\ UNCHANGED cipherOf
  <2>1. PICK r : r = [NotEditing EXCEPT !.does = "makes cipher"]
    OBVIOUS
  <2>2. r.does = "makes cipher" /\ DOMAIN r = {"does", "provider", "keys"}
    BY <2>1 DEF NotEditing
  <2>3. editing' = [editing EXCEPT ![m] = r]
    BY <1>1, <1>2, <2>1, EditingIs
  <2>4. /\ DOMAIN editing' = Managers /\ editing' = [q \in Managers |-> editing'[q]]
        /\ editing'[m] = r /\ \A q \in Managers \ {m} : editing'[q] = editing[q]
    BY <2>3, EditingChanges
  <2>5. ~Editing(m)' /\ ~Ciphering(m)' /\ editing[m].does \notin {"saving", "removing"}
    BY <1>1, <2>2, <2>4, EditingIs DEF Editing, Edits, Ciphering
  <2>6. \A q \in Managers : Editing(q)' => Editing(q) /\ editing'[q] = editing[q]
    BY <2>4, <2>5 DEF Editing
  <2>12. \A q \in Managers : Ciphering(q)' => Ciphering(q)
    BY <2>4, <2>5 DEF Ciphering
  <2>7. \A q \in Managers : editing[q].does \in {"saving", "removing"} => editing'[q] = editing[q]
    BY <2>4, <2>5
  <2>8. \A q \in Managers : DOMAIN editing'[q] = {"does", "provider", "keys"}
    BY <2>2, <2>4, EditingIs
  <2>9. cipherOf' \in [Managers -> Ciphers]
    BY <1>2, EditingIs
  <2>13. \A q \in Managers : cipherOf'[q] \in {NoCipher, cipherOf[q], cipherFile}
    BY <1>2
  <2> QED
    BY <1>1, <2>4, <2>6, <2>7, <2>8, <2>9, <2>12, <2>13, NobodyWrites
<1>3. CASE /\ cipherFile \in Ciphers
           /\ cipherOf' = [cipherOf EXCEPT ![m] = cipherFile] /\ UNCHANGED editing
  <2>1. cipherOf' \in [Managers -> Ciphers]
    BY <1>3, EditingIs
  <2>7. \A q \in Managers : cipherOf'[q] \in {NoCipher, cipherOf[q], cipherFile}
    BY <1>3, EditingIs
  <2>2. \A q \in Managers : Editing(q)' => Editing(q) /\ editing'[q] = editing[q]
    BY <1>3 DEF Editing
  <2>8. \A q \in Managers : Ciphering(q)' => Ciphering(q)
    BY <1>3 DEF Ciphering
  <2>3. /\ DOMAIN editing' = Managers /\ editing' = [q \in Managers |-> editing'[q]]
        /\ \A q \in Managers : DOMAIN editing'[q] = {"does", "provider", "keys"}
    BY <1>3, EditingIs
  <2>4. \A q \in Managers : editing'[q] = editing[q]
    BY <1>3
  <2>6. \A q \in Managers : editing[q].does \in {"saving", "removing"} => editing'[q] = editing[q]
    BY Zenon, <2>4
  <2> QED
    BY <1>1, <2>1, <2>2, <2>3, <2>6, <2>7, <2>8, NobodyWrites
<1> QED
  BY <1>1, <1>2, <1>3

LEMMA ManagerDiesKeeps ==
    ASSUME KeysInv, NEW m \in Managers, ManagerDies(m)
    PROVE  KeysInv'
<1>1. /\ cipherOf' = [cipherOf EXCEPT ![m] = NoCipher]
      /\ editing' = [editing EXCEPT ![m] = NotEditing]
      /\ tangled' = (tangled \/ editing[m].does \in {"saving", "removing"})
      /\ UNCHANGED <<cipherFile, keysFile, keysMade, saved, keptUnder>>
  BY DEF ManagerDies
<1>2. /\ DOMAIN editing' = Managers /\ editing' = [q \in Managers |-> editing'[q]]
      /\ editing'[m] = NotEditing /\ \A q \in Managers \ {m} : editing'[q] = editing[q]
  BY <1>1, EditingChanges
<1>3. ~Editing(m)' /\ ~Ciphering(m)'
  BY <1>2, EditingIs DEF Editing, Edits, Ciphering
<1>4. \A q \in Managers : Editing(q)' => Editing(q) /\ editing'[q] = editing[q]
  BY <1>2, <1>3 DEF Editing
<1>10. \A q \in Managers : Ciphering(q)' => Ciphering(q)
  BY <1>2, <1>3 DEF Ciphering
<1>5. ~tangled' => \A q \in Managers :
        editing[q].does \in {"saving", "removing"} => editing'[q] = editing[q]
  BY <1>1, <1>2
<1>6. cipherOf' \in [Managers -> Ciphers]
  BY <1>1, EditingIs DEF Ciphers
<1>8. \A q \in Managers : cipherOf'[q] \in {NoCipher, cipherOf[q], cipherFile}
  BY <1>1, EditingIs
<1>7. \A q \in Managers : DOMAIN editing'[q] = {"does", "provider", "keys"}
  BY <1>2, EditingIs
<1>9. tangled => tangled'
  BY <1>1
<1> QED
  BY <1>1, <1>2, <1>4, <1>5, <1>6, <1>7, <1>8, <1>9, <1>10, NobodyWrites

(* Writing the cipher: nobody edits, and nobody has a cipher while overlaps
   have not begun. *)
LEMMA CipherWritten ==
    ASSUME KeysInv, NEW m \in Managers, NEW r, editing' = [editing EXCEPT ![m] = r],
           DOMAIN r = {"does", "provider", "keys"}, r.does \notin Edits,
           editing[m].does \notin Edits,
           cipherOf' \in [Managers -> Ciphers], cipherFile' \in Ciphers \cup {TornCipher},
           ~tangled' => /\ ~tangled /\ cipherFile \notin Managers
                        /\ \A q \in Managers : cipherOf'[q] \in {NoCipher, cipherFile'}
                        /\ \A q \in Managers \ {m} : ~Ciphering(q)
                        /\ r.does = "writes cipher" => cipherFile' = TornCipher,
           UNCHANGED <<keysFile, keysMade, saved, keptUnder>>
    PROVE  KeysInv'
<1>1. /\ DOMAIN editing' = Managers /\ editing' = [q \in Managers |-> editing'[q]]
      /\ editing'[m] = r /\ \A q \in Managers \ {m} : editing'[q] = editing[q]
  BY EditingChanges
<1>2. ~Editing(m) /\ ~Editing(m)'
  BY <1>1 DEF Editing
<1>3. \A q \in Managers : Editing(q)' => Editing(q) /\ editing'[q] = editing[q]
  BY <1>1, <1>2 DEF Editing
<1>4. KeyShapes'
  <2>1. \A q \in Managers : DOMAIN editing'[q] = {"does", "provider", "keys"}
    BY <1>1, EditingIs
  <2> QED
    BY <1>1, <1>3, <2>1 DEF KeysInv, KeyShapes
<1>5. KeysWereSaved'
  BY <1>3 DEF KeysInv, KeysWereSaved
<1>6. ~tangled' => KeysAreLast'
  <2> SUFFICES ASSUME ~tangled' PROVE KeysAreLast'
    OBVIOUS
  <2>1. KeysAreLast /\ cipherFile \notin Managers
    BY DEF KeysInv
  <2>2. /\ \A q \in Managers : ~Editing(q)
        /\ \A p \in KeyProviders : keysFile.keys[p] = NoKey
        /\ ~keysFile.torn
    BY <2>1 DEF KeysAreLast, OneCipher, Editing, Edits
  <2>3. \A q \in Managers : ~Editing(q)'
    BY <1>3, <2>2
  <2>4. \A p \in KeyProviders : OneCipher(keysFile.keys[p], cipherFile)'
    BY <2>2 DEF OneCipher
  <2>5. \A p \in KeyProviders : ~keysFile'.torn => keysFile'.keys[p].key = saved'[p]
    BY <2>1 DEF KeysAreLast
  <2>6. \A q \in Managers : Ciphering(q)' => q = m /\ r.does = "writes cipher"
    BY <1>1 DEF Ciphering
  <2>7. ~keysFile'.torn
    BY <2>2
  <2>8. \A q \in Managers : Ciphering(q)' => cipherFile' = TornCipher
    BY <2>6
  <2> QED
    BY <2>3, <2>4, <2>5, <2>6, <2>7, <2>8 DEF KeysAreLast
<1> QED
  BY <1>4, <1>5, <1>6 DEF KeysInv

LEMMA OpenCipherFileKeeps ==
    ASSUME KeysInv, NEW m \in Managers, OpenCipherFile(m)
    PROVE  KeysInv'
<1>1. /\ editing[m].does = "makes cipher" /\ cipherFile' = TornCipher
      /\ editing' = [editing EXCEPT ![m].does = "writes cipher"]
      /\ tangled' = (tangled \/ cipherFile # NoCipher)
      /\ UNCHANGED <<cipherOf, keysFile, keysMade, saved, keptUnder>>
  BY DEF OpenCipherFile
<1>2. PICK r : r = [editing[m] EXCEPT !.does = "writes cipher"]
  OBVIOUS
<1>3. r.does = "writes cipher" /\ DOMAIN r = {"does", "provider", "keys"}
  BY <1>2, EditingIs
<1>4. editing' = [editing EXCEPT ![m] = r]
  BY <1>1, <1>2, EditingIs
<1>5. r.does \notin Edits /\ editing[m].does \notin Edits
  BY <1>1, <1>3 DEF Edits
<1>6. ASSUME ~tangled'
      PROVE  /\ ~tangled /\ cipherFile \notin Managers
             /\ \A q \in Managers : cipherOf'[q] \in {NoCipher, cipherFile'}
             /\ \A q \in Managers \ {m} : ~Ciphering(q)
  <2>1. ~tangled /\ cipherFile = NoCipher /\ KeysAreLast
    BY <1>1, <1>6 DEF KeysInv
  <2> QED
    BY <1>1, <2>1, CiphersAre DEF KeysAreLast
<1>7. cipherOf' \in [Managers -> Ciphers] /\ cipherFile' \in Ciphers \cup {TornCipher}
  BY <1>1, EditingIs
<1> QED
  BY <1>1, <1>3, <1>4, <1>5, <1>6, <1>7, CipherWritten

LEMMA MakeCipherKeeps ==
    ASSUME KeysInv, NEW m \in Managers, MakeCipher(m)
    PROVE  KeysInv'
<1>1. /\ editing[m].does = "writes cipher" /\ cipherFile' = m
      /\ cipherOf' = [cipherOf EXCEPT ![m] = m]
      /\ editing' = [editing EXCEPT ![m] = NotEditing]
      /\ UNCHANGED <<keysFile, keysMade, saved, keptUnder, tangled>>
  BY DEF MakeCipher
<1>2. NotEditing.does \notin Edits /\ editing[m].does \notin Edits /\ NotEditing.does # "writes cipher"
  BY <1>1, EditingIs DEF Edits
<1>3. cipherOf' \in [Managers -> Ciphers] /\ cipherFile' \in Ciphers \cup {TornCipher}
  BY <1>1, EditingIs DEF Ciphers
<1>4. ASSUME ~tangled'
      PROVE  /\ ~tangled /\ cipherFile \notin Managers
             /\ \A q \in Managers : cipherOf'[q] \in {NoCipher, cipherFile'}
             /\ \A q \in Managers \ {m} : ~Ciphering(q)
  <2>1. ~tangled /\ KeysAreLast /\ Ciphering(m)
    BY <1>1, <1>4 DEF KeysInv, Ciphering
  <2>2. cipherFile = TornCipher /\ \A q \in Managers \ {m} : ~Ciphering(q)
    BY <2>1 DEF KeysAreLast
  <2>3. \A q \in Managers : cipherOf[q] = NoCipher
    BY <2>1, <2>2, CiphersAre, EditingIs DEF KeysAreLast, Ciphers
  <2> QED
    BY <1>1, <2>1, <2>2, <2>3, CiphersAre, EditingIs
<1> QED
  BY <1>1, <1>2, <1>3, <1>4, EditingIs, CipherWritten

(* A process reads the keys and will write them back with p's changed. *)
LEMMA ReadKeysKeeps ==
    ASSUME KeysInv, NEW m \in Managers, NEW p \in KeyProviders, NEW k \in KeyEntry,
           NEW does \in {"save", "remove"}, Free(m), keysMade' \in Nat,
           k = NoKey \/ k.cipher = cipherOf[m],
           editing' = [editing EXCEPT ![m] = [does |-> does, provider |-> p,
                                              keys |-> [LoadKeys EXCEPT ![p] = k]]],
           tangled' = (tangled \/ Overlap(m)),
           UNCHANGED <<cipherFile, cipherOf, keysFile, saved, keptUnder>>
    PROVE  KeysInv'
<1>1. LoadKeys = keysFile.keys /\ keysFile.keys \in KeyTables
  BY DEF KeysInv, KeyShapes, LoadKeys
<1>2. PICK t : t = [keysFile.keys EXCEPT ![p] = k]
  OBVIOUS
<1>3. t \in KeyTables /\ t[p] = k /\ \A q \in KeyProviders \ {p} : t[q] = keysFile.keys[q]
  BY <1>1, <1>2 DEF KeyTables
<1>4. PICK r : r = [does |-> does, provider |-> p, keys |-> t]
  OBVIOUS
<1>5. editing' = [editing EXCEPT ![m] = r]
  BY <1>1, <1>2, <1>4
<1>6. /\ DOMAIN editing' = Managers /\ editing' = [q \in Managers |-> editing'[q]]
      /\ editing'[m] = r /\ \A q \in Managers \ {m} : editing'[q] = editing[q]
  BY <1>5, EditingChanges
<1>7. /\ r.does = does /\ r.provider = p /\ r.keys = t
      /\ DOMAIN r = {"does", "provider", "keys"}
  BY <1>4
<1>8. /\ ~Editing(m) /\ \A q \in Managers \ {m} : Editing(q)' <=> Editing(q)
      /\ cipherOf[m] # NoCipher /\ editing[m].does = "nothing"
      /\ ~Ciphering(m)' /\ \A q \in Managers \ {m} : Ciphering(q)' <=> Ciphering(q)
  BY <1>6, <1>7, EditingIs DEF Free, Editing, Edits, Ciphering
<1>9. KeyShapes'
  <2>1. \A q \in Managers : DOMAIN editing'[q] = {"does", "provider", "keys"}
    BY <1>6, <1>7, EditingIs
  <2>2. \A q \in Managers : Editing(q)' =>
          editing'[q].provider \in KeyProviders /\ editing'[q].keys \in KeyTables
    BY <1>3, <1>6, <1>7, <1>8 DEF KeysInv, KeyShapes
  <2> QED
    BY <1>6, <2>1, <2>2 DEF KeysInv, KeyShapes
<1>10. KeysWereSaved'
  <2>1. \A q \in Managers : Editing(q)' => \A o \in KeyProviders \ {editing'[q].provider} :
          editing'[q].keys[o].key = 0 \/ editing'[q].keys[o].key \in keptUnder'[o]
    <3>1. \A o \in KeyProviders \ {p} : t[o].key = 0 \/ t[o].key \in keptUnder[o]
      BY <1>3 DEF KeysInv, KeysWereSaved
    <3>2. \A q \in Managers \ {m} : Editing(q)' => \A o \in KeyProviders \ {editing'[q].provider} :
            editing'[q].keys[o].key = 0 \/ editing'[q].keys[o].key \in keptUnder'[o]
      BY <1>6, <1>8 DEF KeysInv, KeysWereSaved
    <3> QED
      BY <1>6, <1>7, <3>1, <3>2
  <2> QED
    BY <2>1 DEF KeysInv, KeysWereSaved
<1>11. ~tangled' => KeysAreLast'
  <2> SUFFICES ASSUME ~tangled' PROVE KeysAreLast'
    OBVIOUS
  <2>1. KeysAreLast /\ ~Overlap(m)
    BY DEF KeysInv
  <2>2. \A q \in Managers : ~Editing(q)
    BY <1>8, <2>1 DEF Overlap, Editing, Edits
  <2>3. \A q \in Managers : Editing(q)' => q = m
    BY <1>8, <2>2
  <2>4. ~keysFile.torn
    BY <2>1, <2>2 DEF KeysAreLast, Editing, Edits
  <2>5. cipherOf[m] = cipherFile /\ cipherFile \in Managers
    BY <1>8, <2>1, EditingIs DEF KeysAreLast, Ciphers
  <2>6. OneCipher(k, cipherFile) /\ \A o \in KeyProviders : OneCipher(keysFile.keys[o], cipherFile)
    BY <2>1, <2>5 DEF KeysAreLast, OneCipher
  <2>7. \A o \in KeyProviders : OneCipher(t[o], cipherFile) /\ (o # p => t[o].key = saved[o])
    BY <1>3, <2>1, <2>4, <2>6 DEF KeysAreLast
  <2>8. \A q \in Managers : Editing(q)' => \A o \in KeyProviders :
          /\ OneCipher(editing[q].keys[o], cipherFile)'
          /\ o # editing'[q].provider => editing'[q].keys[o].key = saved'[o]
    <3>1. \A o \in KeyProviders : OneCipher(editing[m].keys[o], cipherFile)'
      BY <1>6, <1>7, <2>7 DEF OneCipher
    <3>2. \A o \in KeyProviders : o # editing'[m].provider => editing'[m].keys[o].key = saved'[o]
      BY <1>6, <1>7, <2>7
    <3> QED
      BY <2>3, <3>1, <3>2
  <2>9. \A o \in KeyProviders :
          /\ OneCipher(keysFile.keys[o], cipherFile)'
          /\ ~keysFile'.torn => keysFile'.keys[o].key = saved'[o]
    BY <2>1 DEF KeysAreLast, OneCipher
  <2>10. \A q \in Managers : cipherOf'[q] \in {NoCipher, cipherFile'}
    BY <2>1 DEF KeysAreLast
  <2>11. \A q \in Managers : ~Ciphering(q)'
    BY <1>8, <2>1, <2>5, CiphersAre DEF KeysAreLast
  <2> QED
    BY <2>3, <2>4, <2>5, <2>8, <2>9, <2>10, <2>11 DEF KeysAreLast
<1> QED
  BY <1>9, <1>10, <1>11 DEF KeysInv

LEMMA OpenKeysFileKeeps ==
    ASSUME KeysInv, NEW m \in Managers, OpenKeysFile(m)
    PROVE  KeysInv'
<1>1. /\ editing[m].does \in {"save", "remove"} /\ keysFile' = TornFile
      /\ editing' = [editing EXCEPT ![m].does = IF @ = "save" THEN "saving" ELSE "removing"]
      /\ UNCHANGED <<cipherFile, cipherOf, keysMade, saved, keptUnder, tangled>>
  BY DEF OpenKeysFile
<1>2. PICK r : r = [editing[m] EXCEPT !.does = IF @ = "save" THEN "saving" ELSE "removing"]
  OBVIOUS
<1>3. editing' = [editing EXCEPT ![m] = r]
  BY <1>1, <1>2, EditingIs
<1>4. /\ DOMAIN editing' = Managers /\ editing' = [q \in Managers |-> editing'[q]]
      /\ editing'[m] = r /\ \A q \in Managers \ {m} : editing'[q] = editing[q]
  BY <1>3, EditingChanges
<1>5. /\ r.does \in {"saving", "removing"} /\ r.provider = editing[m].provider
      /\ r.keys = editing[m].keys /\ DOMAIN r = {"does", "provider", "keys"}
  BY <1>1, <1>2, EditingIs
<1>6. /\ Editing(m) /\ Editing(m)'
      /\ \A q \in Managers : Editing(q)' <=> Editing(q)
      /\ \A q \in Managers : editing'[q].provider = editing[q].provider /\ editing'[q].keys = editing[q].keys
  BY <1>1, <1>4, <1>5 DEF Editing, Edits
<1>7. keysFile'.torn = TRUE /\ keysFile'.keys = NoKeys /\ keysFile' \in [torn : BOOLEAN, keys : KeyTables]
  BY <1>1, NoKeysAre DEF TornFile
<1>8. KeyShapes'
  <2>1. \A q \in Managers : DOMAIN editing'[q] = {"does", "provider", "keys"}
    BY <1>4, <1>5, EditingIs
  <2> QED
    BY <1>1, <1>4, <1>6, <1>7, <2>1 DEF KeysInv, KeyShapes
<1>9. KeysWereSaved'
  BY <1>1, <1>6, <1>7, NoKeysAre DEF KeysInv, KeysWereSaved
<1>10. ~tangled' => KeysAreLast'
  <2> SUFFICES ASSUME ~tangled' PROVE KeysAreLast'
    OBVIOUS
  <2>1. KeysAreLast
    BY <1>1 DEF KeysInv
  <2>2. \A o \in KeyProviders : OneCipher(keysFile.keys[o], cipherFile)'
    BY <1>7, NoKeysAre DEF OneCipher
  <2>3. \A q \in Managers : Editing(q)' => \A o \in KeyProviders :
          /\ OneCipher(editing[q].keys[o], cipherFile)'
          /\ o # editing'[q].provider => editing'[q].keys[o].key = saved'[o]
    BY <1>1, <1>6, <2>1 DEF KeysAreLast, OneCipher
  <2>4. editing'[m].does \in {"saving", "removing"}
    BY <1>4, <1>5
  <2>5. /\ \A q \in Managers : Editing(q)' => cipherFile' \in Managers
        /\ cipherFile \in Managers /\ ~Ciphering(m)'
    BY <1>1, <1>4, <1>5, <1>6, <2>1 DEF KeysAreLast, Ciphering
  <2>8. \A q \in Managers : ~Ciphering(q)'
    BY <1>4, <2>1, <2>5, CiphersAre DEF KeysAreLast, Ciphering
  <2>6. \A q, s \in Managers : Editing(q)' /\ Editing(s)' => q = s
    BY <1>6, <2>1 DEF KeysAreLast
  <2>7. \A q \in Managers : cipherOf'[q] \in {NoCipher, cipherFile'}
    BY <1>1, <2>1 DEF KeysAreLast
  <2> QED
    BY <1>7, <2>2, <2>3, <2>4, <2>5, <2>6, <2>7, <2>8 DEF KeysAreLast
<1> QED
  BY <1>8, <1>9, <1>10 DEF KeysInv

LEMMA WriteKeysFileKeeps ==
    ASSUME KeysInv, NEW m \in Managers, WriteKeysFile(m)
    PROVE  KeysInv'
<1>1. PICK p : p = editing[m].provider
  OBVIOUS
<1>2. PICK t : t = editing[m].keys
  OBVIOUS
<1>3. /\ editing[m].does \in {"saving", "removing"} /\ keysFile' = WholeFile(t)
      /\ saved' = [saved EXCEPT ![p] = t[p].key]
      /\ keptUnder' = [keptUnder EXCEPT ![p] = @ \cup ({t[p].key} \ {0})]
      /\ editing' = [editing EXCEPT ![m] = NotEditing]
      /\ UNCHANGED <<cipherFile, cipherOf, keysMade, tangled>>
  BY <1>1, <1>2 DEF WriteKeysFile
<1>4. /\ DOMAIN editing' = Managers /\ editing' = [q \in Managers |-> editing'[q]]
      /\ editing'[m] = NotEditing /\ \A q \in Managers \ {m} : editing'[q] = editing[q]
  BY <1>3, EditingChanges
<1>5. Editing(m) /\ ~Editing(m)'
  BY <1>3, <1>4, EditingIs DEF Editing, Edits
<1>6. \A q \in Managers : Editing(q)' => Editing(q) /\ q # m /\ editing'[q] = editing[q]
  BY <1>4, <1>5 DEF Editing
<1>7. p \in KeyProviders /\ t \in KeyTables
  BY <1>1, <1>2, <1>5 DEF KeysInv, KeyShapes
<1>8. keysFile'.torn = FALSE /\ keysFile'.keys = t /\ keysFile' \in [torn : BOOLEAN, keys : KeyTables]
  BY <1>3, <1>7 DEF WholeFile
<1>9. /\ DOMAIN saved' = KeyProviders /\ DOMAIN keptUnder' = KeyProviders
      /\ saved'[p] = t[p].key /\ \A o \in KeyProviders \ {p} : saved'[o] = saved[o]
      /\ keptUnder'[p] = keptUnder[p] \cup ({t[p].key} \ {0})
      /\ \A o \in KeyProviders \ {p} : keptUnder'[o] = keptUnder[o]
  BY <1>3, <1>7 DEF KeysInv, KeyShapes
<1>10. KeyShapes'
  <2>1. \A q \in Managers : DOMAIN editing'[q] = {"does", "provider", "keys"}
    BY <1>4, EditingIs
  <2> QED
    BY <1>3, <1>4, <1>6, <1>8, <1>9, <2>1 DEF KeysInv, KeyShapes
<1>11. KeysWereSaved'
  <2>1. \A o \in KeyProviders : keptUnder[o] \subseteq keptUnder'[o]
    BY <1>9
  <2>2. \A o \in KeyProviders : t[o].key = 0 \/ t[o].key \in keptUnder'[o]
    <3>1. \A o \in KeyProviders \ {p} : t[o].key = 0 \/ t[o].key \in keptUnder[o]
      BY <1>1, <1>2, <1>5 DEF KeysInv, KeysWereSaved
    <3> QED
      BY <1>9, <3>1
  <2>3. \A q \in Managers : Editing(q)' => \A o \in KeyProviders \ {editing'[q].provider} :
          editing'[q].keys[o].key = 0 \/ editing'[q].keys[o].key \in keptUnder'[o]
    BY <1>6, <2>1 DEF KeysInv, KeysWereSaved
  <2> QED
    BY <1>8, <2>2, <2>3 DEF KeysWereSaved
<1>12. ~tangled' => KeysAreLast'
  <2> SUFFICES ASSUME ~tangled' PROVE KeysAreLast'
    OBVIOUS
  <2>1. KeysAreLast
    BY <1>3 DEF KeysInv
  <2>2. \A q \in Managers : ~Editing(q)'
    BY <1>5, <1>6, <2>1 DEF KeysAreLast
  <2>3. \A o \in KeyProviders : OneCipher(t[o], cipherFile) /\ (o # p => t[o].key = saved[o])
    BY <1>1, <1>2, <1>5, <2>1 DEF KeysAreLast
  <2>4. \A o \in KeyProviders :
          /\ OneCipher(keysFile.keys[o], cipherFile)'
          /\ ~keysFile'.torn => keysFile'.keys[o].key = saved'[o]
    <3>1. \A o \in KeyProviders : OneCipher(keysFile.keys[o], cipherFile)'
      BY <1>3, <1>8, <2>3 DEF OneCipher
    <3>2. \A o \in KeyProviders : keysFile'.keys[o].key = saved'[o]
      BY <1>8, <1>9, <2>3
    <3> QED
      BY <3>1, <3>2
  <2>5. \A q \in Managers : cipherOf'[q] \in {NoCipher, cipherFile'}
    BY <1>3, <2>1 DEF KeysAreLast
  <2>6. \A q \in Managers : ~Ciphering(q)'
    <3>1. cipherFile \in Managers /\ \A q \in Managers : ~Ciphering(q)
      BY <1>5, <2>1, CiphersAre DEF KeysAreLast
    <3> QED
      BY <1>4, <3>1, EditingIs DEF Ciphering
  <2> QED
    BY <1>8, <2>2, <2>4, <2>5, <2>6 DEF KeysAreLast
<1> QED
  BY <1>10, <1>11, <1>12 DEF KeysInv

LEMMA KeysStep == KeysInv /\ KeysNext => KeysInv'
<1> SUFFICES ASSUME KeysInv, KeysNext PROVE KeysInv'
  OBVIOUS
<1>1. PICK m \in Managers :
        \/ FindCipher(m) \/ OpenCipherFile(m) \/ MakeCipher(m)
        \/ \E p \in KeyProviders : ReadKeysToSave(m, p) \/ ReadKeysToRemove(m, p)
        \/ OpenKeysFile(m) \/ WriteKeysFile(m) \/ ManagerDies(m)
  BY DEF KeysNext
<1>2. ASSUME NEW p \in KeyProviders, ReadKeysToSave(m, p) PROVE KeysInv'
  <2>1. PICK k : k = [key |-> keysMade + 1, cipher |-> cipherOf[m]]
    OBVIOUS
  <2>2. keysMade \in Nat /\ cipherOf[m] \in Ciphers
    BY DEF KeysInv, KeyShapes
  <2>3. k \in KeyEntry /\ k.cipher = cipherOf[m]
    BY <2>1, <2>2 DEF KeyEntry
  <2>4. /\ Free(m) /\ keysMade' \in Nat
        /\ editing' = [editing EXCEPT ![m] = [does |-> "save", provider |-> p,
                                              keys |-> [LoadKeys EXCEPT ![p] = k]]]
        /\ tangled' = (tangled \/ Overlap(m))
        /\ UNCHANGED <<cipherFile, cipherOf, keysFile, saved, keptUnder>>
    BY <1>2, <2>1, <2>2 DEF ReadKeysToSave
  <2> QED
    BY <2>3, <2>4, ReadKeysKeeps
<1>3. ASSUME NEW p \in KeyProviders, ReadKeysToRemove(m, p) PROVE KeysInv'
  <2>1. keysMade \in Nat
    BY DEF KeysInv, KeyShapes
  <2>2. /\ Free(m) /\ keysMade' \in Nat
        /\ editing' = [editing EXCEPT ![m] = [does |-> "remove", provider |-> p,
                                              keys |-> [LoadKeys EXCEPT ![p] = NoKey]]]
        /\ tangled' = (tangled \/ Overlap(m))
        /\ UNCHANGED <<cipherFile, cipherOf, keysFile, saved, keptUnder>>
    BY <1>3, <2>1 DEF ReadKeysToRemove
  <2> QED
    BY <2>2, NoKeysAre, ReadKeysKeeps
<1> QED
  BY <1>1, <1>2, <1>3, FindCipherKeeps, OpenCipherFileKeeps, MakeCipherKeeps,
     OpenKeysFileKeeps, WriteKeysFileKeeps,
     ManagerDiesKeeps

-----------------------------------------------------------------------------
(* Paths (api/files.py): what it is to be under another one, and what happens *)
(* to the paths below one that is moved.                                      *)

Paths == Seq(PathNames)

LEMMA SameSequence ==
    ASSUME NEW S, NEW s \in Seq(S), NEW t \in Seq(S), Len(s) = Len(t),
           \A i \in 1..Len(s) : s[i] = t[i]
    PROVE  s = t
<1>1. s = [i \in 1..Len(s) |-> s[i]] /\ t = [i \in 1..Len(t) |-> t[i]]
  OBVIOUS
<1> QED
  BY <1>1

LEMMA PathsAre ==
    /\ AllPaths \subseteq Paths /\ <<>> \in AllPaths
    /\ \A p \in AllPaths : Len(p) \in Nat
    /\ \A p \in AllPaths \ {<<>>} : Len(p) > 0
<1>1. FilePaths \subseteq Paths \ {<<>>}
  BY FilesAssumption DEF Paths
<1>2. <<>> \in Paths /\ Len(<<>>) = 0
  BY DEF Paths
<1>3. \A p \in Paths : Len(p) \in Nat /\ (p # <<>> => Len(p) > 0)
  BY DEF Paths
<1> QED
  BY <1>1, <1>2, <1>3 DEF AllPaths

LEMMA UnderIs ==
    ASSUME NEW p \in Paths, NEW q \in Paths
    PROVE  Under(p, q) <=> Len(p) <= Len(q) /\ \A i \in 1..Len(p) : q[i] = p[i]
<1>1. Len(p) \in Nat /\ Len(q) \in Nat
  BY DEF Paths
<1>2. ASSUME Len(p) <= Len(q)
      PROVE  SubSeq(q, 1, Len(p)) = p <=> \A i \in 1..Len(p) : q[i] = p[i]
  <2>1. SubSeq(q, 1, Len(p)) = [i \in 1..Len(p) |-> q[i]]
    <3>1. PICK n \in Nat : n = Len(p)
      BY <1>1
    <3>2. SubSeq(q, 1, n) = [i \in 1..n |-> q[i]]
      BY <1>1, <1>2, <3>1 DEF Paths
    <3> QED
      BY <3>1, <3>2
  <2>2. p = [i \in 1..Len(p) |-> p[i]]
    BY DEF Paths
  <2> QED
    BY <2>1, <2>2
<1> QED
  BY <1>2 DEF Under

LEMMA UnderOrder ==
    /\ \A p \in Paths : Under(p, p) /\ Under(<<>>, p)
    /\ \A p, q \in Paths : Under(p, q) /\ Under(q, p) => p = q
    /\ \A p, q, r \in Paths : Under(p, q) /\ Under(q, r) => Under(p, r)
    /\ \A p, q, r \in Paths : Under(p, r) /\ Under(q, r) => Under(p, q) \/ Under(q, p)
<1>1. \A p \in Paths : Len(p) \in Nat
  BY DEF Paths
<1>2. <<>> \in Paths /\ Len(<<>>) = 0
  BY DEF Paths
<1>3. \A p \in Paths : Under(p, p) /\ Under(<<>>, p)
  BY <1>1, <1>2, UnderIs
<1>4. ASSUME NEW p \in Paths, NEW q \in Paths, Under(p, q), Under(q, p) PROVE p = q
  <2>1. Len(p) = Len(q) /\ \A i \in 1..Len(p) : q[i] = p[i]
    BY <1>1, <1>4, UnderIs
  <2> QED
    BY <2>1, SameSequence DEF Paths
<1>5. ASSUME NEW p \in Paths, NEW q \in Paths, NEW r \in Paths, Under(p, q), Under(q, r)
      PROVE  Under(p, r)
  <2>1. Len(p) <= Len(q) /\ \A i \in 1..Len(p) : q[i] = p[i]
    BY <1>5, UnderIs
  <2>2. Len(q) <= Len(r) /\ \A i \in 1..Len(q) : r[i] = q[i]
    BY <1>5, UnderIs
  <2>3. Len(p) <= Len(r) /\ \A i \in 1..Len(p) : r[i] = p[i]
    BY <1>1, <2>1, <2>2
  <2> QED
    BY <2>3, UnderIs
<1>6. ASSUME NEW p \in Paths, NEW q \in Paths, NEW r \in Paths, Under(p, r), Under(q, r)
      PROVE  Under(p, q) \/ Under(q, p)
  <2>1. Len(p) <= Len(r) /\ \A i \in 1..Len(p) : r[i] = p[i]
    BY <1>6, UnderIs
  <2>2. Len(q) <= Len(r) /\ \A i \in 1..Len(q) : r[i] = q[i]
    BY <1>6, UnderIs
  <2>3. CASE Len(p) <= Len(q)
    <3>1. \A i \in 1..Len(p) : q[i] = p[i]
      BY <1>1, <2>1, <2>2, <2>3
    <3> QED
      BY <2>3, <3>1, UnderIs
  <2>4. CASE Len(q) <= Len(p)
    <3>1. \A i \in 1..Len(q) : p[i] = q[i]
      BY <1>1, <2>1, <2>2, <2>4
    <3> QED
      BY <2>4, <3>1, UnderIs
  <2> QED
    BY <1>1, <2>3, <2>4
<1> QED
  BY <1>3, <1>4, <1>5, <1>6

LEMMA PrefixesArePaths ==
    ASSUME NEW p \in Paths, NEW q \in AllPaths, Under(p, q)
    PROVE  p \in AllPaths
<1>1. Len(p) \in Nat /\ Len(p) <= Len(q) /\ SubSeq(q, 1, Len(p)) = p
  BY DEF Under, Paths
<1>2. CASE Len(p) = 0
  <2>1. p = <<>>
    BY <1>2 DEF Paths
  <2> QED
    BY <2>1 DEF AllPaths
<1>3. CASE Len(p) > 0
  <2>1. q # <<>> /\ Len(q) \in Nat
    BY <1>1, <1>3, PathsAre
  <2>2. q \in FilePaths /\ Len(p) \in 1..Len(q)
    BY <1>1, <1>3, <2>1 DEF AllPaths
  <2>3. SubSeq(q, 1, Len(p)) \in FilePaths
    BY <2>2, FilesAssumption
  <2> QED
    BY <1>1, <2>3 DEF AllPaths
<1> QED
  BY <1>1, <1>2, <1>3

(* The parent of a path has above it what is above the path. *)
LEMMA ParentIs ==
    ASSUME NEW q \in AllPaths, q # <<>>
    PROVE  LET d == SubSeq(q, 1, Len(q) - 1)
           IN  /\ d \in AllPaths
               /\ \A a \in AllPaths : Under(a, q) /\ a # q => Under(a, d)
<1> DEFINE d == SubSeq(q, 1, Len(q) - 1)
<1>1. q \in Paths /\ Len(q) \in Nat /\ Len(q) > 0
  BY PathsAre
<1>2. PICK n \in Nat : n = Len(q) - 1
  BY <1>1
<1>3. SubSeq(q, 1, n) \in Paths /\ Len(SubSeq(q, 1, n)) = n /\ \A i \in 1..n : SubSeq(q, 1, n)[i] = q[i]
  BY <1>1, <1>2 DEF Paths
<1>4. d = SubSeq(q, 1, n)
  BY <1>2
<1> HIDE DEF d
<1>5. d \in Paths /\ Len(d) = n /\ \A i \in 1..n : d[i] = q[i]
  BY <1>3, <1>4
<1>6. Under(d, q)
  BY <1>1, <1>2, <1>5, UnderIs
<1>7. d \in AllPaths
  BY <1>5, <1>6, PrefixesArePaths
<1>8. ASSUME NEW a \in AllPaths, Under(a, q), a # q PROVE Under(a, d)
  <2>1. a \in Paths /\ Len(a) \in Nat
    BY PathsAre
  <2>2. Len(a) <= Len(q) /\ \A i \in 1..Len(a) : q[i] = a[i]
    BY <1>1, <1>8, <2>1, UnderIs
  <2>3. Len(a) # Len(q)
    <3>1. SUFFICES ASSUME Len(a) = Len(q) PROVE FALSE
      OBVIOUS
    <3>2. \A i \in 1..Len(q) : q[i] = a[i]
      BY <2>2, <3>1
    <3> QED
      BY <1>1, <1>8, <2>1, <3>1, <3>2, SameSequence DEF Paths
  <2>4. Len(a) <= n
    BY <1>1, <1>2, <2>1, <2>2, <2>3
  <2>5. \A i \in 1..Len(a) : d[i] = a[i]
    BY <1>5, <2>1, <2>2, <2>4
  <2> QED
    BY <1>5, <2>1, <2>4, <2>5, UnderIs
<1> QED
  BY <1>7, <1>8 DEF d

(* Where the path r below q is when q is moved to p. *)
Shifted(p, q, r) == p \o SubSeq(r, Len(q) + 1, Len(r))

IsShifted(t, p, q, r) ==
    /\ t \in Paths
    /\ Len(t) = Len(p) + Len(r) - Len(q)
    /\ \A i \in 1..Len(p) : t[i] = p[i]
    /\ \A i \in (Len(p) + 1)..(Len(p) + Len(r) - Len(q)) : t[i] = r[i - Len(p) + Len(q)]

LEMMA ShiftedIs ==
    ASSUME NEW p \in Paths, NEW q \in Paths, NEW r \in Paths, Len(q) <= Len(r)
    PROVE  IsShifted(Shifted(p, q, r), p, q, r)
<1>1. Len(p) \in Nat /\ Len(q) \in Nat /\ Len(r) \in Nat
  BY DEF Paths
<1>2. PICK m \in Nat : m = Len(q) + 1
  BY <1>1
<1>3. PICK n \in Nat : n = Len(r)
  BY <1>1
<1>4. /\ SubSeq(r, m, n) \in Paths /\ Len(SubSeq(r, m, n)) = n - m + 1
      /\ \A i \in 1..(n - m + 1) : SubSeq(r, m, n)[i] = r[m + i - 1]
  BY <1>1, <1>2, <1>3 DEF Paths
<1>5. PICK t \in Paths : t = SubSeq(r, m, n)
  BY <1>4
<1>6. Len(t) = Len(r) - Len(q) /\ \A i \in 1..Len(t) : t[i] = r[Len(q) + i]
  BY <1>1, <1>2, <1>3, <1>4, <1>5
<1>7. /\ p \o t \in Paths /\ Len(p \o t) = Len(p) + Len(t)
      /\ \A i \in 1..Len(p) : (p \o t)[i] = p[i]
      /\ \A i \in (Len(p) + 1)..(Len(p) + Len(t)) : (p \o t)[i] = t[i - Len(p)]
  BY <1>1 DEF Paths
<1>8. Shifted(p, q, r) = p \o t
  BY <1>2, <1>3, <1>5 DEF Shifted
<1>9. \A i \in (Len(p) + 1)..(Len(p) + Len(t)) : (p \o t)[i] = r[i - Len(p) + Len(q)]
  <2> TAKE i \in (Len(p) + 1)..(Len(p) + Len(t))
  <2>1. i - Len(p) \in 1..Len(t)
    BY <1>1, <1>6
  <2>2. (p \o t)[i] = t[i - Len(p)]
    BY <1>7
  <2>3. t[i - Len(p)] = r[Len(q) + (i - Len(p))]
    BY <1>6, <2>1
  <2>4. Len(q) + (i - Len(p)) = i - Len(p) + Len(q)
    BY <1>1, <2>1
  <2> QED
    BY <2>2, <2>3, <2>4
<1> QED
  BY <1>1, <1>6, <1>7, <1>8, <1>9 DEF IsShifted

(* Moving the paths below q to p keeps their order, and moving them back undoes
   it. *)
LEMMA ShiftedUnder ==
    ASSUME NEW p \in Paths, NEW q \in Paths, NEW r \in Paths, Under(q, r)
    PROVE  /\ Shifted(p, q, r) \in Paths
           /\ Under(p, Shifted(p, q, r))
           /\ Shifted(q, p, Shifted(p, q, r)) = r
           /\ \A a \in Paths : Under(q, a) /\ Under(a, r) =>
                 Under(Shifted(p, q, a), Shifted(p, q, r))
<1>1. Len(p) \in Nat /\ Len(q) \in Nat /\ Len(r) \in Nat /\ Len(q) <= Len(r)
  BY DEF Paths, Under
<1>2. PICK t : t = Shifted(p, q, r)
  OBVIOUS
<1>20. IsShifted(t, p, q, r)
  BY <1>1, <1>2, ShiftedIs
<1>3. /\ t \in Paths /\ Len(t) = Len(p) + Len(r) - Len(q)
      /\ \A i \in 1..Len(p) : t[i] = p[i]
      /\ \A i \in (Len(p) + 1)..(Len(p) + Len(r) - Len(q)) : t[i] = r[i - Len(p) + Len(q)]
  BY <1>20 DEF IsShifted
<1>4. Under(p, t)
  BY <1>1, <1>3, UnderIs
<1>5. Shifted(q, p, t) = r
  <2>1. PICK u : u = Shifted(q, p, t)
    OBVIOUS
  <2>2. Len(p) <= Len(t)
    BY <1>1, <1>3
  <2>20. IsShifted(u, q, p, t)
    BY <1>3, <2>1, <2>2, ShiftedIs
  <2>3. /\ u \in Paths /\ Len(u) = Len(q) + Len(t) - Len(p)
        /\ \A i \in 1..Len(q) : u[i] = q[i]
        /\ \A i \in (Len(q) + 1)..(Len(q) + Len(t) - Len(p)) : u[i] = t[i - Len(q) + Len(p)]
    BY <2>20 DEF IsShifted
  <2>4. Len(u) = Len(r)
    BY <1>1, <1>3, <2>3
  <2>5. \A i \in 1..Len(q) : r[i] = q[i]
    BY <1>1, UnderIs
  <2>6. ASSUME NEW i \in 1..Len(u) PROVE u[i] = r[i]
    <3>1. CASE i <= Len(q)
      BY <1>1, <2>3, <2>5, <2>6, <3>1
    <3>2. CASE i > Len(q)
      <4>1. i \in (Len(q) + 1)..(Len(q) + Len(t) - Len(p))
        BY <1>1, <1>3, <2>3, <2>6, <3>2
      <4>2. PICK j \in Int : j = i - Len(q) + Len(p)
        BY <1>1, <4>1
      <4>3. j \in (Len(p) + 1)..(Len(p) + Len(r) - Len(q)) /\ j - Len(p) + Len(q) = i
        BY <1>1, <1>3, <4>1, <4>2
      <4>4. t[j] = r[i]
        BY <1>3, <4>3
      <4> QED
        BY <2>3, <4>1, <4>2, <4>4
    <3> QED
      BY <1>1, <2>6, <3>1, <3>2
  <2> QED
    BY <2>1, <2>3, <2>4, <2>6, SameSequence DEF Paths
<1>6. ASSUME NEW a \in Paths, Under(q, a), Under(a, r)
      PROVE  Under(Shifted(p, q, a), t)
  <2>1. Len(a) \in Nat /\ Len(q) <= Len(a) /\ Len(a) <= Len(r) /\ \A i \in 1..Len(a) : r[i] = a[i]
    BY <1>1, <1>6, UnderIs DEF Paths
  <2>2. PICK b : b = Shifted(p, q, a)
    OBVIOUS
  <2>20. IsShifted(b, p, q, a)
    BY <2>1, <2>2, ShiftedIs
  <2>3. /\ b \in Paths /\ Len(b) = Len(p) + Len(a) - Len(q)
        /\ \A i \in 1..Len(p) : b[i] = p[i]
        /\ \A i \in (Len(p) + 1)..(Len(p) + Len(a) - Len(q)) : b[i] = a[i - Len(p) + Len(q)]
    BY <2>20 DEF IsShifted
  <2>4. Len(b) <= Len(t)
    BY <1>1, <1>3, <2>1, <2>3
  <2>5. ASSUME NEW i \in 1..Len(b) PROVE t[i] = b[i]
    <3>1. CASE i <= Len(p)
      BY <1>1, <1>3, <2>3, <2>5, <3>1
    <3>2. CASE i > Len(p)
      <4>1. i \in (Len(p) + 1)..(Len(p) + Len(a) - Len(q))
        BY <1>1, <2>1, <2>3, <2>5, <3>2
      <4>2. i \in (Len(p) + 1)..(Len(p) + Len(r) - Len(q))
        BY <1>1, <2>1, <4>1
      <4>3. i - Len(p) + Len(q) \in 1..Len(a)
        BY <1>1, <2>1, <4>1
      <4>4. t[i] = r[i - Len(p) + Len(q)] /\ b[i] = a[i - Len(p) + Len(q)]
        BY <1>3, <2>3, <4>1, <4>2
      <4> QED
        BY <2>1, <4>3, <4>4
    <3> QED
      BY <1>1, <2>1, <2>3, <2>5, <3>1, <3>2
  <2> QED
    BY <1>3, <2>2, <2>3, <2>4, <2>5, UnderIs
<1> QED
  BY <1>2, <1>3, <1>4, <1>5, <1>6

-----------------------------------------------------------------------------
(* The files of a project (api/files.py): directories hold what is there, each *)
(* content is in one file, what a server is about to write is its own, and it  *)
(* has one file open at most, wherever others have moved it.                   *)

Node == {Nowhere, Directory} \cup [is : {"file"}, content : Nat, writers : SUBSET Servers]
RouteState == [does : {"nothing", "write", "rename"}, from : AllPaths, to : AllPaths,
               content : Nat, disturbed : BOOLEAN]

ProjectShapes ==
    /\ tree \in [AllPaths -> Node] /\ routes \in [Servers -> RouteState]
    /\ contentsMade \in Nat
    /\ wanted \subseteq 1..contentsMade /\ usurped \subseteq 1..contentsMade

HasParents(t) == \A p \in AllPaths : t[p].is # "nothing" =>
    \A q \in Above(p) : t[q].is = "directory"

Holds(t, left) ==
    /\ \A p \in AllPaths : t[p].content # 0 => t[p].content \in left
    /\ \A c \in left : \E p \in AllPaths : t[p].content = c
    /\ \A p, q \in AllPaths : t[p].content = t[q].content /\ t[p].content # 0 => p = q

OpenFor(t, rs) ==
    /\ \A s \in Servers, p \in AllPaths : s \in t[p].writers => rs[s].does = "write"
    /\ \A s \in Servers, p, q \in AllPaths : s \in t[p].writers /\ s \in t[q].writers => p = q

Reserved(rs, upTo, used) ==
    /\ \A s \in Servers : rs[s].does = "write" => rs[s].content \in (1..upTo) \ used
    /\ \A s, r \in Servers :
          rs[s].does = "write" /\ rs[r].does = "write" /\ rs[s].content = rs[r].content => s = r

ChecksHold(t, rs) == \A s \in Servers : rs[s].does = "rename" /\ ~rs[s].disturbed =>
    t[rs[s].to].is = "nothing" /\ t[rs[s].from].is # "nothing"

ProjectInv ==
    /\ ProjectShapes
    /\ HasParents(tree)
    /\ Holds(tree, wanted \ usurped)
    /\ OpenFor(tree, routes)
    /\ Reserved(routes, contentsMade, wanted \cup usurped)
    /\ ChecksHold(tree, routes)

LEMMA NodesAre ==
    /\ Nowhere \in Node /\ Directory \in Node
    /\ Nowhere.is = "nothing" /\ Nowhere.content = 0 /\ Nowhere.writers = {}
    /\ Directory.is = "directory" /\ Directory.content = 0 /\ Directory.writers = {}
    /\ \A c \in Nat, ws \in SUBSET Servers : FileOf(c, ws) \in Node
    /\ \A c, ws : FileOf(c, ws).is = "file" /\ FileOf(c, ws).content = c /\ FileOf(c, ws).writers = ws
    /\ \A n \in Node : /\ n.is \in {"nothing", "directory", "file"}
                       /\ n.content \in Nat /\ n.writers \subseteq Servers
                       /\ n.is # "file" => n.content = 0 /\ n.writers = {}
                       /\ n.is = "nothing" => n = Nowhere
                       /\ n.is = "directory" => n = Directory
  BY DEF Node, Nowhere, Directory, FileOf

LEMMA NoRequestIs ==
    /\ NoRequest \in RouteState /\ NoRequest.does = "nothing"
  BY DEF NoRequest, RouteState, AllPaths

(* The contents of some paths, in terms of the tree alone. *)
LEMMA ContentsInAre ==
    ASSUME ProjectShapes, NEW S \in SUBSET AllPaths
    PROVE  \A c : c \in ContentsIn(S) <=> c # 0 /\ \E p \in S : tree[p].content = c
<1>1. \A p \in S : tree[p].is # "file" => tree[p].content = 0
  BY NodesAre DEF ProjectShapes
<1> QED
  BY <1>1 DEF ContentsIn

LEMMA ProjectStart == FilesInit => ProjectInv
<1> SUFFICES ASSUME FilesInit PROVE ProjectInv
  OBVIOUS
<1>1. /\ tree = [p \in AllPaths |-> Nowhere] /\ routes = [s \in Servers |-> NoRequest]
      /\ contentsMade = 0 /\ wanted = {} /\ usurped = {}
  BY DEF FilesInit
<1>2. ProjectShapes
  BY <1>1, NodesAre, NoRequestIs DEF ProjectShapes
<1>3. \A p \in AllPaths : tree[p].is = "nothing" /\ tree[p].content = 0 /\ tree[p].writers = {}
  BY <1>1, NodesAre
<1>4. \A s \in Servers : routes[s].does = "nothing"
  BY <1>1, NoRequestIs
<1>5. HasParents(tree) /\ OpenFor(tree, routes) /\ ChecksHold(tree, routes)
  BY <1>3, <1>4 DEF HasParents, OpenFor, ChecksHold
<1>6. Holds(tree, wanted \ usurped)
  BY <1>1, <1>3 DEF Holds
<1>7. Reserved(routes, contentsMade, wanted \cup usurped)
  BY <1>4 DEF Reserved
<1> QED
  BY <1>2, <1>5, <1>6, <1>7 DEF ProjectInv

LEMMA ProjectIsKept == ProjectInv => ContentsAreKept
<1> SUFFICES ASSUME ProjectInv PROVE ContentsAreKept
  OBVIOUS
<1>1. \A p \in AllPaths : Exists(p) => \A q \in Above(p) : IsDir(q)
  BY DEF ProjectInv, HasParents, Exists, IsDir
<1>2. ContentsIn(AllPaths) = wanted \ usurped
  <2>1. \A c : c \in ContentsIn(AllPaths) <=> c # 0 /\ \E p \in AllPaths : tree[p].content = c
    BY ContentsInAre DEF ProjectInv
  <2>2. \A c \in wanted \ usurped : c # 0
    BY DEF ProjectInv, ProjectShapes
  <2>3. \A c : c \in ContentsIn(AllPaths) => c \in wanted \ usurped
    BY <2>1 DEF ProjectInv, Holds
  <2>4. \A c \in wanted \ usurped : c \in ContentsIn(AllPaths)
    BY <2>1, <2>2 DEF ProjectInv, Holds
  <2> QED
    BY <2>3, <2>4
<1>3. \A p, q \in AllPaths : p # q /\ tree[p].is = "file" /\ tree[q].is = "file" =>
          tree[p].content = 0 \/ tree[p].content # tree[q].content
  BY DEF ProjectInv, Holds
<1> QED
  BY <1>1, <1>2, <1>3 DEF ContentsAreKept

(* A route ends, or is over at once, and the others learn of it. *)
LEMMA DisturbIs ==
    ASSUME ProjectInv, NEW s \in Servers
    PROVE  /\ Disturb(s) \in [Servers -> RouteState]
           /\ Disturb(s)[s] = NoRequest
           /\ \A q \in Servers \ {s} :
                 /\ Disturb(s)[q].does = routes[q].does /\ Disturb(s)[q].content = routes[q].content
                 /\ Disturb(s)[q].does = "rename" => Disturb(s)[q].disturbed
<1>1. \A q \in Servers : routes[q] \in RouteState
  BY DEF ProjectInv, ProjectShapes
<1>2. PICK d : d = Disturb(s)
  OBVIOUS
<1>3. /\ d[s] = NoRequest /\ DOMAIN d = Servers /\ d = [q \in Servers |-> d[q]]
      /\ \A q \in Servers \ {s} : d[q] = [routes[q] EXCEPT !.disturbed = routes[q] # NoRequest]
  BY <1>2 DEF Disturb
<1>4. \A q \in Servers \ {s} :
        /\ d[q] \in RouteState /\ d[q].does = routes[q].does /\ d[q].content = routes[q].content
        /\ routes[q] # NoRequest => d[q].disturbed
  <2> TAKE q \in Servers \ {s}
  <2>1. routes[q] \in RouteState
    BY <1>1
  <2>2. CASE routes[q] = NoRequest
    <3>1. d[q] = [routes[q] EXCEPT !.disturbed = FALSE]
      BY <1>3, <2>2
    <3> QED
      BY <2>1, <2>2, <3>1 DEF RouteState
  <2>3. CASE routes[q] # NoRequest
    <3>1. d[q] = [routes[q] EXCEPT !.disturbed = TRUE]
      BY <1>3, <2>3
    <3> QED
      BY <2>1, <3>1 DEF RouteState
  <2> QED
    BY <2>2, <2>3
<1>5. \A q \in Servers : d[q] \in RouteState
  BY <1>3, <1>4, NoRequestIs
<1>6. d \in [Servers -> RouteState]
  BY <1>3, <1>5
<1>7. \A q \in Servers \ {s} : d[q].does = "rename" => d[q].disturbed
  BY <1>4, NoRequestIs
<1> QED
  BY <1>2, <1>3, <1>4, <1>6, <1>7

(* The tree was changed by a route that is over. *)
LEMMA RouteIsOver ==
    ASSUME ProjectInv, NEW s \in Servers, routes' = Disturb(s),
           tree' \in [AllPaths -> Node], contentsMade' = contentsMade,
           wanted' \subseteq 1..contentsMade, usurped' \subseteq 1..contentsMade,
           HasParents(tree'), Holds(tree', wanted' \ usurped'),
           \A q \in Servers, p \in AllPaths : q \in tree'[p].writers =>
              q # s /\ \E o \in AllPaths : q \in tree[o].writers,
           \A q \in Servers, p, o \in AllPaths : q \in tree'[p].writers /\ q \in tree'[o].writers => p = o,
           \A c \in wanted' \cup usurped' : c \in wanted \cup usurped
              \/ (routes[s].does = "write" /\ c = routes[s].content)
    PROVE  ProjectInv'
<1>1. PICK d : d = Disturb(s)
  OBVIOUS
<1>2. /\ d \in [Servers -> RouteState] /\ d[s] = NoRequest
      /\ \A q \in Servers \ {s} :
            /\ d[q].does = routes[q].does /\ d[q].content = routes[q].content
            /\ d[q].does = "rename" => d[q].disturbed
  BY <1>1, DisturbIs
<1>3. routes' = d
  BY <1>1
<1>4. ProjectShapes'
  BY <1>2, <1>3 DEF ProjectInv, ProjectShapes
<1>5. OpenFor(tree', routes')
  <2>1. \A q \in Servers, p \in AllPaths : q \in tree'[p].writers => routes'[q].does = "write"
    BY <1>2, <1>3 DEF ProjectInv, OpenFor
  <2> QED
    BY <2>1 DEF OpenFor
<1>6. Reserved(routes', contentsMade', wanted' \cup usurped')
  <2>1. \A q \in Servers : routes'[q].does = "write" =>
          q # s /\ routes[q].does = "write" /\ routes'[q].content = routes[q].content
    BY <1>2, <1>3, NoRequestIs
  <2>2. Reserved(routes, contentsMade, wanted \cup usurped)
    BY DEF ProjectInv
  <2>3. \A q \in Servers : routes'[q].does = "write" => routes'[q].content \notin wanted' \cup usurped'
    BY <2>1, <2>2 DEF Reserved
  <2> QED
    BY <2>1, <2>2, <2>3 DEF Reserved
<1>7. ChecksHold(tree', routes')
  BY <1>2, <1>3, NoRequestIs DEF ChecksHold
<1> QED
  BY <1>4, <1>5, <1>6, <1>7 DEF ProjectInv

(* Directories are made above a path and something is put there. *)
TreeWith(t, p, n) ==
    /\ t \in [AllPaths -> Node] /\ HasParents(t)
    /\ t[p] = n
    /\ \A q \in AllPaths \ {p} : t[q].content = tree[q].content /\ t[q].writers = tree[q].writers

LEMMA TreeWithDirs ==
    ASSUME ProjectInv, NEW p \in AllPaths, CanMake(Above(p)), NEW n \in Node,
           n.is = "directory" \/ tree[p].is # "directory",
           n.is # "nothing"
    PROVE  TreeWith([WithDirs(Above(p)) EXCEPT ![p] = n], p, n)
<1>20. PICK t : t = [WithDirs(Above(p)) EXCEPT ![p] = n]
  OBVIOUS
<1>1. tree \in [AllPaths -> Node] /\ HasParents(tree)
  BY DEF ProjectInv, ProjectShapes
<1>2. /\ t \in [AllPaths -> Node] /\ t[p] = n
      /\ \A q \in AllPaths \ {p} : t[q] = IF q \in Above(p) THEN Directory ELSE tree[q]
  BY <1>1, <1>20, NodesAre DEF WithDirs
<1>3. \A q \in AllPaths \ {p} : t[q].content = tree[q].content /\ t[q].writers = tree[q].writers
  <2> TAKE q \in AllPaths \ {p}
  <2>1. CASE q \in Above(p)
    <3>1. tree[q].is # "file" /\ tree[q] \in Node
      BY <1>1, <2>1 DEF CanMake
    <3> QED
      BY <1>2, <2>1, <3>1, NodesAre
  <2>2. CASE q \notin Above(p)
    BY <1>2, <2>2
  <2> QED
    BY <2>1, <2>2
<1>4. HasParents(t)
  <2> SUFFICES ASSUME NEW q \in AllPaths, t[q].is # "nothing", NEW a \in Above(q)
               PROVE  t[a].is = "directory"
    BY DEF HasParents
  <2>1. a \in AllPaths /\ Under(a, q) /\ a # q
    BY DEF Above
  <2>2. AllPaths \subseteq Paths
    BY PathsAre
  <2>3. CASE q = p \/ q \in Above(p)
    <3>1. Under(q, p)
      BY <2>2, <2>3, UnderOrder DEF Above
    <3>2. Under(a, p)
      BY <2>1, <2>2, <3>1, UnderOrder
    <3>3. a # p
      <4>1. SUFFICES ASSUME a = p PROVE FALSE
        OBVIOUS
      <4>2. a = q
        BY <2>1, <2>2, <3>1, <4>1, UnderOrder
      <4> QED
        BY <2>1, <4>2
    <3>4. a \in Above(p)
      BY <2>1, <3>2, <3>3 DEF Above
    <3> QED
      BY <1>2, <2>1, <3>3, <3>4, NodesAre
  <2>4. CASE q # p /\ q \notin Above(p)
    <3>1. tree[q].is # "nothing"
      BY <1>2, <2>4
    <3>2. tree[a].is = "directory"
      BY <1>1, <3>1 DEF HasParents
    <3>3. CASE a = p
      BY <1>2, <3>2, <3>3
    <3>4. CASE a # p
      BY <1>2, <2>1, <3>2, <3>4, NodesAre
    <3> QED
      BY <3>3, <3>4
  <2> QED
    BY <2>3, <2>4
<1> QED
  BY <1>2, <1>3, <1>4, <1>20 DEF TreeWith

(* What is known of the tree and the routes. *)
LEMMA ProjectIs ==
    ASSUME ProjectInv
    PROVE  /\ tree \in [AllPaths -> Node] /\ \A p \in AllPaths : tree[p] \in Node
           /\ routes \in [Servers -> RouteState] /\ \A s \in Servers : routes[s] \in RouteState
           /\ contentsMade \in Nat
           /\ wanted \subseteq 1..contentsMade /\ usurped \subseteq 1..contentsMade
           /\ HasParents(tree) /\ Holds(tree, wanted \ usurped) /\ OpenFor(tree, routes)
           /\ Reserved(routes, contentsMade, wanted \cup usurped)
  BY DEF ProjectInv, ProjectShapes

LEMMA CreateEmptyKeeps ==
    ASSUME ProjectInv, NEW s \in Servers, NEW p \in AllPaths, NEW dir \in BOOLEAN,
           CreateEmpty(s, p, dir)
    PROVE  ProjectInv'
<1>1. /\ routes[s] = NoRequest /\ CanMake(Above(p))
      /\ routes' = Disturb(s)
      /\ UNCHANGED <<contentsMade, wanted, usurped>>
  BY DEF CreateEmpty, Available, CanMake
<1>2. PICK n : n = IF Exists(p) THEN tree[p] ELSE IF dir THEN Directory ELSE FileOf(0, {})
  OBVIOUS
<1>3. tree' = [WithDirs(Above(p)) EXCEPT ![p] = n]
  <2>1. WithDirs(Above(p))[p] = tree[p]
    BY DEF WithDirs, Above
  <2>2. p \in DOMAIN WithDirs(Above(p))
    BY DEF WithDirs
  <2>3. tree' = [WithDirs(Above(p)) EXCEPT ![p] =
                   IF Exists(p) THEN @ ELSE IF dir THEN Directory ELSE FileOf(0, {})]
    BY DEF CreateEmpty
  <2> QED
    BY <1>2, <2>1, <2>2, <2>3
<1>4. /\ n \in Node /\ n.is # "nothing" /\ (n.is = "directory" \/ tree[p].is # "directory")
      /\ n.content = tree[p].content /\ n.writers = tree[p].writers
  <2>1. CASE Exists(p)
    BY <1>2, <2>1, ProjectIs DEF Exists
  <2>2. CASE ~Exists(p)
    <3>1. tree[p].content = 0 /\ tree[p].writers = {} /\ tree[p].is = "nothing"
      BY <2>2, ProjectIs, NodesAre DEF Exists
    <3>2. FileOf(0, {}) \in Node
      BY NodesAre
    <3> QED
      BY <1>2, <2>2, <3>1, <3>2, NodesAre
  <2> QED
    BY <2>1, <2>2
<1>5. /\ tree' \in [AllPaths -> Node] /\ HasParents(tree')
      /\ tree'[p] = n
      /\ \A q \in AllPaths \ {p} : tree'[q].content = tree[q].content /\ tree'[q].writers = tree[q].writers
  <2>1. TreeWith(tree', p, n)
    BY <1>1, <1>3, <1>4, TreeWithDirs
  <2> QED
    BY <2>1 DEF TreeWith
<1>6. \A q \in AllPaths : tree'[q].content = tree[q].content /\ tree'[q].writers = tree[q].writers
  BY <1>4, <1>5
<1>7. Holds(tree', wanted' \ usurped')
  BY <1>1, <1>6, ProjectIs DEF Holds
<1>8. /\ \A q \in Servers, o \in AllPaths : q \in tree'[o].writers => q # s /\ q \in tree[o].writers
      /\ \A q \in Servers, o, r \in AllPaths : q \in tree'[o].writers /\ q \in tree'[r].writers => o = r
  BY <1>1, <1>6, ProjectIs, NoRequestIs DEF OpenFor
<1>9. /\ wanted' \subseteq 1..contentsMade /\ usurped' \subseteq 1..contentsMade
      /\ contentsMade' = contentsMade
      /\ \A c \in wanted' \cup usurped' : c \in wanted \cup usurped
  BY <1>1, ProjectIs
<1> QED
  BY <1>1, <1>5, <1>7, <1>8, <1>9, RouteIsOver

LEMMA BeginWriteFileKeeps ==
    ASSUME ProjectInv, NEW s \in Servers, NEW p \in FilePaths, BeginWriteFile(s, p)
    PROVE  ProjectInv'
<1>1. /\ routes[s] = NoRequest /\ ~IsDir(p) /\ CanMake(Above(p))
      /\ contentsMade' = contentsMade + 1
      /\ wanted' = wanted \ ContentsIn({p}) /\ usurped' = usurped
      /\ routes' = [Disturb(s) EXCEPT ![s] = [NoRequest EXCEPT !.does = "write", !.to = p,
                                                              !.content = contentsMade + 1]]
  BY DEF BeginWriteFile, Available
<1>2. p \in AllPaths /\ tree[p] \in Node /\ contentsMade \in Nat
  BY ProjectIs DEF AllPaths
<1>3. PICK n : n = FileOf(0, tree[p].writers \cup {s})
  OBVIOUS
<1>4. n \in Node /\ n.is = "file" /\ n.content = 0 /\ n.writers = tree[p].writers \cup {s}
  <2>1. tree[p].writers \cup {s} \in SUBSET Servers
    BY <1>2, NodesAre
  <2> QED
    BY <1>3, <2>1, NodesAre
<1>5. tree' = [WithDirs(Above(p)) EXCEPT ![p] = n]
  <2>1. WithDirs(Above(p))[p] = tree[p] /\ p \in DOMAIN WithDirs(Above(p))
    BY <1>2 DEF WithDirs, Above
  <2>2. tree' = [WithDirs(Above(p)) EXCEPT ![p] = FileOf(0, @.writers \cup {s})]
    BY DEF BeginWriteFile
  <2> QED
    BY <1>3, <2>1, <2>2
<1>6. /\ tree' \in [AllPaths -> Node] /\ HasParents(tree')
      /\ tree'[p] = n
      /\ \A q \in AllPaths \ {p} : tree'[q].content = tree[q].content /\ tree'[q].writers = tree[q].writers
  <2>1. tree[p].is # "directory"
    BY <1>1 DEF IsDir
  <2>2. TreeWith([WithDirs(Above(p)) EXCEPT ![p] = n], p, n)
    BY <1>1, <1>2, <1>4, <2>1, TreeWithDirs
  <2> QED
    BY <1>5, <2>2 DEF TreeWith
<1>7. \A c : c \in ContentsIn({p}) <=> c # 0 /\ tree[p].content = c
  <2>1. {p} \in SUBSET AllPaths
    BY <1>2
  <2>2. \A c : c \in ContentsIn({p}) <=> c # 0 /\ \E o \in {p} : tree[o].content = c
    BY <2>1, ContentsInAre DEF ProjectInv
  <2> QED
    BY <2>2
<1>8. Holds(tree', wanted' \ usurped')
  <2>1. Holds(tree, wanted \ usurped)
    BY ProjectIs
  <2>2. \A q \in AllPaths : tree'[q].content # 0 => q # p /\ tree'[q].content = tree[q].content
    BY <1>4, <1>6
  <2>3. \A q \in AllPaths : tree'[q].content # 0 => tree'[q].content \in wanted' \ usurped'
    BY <1>1, <1>2, <1>7, <2>1, <2>2 DEF Holds
  <2>4. \A c \in wanted' \ usurped' : \E q \in AllPaths : tree'[q].content = c
    <3> TAKE c \in wanted' \ usurped'
    <3>1. c \in wanted \ usurped /\ (tree[p].content # c \/ c = 0)
      BY <1>1, <1>7
    <3>2. c # 0
      BY <3>1, ProjectIs
    <3>3. PICK q \in AllPaths : tree[q].content = c
      BY <2>1, <3>1 DEF Holds
    <3> QED
      BY <1>6, <3>1, <3>2, <3>3
  <2>5. \A q, o \in AllPaths : tree'[q].content = tree'[o].content /\ tree'[q].content # 0 => q = o
    BY <2>1, <2>2 DEF Holds
  <2> QED
    BY <2>3, <2>4, <2>5 DEF Holds
<1>9. PICK d : d = Disturb(s)
  OBVIOUS
<1>10. /\ d \in [Servers -> RouteState]
       /\ \A q \in Servers \ {s} :
             /\ d[q].does = routes[q].does /\ d[q].content = routes[q].content
             /\ d[q].does = "rename" => d[q].disturbed
  BY <1>9, DisturbIs
<1>11. PICK r : r = [NoRequest EXCEPT !.does = "write", !.to = p, !.content = contentsMade + 1]
  OBVIOUS
<1>12. r \in RouteState /\ r.does = "write" /\ r.content = contentsMade + 1
  <2>1. r = [does |-> "write", from |-> <<>>, to |-> p, content |-> contentsMade + 1, disturbed |-> FALSE]
    BY <1>11 DEF NoRequest
  <2>2. <<>> \in AllPaths /\ contentsMade + 1 \in Nat
    BY <1>2 DEF AllPaths
  <2> QED
    BY <1>2, <2>1, <2>2 DEF RouteState
<1>13. /\ routes' \in [Servers -> RouteState] /\ routes'[s] = r
       /\ \A q \in Servers \ {s} : routes'[q] = d[q]
  BY <1>1, <1>9, <1>10, <1>11, <1>12
<1>14. ProjectShapes'
  <2>1. contentsMade' \in Nat /\ 1..contentsMade \subseteq 1..contentsMade'
    BY <1>1, <1>2
  <2>2. wanted' \subseteq 1..contentsMade' /\ usurped' \subseteq 1..contentsMade'
    BY <1>1, <2>1, ProjectIs
  <2> QED
    BY <1>6, <1>13, <2>1, <2>2 DEF ProjectShapes
<1>15. OpenFor(tree', routes')
  <2>1. \A o \in AllPaths : s \notin tree[o].writers
    BY <1>1, ProjectIs, NoRequestIs DEF OpenFor
  <2>2. \A o \in AllPaths : s \in tree'[o].writers => o = p
    BY <1>6, <2>1
  <2>3. \A q \in Servers \ {s}, o \in AllPaths : q \in tree'[o].writers => q \in tree[o].writers
    BY <1>4, <1>6
  <2>4. \A q \in Servers, o \in AllPaths : q \in tree'[o].writers => routes'[q].does = "write"
    <3> TAKE q \in Servers, o \in AllPaths
    <3>1. CASE q = s
      BY <1>12, <1>13, <3>1
    <3>2. CASE q # s
      BY <1>10, <1>13, <2>3, <3>2, ProjectIs DEF OpenFor
    <3> QED
      BY <3>1, <3>2
  <2>5. \A q \in Servers, o, a \in AllPaths : q \in tree'[o].writers /\ q \in tree'[a].writers => o = a
    <3> TAKE q \in Servers, o \in AllPaths, a \in AllPaths
    <3>1. CASE q = s
      BY <2>2, <3>1
    <3>2. CASE q # s
      BY <2>3, <3>2, ProjectIs DEF OpenFor
    <3> QED
      BY <3>1, <3>2
  <2> QED
    BY <2>4, <2>5 DEF OpenFor
<1>16. Reserved(routes', contentsMade', wanted' \cup usurped')
  <2>1. Reserved(routes, contentsMade, wanted \cup usurped)
    BY ProjectIs
  <2>2. \A q \in Servers \ {s} : routes'[q].does = "write" =>
          /\ routes[q].does = "write" /\ routes'[q].content = routes[q].content
          /\ routes'[q].content \in (1..contentsMade) \ (wanted \cup usurped)
    BY <1>10, <1>13, <2>1 DEF Reserved
  <2>3. wanted' \cup usurped' \subseteq wanted \cup usurped
    BY <1>1
  <2>4. contentsMade + 1 \notin wanted \cup usurped
    BY <1>2, ProjectIs
  <2>5. \A q \in Servers : routes'[q].does = "write" =>
          routes'[q].content \in (1..contentsMade') \ (wanted' \cup usurped')
    <3> TAKE q \in Servers
    <3>1. CASE q = s
      BY <1>1, <1>2, <1>12, <1>13, <2>3, <2>4, <3>1
    <3>2. CASE q # s
      BY <1>1, <1>2, <2>2, <2>3, <3>2
    <3> QED
      BY <3>1, <3>2
  <2>6. \A q, o \in Servers : routes'[q].does = "write" /\ routes'[o].does = "write"
          /\ routes'[q].content = routes'[o].content => q = o
    <3> SUFFICES ASSUME NEW q \in Servers, NEW o \in Servers, routes'[q].does = "write",
                        routes'[o].does = "write", routes'[q].content = routes'[o].content
                 PROVE  q = o
      OBVIOUS
    <3>1. CASE q # s /\ o # s
      BY <2>1, <2>2, <3>1 DEF Reserved
    <3>2. \A a \in Servers \ {s} : routes'[a].does = "write" => routes'[a].content # contentsMade + 1
      BY <1>2, <2>2
    <3>3. CASE q = s \/ o = s
      BY <1>12, <1>13, <3>2, <3>3
    <3> QED
      BY <3>1, <3>3
  <2> QED
    BY <2>5, <2>6 DEF Reserved
<1>17. ChecksHold(tree', routes')
  BY <1>10, <1>12, <1>13 DEF ChecksHold
<1> QED
  BY <1>6, <1>8, <1>14, <1>15, <1>16, <1>17 DEF ProjectInv

LEMMA EndWriteFileKeeps ==
    ASSUME ProjectInv, NEW s \in Servers, EndWriteFile(s)
    PROVE  ProjectInv'
<1>1. PICK held : held = {p \in AllPaths : s \in tree[p].writers}
  OBVIOUS
<1>2. PICK c : c = routes[s].content
  OBVIOUS
<1>3. /\ routes[s].does = "write"
      /\ tree' = [p \in AllPaths |-> IF p \in held THEN FileOf(c, tree[p].writers \ {s}) ELSE tree[p]]
      /\ wanted' = IF held = {} THEN wanted ELSE (wanted \ ContentsIn(held)) \cup {c}
      /\ routes' = Disturb(s) /\ contentsMade' = contentsMade /\ usurped' = usurped
  BY <1>1, <1>2 DEF EndWriteFile
<1>4. c \in (1..contentsMade) \ (wanted \cup usurped) /\ c \in Nat /\ c # 0
  BY <1>2, <1>3, ProjectIs DEF Reserved
<1>5. \A p, q \in held : p = q
  BY <1>1, ProjectIs DEF OpenFor
<1>6. held \in SUBSET AllPaths
  BY <1>1
<1>7. \A b : b \in ContentsIn(held) <=> b # 0 /\ \E p \in held : tree[p].content = b
  BY <1>6, ContentsInAre DEF ProjectInv
<1>8. \A p \in AllPaths :
        /\ tree'[p] \in Node
        /\ p \in held => /\ tree'[p].is = "file" /\ tree'[p].content = c
                           /\ tree'[p].writers = tree[p].writers \ {s}
                           /\ tree[p].is = "file"
        /\ p \notin held => tree'[p] = tree[p]
  <2> TAKE p \in AllPaths
  <2>1. tree[p] \in Node
    BY ProjectIs
  <2>2. CASE p \in held
    <3>1. tree'[p] = FileOf(c, tree[p].writers \ {s})
      BY <1>3, <2>2
    <3>2. tree[p].writers \ {s} \in SUBSET Servers
      BY <2>1, NodesAre
    <3>3. tree[p].is = "file"
      BY <1>1, <2>1, <2>2, NodesAre
    <3> QED
      BY <1>4, <2>2, <3>1, <3>2, <3>3, NodesAre
  <2>3. CASE p \notin held
    BY <1>3, <2>1, <2>3
  <2> QED
    BY <2>2, <2>3
<1>9. tree' \in [AllPaths -> Node]
  BY <1>3, <1>8
<1>10. HasParents(tree')
  <2> SUFFICES ASSUME NEW p \in AllPaths, tree'[p].is # "nothing", NEW a \in Above(p)
               PROVE  tree'[a].is = "directory"
    BY DEF HasParents
  <2>1. a \in AllPaths
    BY DEF Above
  <2>2. tree[p].is # "nothing"
    BY <1>8
  <2>3. tree[a].is = "directory"
    BY <2>2, ProjectIs DEF HasParents
  <2> QED
    BY <1>8, <2>1, <2>3
<1>11. Holds(tree', wanted' \ usurped')
  <2>1. Holds(tree, wanted \ usurped)
    BY ProjectIs
  <2>2. CASE held = {}
    <3>1. \A p \in AllPaths : tree'[p] = tree[p]
      BY <1>8, <2>2
    <3>2. wanted' \ usurped' = wanted \ usurped
      BY <1>3, <2>2
    <3> QED
      BY <2>1, <3>1, <3>2 DEF Holds
  <2>3. CASE held # {}
    <3>1. PICK o \in AllPaths : held = {o}
      BY <1>5, <1>6, <2>3
    <3>2. tree'[o].content = c /\ \A p \in AllPaths \ {o} : tree'[p] = tree[p]
      BY <1>8, <3>1
    <3>3. \A b : b \in wanted' \ usurped' <=>
             b = c \/ (b \in wanted \ usurped /\ (b = 0 \/ tree[o].content # b))
      BY <1>3, <1>4, <1>7, <2>3, <3>1
    <3>4. \A p \in AllPaths : tree[p].content # c
      BY <1>4, <2>1 DEF Holds
    <3>5. \A p \in AllPaths : tree'[p].content # 0 => tree'[p].content \in wanted' \ usurped'
      BY <2>1, <3>1, <3>2, <3>3 DEF Holds
    <3>6. \A b \in wanted' \ usurped' : \E p \in AllPaths : tree'[p].content = b
      <4> TAKE b \in wanted' \ usurped'
      <4>1. CASE b = c
        BY <3>2, <4>1
      <4>2. CASE b # c
        <5>1. b \in wanted \ usurped /\ b # 0
          BY <3>3, <4>2, ProjectIs
        <5>2. PICK p \in AllPaths : tree[p].content = b
          BY <2>1, <5>1 DEF Holds
        <5>3. p # o
          BY <3>3, <4>2, <5>1, <5>2
        <5> QED
          BY <3>2, <5>2, <5>3
      <4> QED
        BY <4>1, <4>2
    <3>7. \A p, q \in AllPaths : tree'[p].content = tree'[q].content /\ tree'[p].content # 0 => p = q
      BY <2>1, <3>2, <3>4 DEF Holds
    <3> QED
      BY <3>5, <3>6, <3>7 DEF Holds
  <2> QED
    BY <2>2, <2>3
<1>12. \A q \in Servers, p \in AllPaths : q \in tree'[p].writers => q # s /\ q \in tree[p].writers
  BY <1>1, <1>8
<1>13. \A q \in Servers, p, o \in AllPaths : q \in tree'[p].writers /\ q \in tree'[o].writers => p = o
  BY <1>12, ProjectIs DEF OpenFor
<1>14. /\ wanted' \subseteq 1..contentsMade /\ usurped' \subseteq 1..contentsMade
       /\ \A b \in wanted' \cup usurped' : \/ b \in wanted \cup usurped
                                           \/ routes[s].does = "write" /\ b = routes[s].content
  BY <1>2, <1>3, <1>4, ProjectIs
<1> QED
  BY <1>3, <1>9, <1>10, <1>11, <1>12, <1>13, <1>14, RouteIsOver

LEMMA DeletePathKeeps ==
    ASSUME ProjectInv, NEW s \in Servers, NEW p \in AllPaths, DeletePath(s, p)
    PROVE  ProjectInv'
<1>1. PICK left \in SUBSET {r \in Below(p) : Exists(r)} :
        /\ \A r \in left : Above(r) \cap Below(p) \subseteq left
        /\ tree' = [r \in AllPaths |-> IF r \in Below(p) \ left THEN Nowhere ELSE tree[r]]
        /\ wanted' = wanted \ ContentsIn(Below(p) \ left)
  BY DEF DeletePath
<1>2. routes[s] = NoRequest /\ routes' = Disturb(s) /\ contentsMade' = contentsMade /\ usurped' = usurped
  BY DEF DeletePath, Available
<1>3. PICK removedPaths : removedPaths = Below(p) \ left
  OBVIOUS
<1>4. removedPaths \in SUBSET AllPaths /\ Below(p) \subseteq AllPaths
  BY <1>3 DEF Below
<1>5. /\ \A r \in removedPaths : tree'[r] = Nowhere
      /\ \A r \in AllPaths \ removedPaths : tree'[r] = tree[r]
      /\ tree' \in [AllPaths -> Node]
  BY <1>1, <1>3, <1>4, ProjectIs, NodesAre
<1>6. \A c : c \in ContentsIn(removedPaths) <=> c # 0 /\ \E q \in removedPaths : tree[q].content = c
  BY <1>4, ContentsInAre DEF ProjectInv
<1>7. HasParents(tree')
  <2> SUFFICES ASSUME NEW r \in AllPaths, tree'[r].is # "nothing", NEW a \in Above(r)
               PROVE  tree'[a].is = "directory"
    BY DEF HasParents
  <2>1. a \in AllPaths /\ Under(a, r)
    BY DEF Above
  <2>2. r \notin removedPaths /\ tree[r].is # "nothing"
    BY <1>5, NodesAre
  <2>3. tree[a].is = "directory"
    BY <2>2, ProjectIs DEF HasParents
  <2>4. a \notin removedPaths
    <3>1. SUFFICES ASSUME a \in Below(p), a \notin left PROVE FALSE
      BY <1>3
    <3>2. Under(p, r)
      BY <2>1, <3>1, PathsAre, UnderOrder DEF Below
    <3>3. r \in left
      BY <1>3, <2>2, <3>2 DEF Below
    <3> QED
      BY <1>1, <3>1, <3>3
  <2> QED
    BY <1>5, <2>1, <2>3, <2>4
<1>8. Holds(tree', wanted' \ usurped')
  <2>1. Holds(tree, wanted \ usurped)
    BY ProjectIs
  <2>2. \A q \in AllPaths : tree'[q].content # 0 => q \notin removedPaths /\ tree'[q].content = tree[q].content
    BY <1>5, NodesAre
  <2>3. wanted' = wanted \ ContentsIn(removedPaths) /\ usurped' = usurped
    BY <1>1, <1>2, <1>3
  <2>4. \A q \in AllPaths : tree'[q].content # 0 => tree'[q].content \in wanted' \ usurped'
    BY <1>4, <1>6, <2>1, <2>2, <2>3 DEF Holds
  <2>5. \A c \in wanted' \ usurped' : \E q \in AllPaths : tree'[q].content = c
    <3> TAKE c \in wanted' \ usurped'
    <3>1. c \in wanted \ usurped /\ c \notin ContentsIn(removedPaths)
      BY <2>3
    <3>2. c # 0
      BY <3>1, ProjectIs
    <3>3. PICK q \in AllPaths : tree[q].content = c
      BY <2>1, <3>1 DEF Holds
    <3>4. q \notin removedPaths
      BY <1>6, <3>1, <3>2, <3>3
    <3> QED
      BY <1>5, <3>3, <3>4
  <2>6. \A q, o \in AllPaths : tree'[q].content = tree'[o].content /\ tree'[q].content # 0 => q = o
    BY <2>1, <2>2 DEF Holds
  <2> QED
    BY <2>4, <2>5, <2>6 DEF Holds
<1>9. \A q \in Servers, o \in AllPaths : q \in tree'[o].writers => q # s /\ q \in tree[o].writers
  <2>1. \A q \in Servers, o \in AllPaths : q \in tree'[o].writers => q \in tree[o].writers
    BY <1>5, NodesAre
  <2>2. \A o \in AllPaths : s \notin tree[o].writers
    BY <1>2, ProjectIs, NoRequestIs DEF OpenFor
  <2> QED
    BY <2>1, <2>2
<1>10. \A q \in Servers, o, r \in AllPaths : q \in tree'[o].writers /\ q \in tree'[r].writers => o = r
  BY <1>9, ProjectIs DEF OpenFor
<1>11. /\ wanted' \subseteq 1..contentsMade /\ usurped' \subseteq 1..contentsMade
       /\ \A c \in wanted' \cup usurped' : c \in wanted \cup usurped
  BY <1>1, <1>2, ProjectIs
<1> QED
  BY <1>2, <1>5, <1>7, <1>8, <1>9, <1>10, <1>11, RouteIsOver

(* Only the routes change, and what they hold open. *)
LEMMA RoutesChange ==
    ASSUME ProjectInv, NEW s \in Servers,
           routes' \in [Servers -> RouteState],
           \A q \in Servers \ {s} : routes'[q] = routes[q],
           routes'[s].does # "write",
           tree' \in [AllPaths -> Node],
           \A p \in AllPaths : /\ tree'[p].is = tree[p].is /\ tree'[p].content = tree[p].content
                               /\ tree'[p].writers \subseteq tree[p].writers \ {s},
           UNCHANGED <<contentsMade, wanted, usurped>>,
           routes'[s].does = "rename" =>
              Exists(routes'[s].from) /\ ~Exists(routes'[s].to)
    PROVE  ProjectInv'
<1>1. ProjectShapes'
  BY ProjectIs DEF ProjectShapes
<1>2. HasParents(tree')
  <2>1. \A p \in AllPaths : Above(p) \subseteq AllPaths
    BY DEF Above
  <2> QED
    BY <2>1, ProjectIs DEF HasParents
<1>3. Holds(tree', wanted' \ usurped')
  BY ProjectIs DEF Holds
<1>4. OpenFor(tree', routes')
  BY ProjectIs DEF OpenFor
<1>5. Reserved(routes', contentsMade', wanted' \cup usurped')
  BY ProjectIs DEF Reserved
<1>6. ChecksHold(tree', routes')
  <2> SUFFICES ASSUME NEW q \in Servers, routes'[q].does = "rename", ~routes'[q].disturbed
               PROVE  tree'[routes'[q].to].is = "nothing" /\ tree'[routes'[q].from].is # "nothing"
    BY DEF ChecksHold
  <2>1. routes'[q].to \in AllPaths /\ routes'[q].from \in AllPaths
    BY DEF RouteState
  <2>2. CASE q = s
    BY <2>1, <2>2 DEF Exists
  <2>3. CASE q # s
    <3>1. routes'[q] = routes[q]
      BY <2>3
    <3>2. tree[routes[q].to].is = "nothing" /\ tree[routes[q].from].is # "nothing"
      BY <3>1 DEF ProjectInv, ChecksHold
    <3> QED
      BY <2>1, <3>1, <3>2
  <2> QED
    BY <2>2, <2>3
<1> QED
  BY <1>1, <1>2, <1>3, <1>4, <1>5, <1>6 DEF ProjectInv

LEMMA BeginRenameKeeps ==
    ASSUME ProjectInv, NEW s \in Servers, NEW p \in AllPaths, NEW q \in AllPaths, BeginRename(s, p, q)
    PROVE  ProjectInv'
<1>1. PICK r : r = [does |-> "rename", from |-> p, to |-> q, content |-> 0, disturbed |-> FALSE]
  OBVIOUS
<1>2. /\ r \in RouteState /\ r.does = "rename" /\ r.from = p /\ r.to = q
  BY <1>1 DEF RouteState
<1>3. /\ routes[s] = NoRequest /\ Exists(p) /\ ~Exists(q)
      /\ routes' = [routes EXCEPT ![s] = r]
      /\ UNCHANGED <<tree, contentsMade, wanted, usurped>>
  BY <1>1 DEF BeginRename, Available
<1>4. routes' \in [Servers -> RouteState] /\ routes'[s] = r /\ \A o \in Servers \ {s} : routes'[o] = routes[o]
  BY <1>2, <1>3, ProjectIs
<1>5. \A o \in AllPaths : s \notin tree[o].writers
  BY <1>3, ProjectIs, NoRequestIs DEF OpenFor
<1>6. tree' \in [AllPaths -> Node] /\ \A o \in AllPaths :
         /\ tree'[o].is = tree[o].is /\ tree'[o].content = tree[o].content
         /\ tree'[o].writers \subseteq tree[o].writers \ {s}
  BY <1>3, <1>5, ProjectIs
<1>7. routes'[s].does # "write" /\ Exists(routes'[s].from) /\ ~Exists(routes'[s].to)
  BY <1>2, <1>3, <1>4
<1> QED
  BY <1>3, <1>4, <1>6, <1>7, RoutesChange

LEMMA ServerDiesKeeps ==
    ASSUME ProjectInv, NEW s \in Servers, ServerDies(s)
    PROVE  ProjectInv'
<1>1. /\ routes' = [routes EXCEPT ![s] = NoRequest]
      /\ tree' = [p \in AllPaths |-> [tree[p] EXCEPT !.writers = @ \ {s}]]
      /\ UNCHANGED <<contentsMade, wanted, usurped>>
  BY DEF ServerDies
<1>2. /\ routes' \in [Servers -> RouteState] /\ routes'[s] = NoRequest
      /\ \A o \in Servers \ {s} : routes'[o] = routes[o]
  BY <1>1, ProjectIs, NoRequestIs
<1>3. ASSUME NEW p \in AllPaths
      PROVE  /\ tree'[p] \in Node /\ tree'[p].is = tree[p].is /\ tree'[p].content = tree[p].content
             /\ tree'[p].writers \subseteq tree[p].writers \ {s}
  <2>1. tree'[p] = [tree[p] EXCEPT !.writers = @ \ {s}] /\ tree[p] \in Node
    BY <1>1, ProjectIs
  <2>2. CASE tree[p].is = "file"
    <3>1. tree[p] \in [is : {"file"}, content : Nat, writers : SUBSET Servers]
      BY <2>1, <2>2 DEF Node, Nowhere, Directory
    <3> QED
      BY <2>1, <3>1 DEF Node
  <2>3. CASE tree[p].is # "file"
    <3>1. tree[p] = Nowhere \/ tree[p] = Directory
      BY <2>1, <2>3 DEF Node
    <3>2. tree[p].writers = {} /\ tree'[p] = tree[p]
      BY <2>1, <3>1 DEF Nowhere, Directory
    <3> QED
      BY <2>1, <3>2
  <2> QED
    BY <2>2, <2>3
<1>4. tree' \in [AllPaths -> Node]
  BY <1>1, <1>3
<1> QED
  BY <1>1, <1>2, <1>3, <1>4, NoRequestIs, RoutesChange

LEMMA ProjectRowKeeps ==
    ASSUME ProjectInv, CreateProject \/ DeleteProject
    PROVE  ProjectInv'
<1>1. CASE DeleteProject
  <2>1. UNCHANGED <<tree, routes, contentsMade, wanted, usurped>>
    BY <1>1 DEF DeleteProject
  <2> QED
    BY <2>1 DEF ProjectInv, ProjectShapes
<1>2. CASE CreateProject
  <2>1. /\ tree[<<>>].is = "nothing" /\ tree' = [tree EXCEPT ![<<>>] = Directory]
        /\ UNCHANGED <<routes, contentsMade, wanted, usurped>>
    BY <1>2 DEF CreateProject, Exists
  <2>2. /\ <<>> \in AllPaths /\ AllPaths \subseteq Paths
        /\ tree'[<<>>] = Directory /\ \A p \in AllPaths \ {<<>>} : tree'[p] = tree[p]
        /\ tree' \in [AllPaths -> Node]
    BY <2>1, PathsAre, ProjectIs, NodesAre
  <2>3. \A p \in AllPaths : tree[p].is = "nothing"
    <3> SUFFICES ASSUME NEW p \in AllPaths, tree[p].is # "nothing" PROVE FALSE
      OBVIOUS
    <3>1. p # <<>> /\ Under(<<>>, p)
      BY <2>1, <2>2, UnderOrder
    <3>2. <<>> \in Above(p)
      BY <2>2, <3>1 DEF Above
    <3>3. tree[<<>>].is = "directory"
      BY <3>2, ProjectIs DEF HasParents
    <3> QED
      BY <2>1, <3>3
  <2>4. \A p \in AllPaths : /\ tree[p].content = 0 /\ tree[p].writers = {}
                            /\ tree'[p].content = 0 /\ tree'[p].writers = {}
    BY <2>2, <2>3, ProjectIs, NodesAre
  <2>5. HasParents(tree')
    <3> SUFFICES ASSUME NEW p \in AllPaths, tree'[p].is # "nothing", NEW q \in Above(p)
                 PROVE  tree'[q].is = "directory"
      BY DEF HasParents
    <3>1. p = <<>>
      BY <2>2, <2>3
    <3>2. q = <<>>
      BY <2>2, <3>1, UnderOrder DEF Above
    <3> QED
      BY <2>2, <3>2, NodesAre
  <2>6. Holds(tree', wanted' \ usurped')
    BY <2>1, <2>4, ProjectIs DEF Holds
  <2>7. OpenFor(tree', routes')
    BY <2>4 DEF OpenFor
  <2>8. Reserved(routes', contentsMade', wanted' \cup usurped')
    BY <2>1, ProjectIs DEF Reserved
  <2>9. \A s \in Servers : routes[s].from \in AllPaths
    BY ProjectIs DEF RouteState
  <2>10. \A s \in Servers : ~(routes[s].does = "rename" /\ ~routes[s].disturbed)
    BY <2>3, <2>9 DEF ProjectInv, ChecksHold
  <2>11. ChecksHold(tree', routes')
    BY <2>1, <2>10 DEF ChecksHold
  <2>12. ProjectShapes'
    BY <2>1, <2>2, ProjectIs DEF ProjectShapes
  <2> QED
    BY <2>5, <2>6, <2>7, <2>8, <2>11, <2>12 DEF ProjectInv
<1> QED
  BY <1>1, <1>2

(* Where what is at r came from when p was moved to q. *)
CameFrom(p, q, r) == IF Under(q, r) THEN Shifted(p, q, r) ELSE r

MoveOf(t, p, q) ==
    /\ t \in [AllPaths -> Node]
    /\ \A r \in AllPaths : t[r].is # "nothing" =>
          /\ CameFrom(p, q, r) \in AllPaths /\ CameFrom(p, q, r) # q
          /\ t[r] = tree[CameFrom(p, q, r)]
    /\ \A r, a \in AllPaths :
          t[r].is # "nothing" /\ t[a].is # "nothing" /\ CameFrom(p, q, r) = CameFrom(p, q, a) => r = a
    /\ \A o \in AllPaths : Exists(o) /\ o # q =>
          \E r \in AllPaths : CameFrom(p, q, r) = o /\ t[r] = tree[o]
    /\ HasParents(t)

(* A move takes what is at p and below it along, keeps the rest but what was at
   q, and merges nothing. *)
LEMMA MovedIs ==
    ASSUME ProjectInv, NEW p \in AllPaths, NEW q \in AllPaths, CanRename(p, q), FitsIn(p, q)
    PROVE  MoveOf(Moved(p, q), p, q)
<1>1. /\ Exists(p) /\ p # <<>> /\ q # <<>> /\ ~Under(p, q)
      /\ IsDir(SubSeq(q, 1, Len(q) - 1))
      /\ Exists(q) => \A r \in Below(q) \ {q} : ~Exists(r)
  BY DEF CanRename
<1>2. AllPaths \subseteq Paths /\ p \in Paths /\ q \in Paths
  BY PathsAre
<1>3. HasParents(tree) /\ \A r \in AllPaths : tree[r] \in Node
  BY ProjectIs
<1>4. \A r \in AllPaths : Under(q, r) /\ r # q => ~Exists(r)
  <2> SUFFICES ASSUME NEW r \in AllPaths, Under(q, r), r # q, Exists(r) PROVE FALSE
    OBVIOUS
  <2>1. q \in Above(r)
    BY DEF Above
  <2>2. Exists(q)
    BY <1>3, <2>1 DEF HasParents, Exists
  <2>3. r \in Below(q) \ {q}
    BY DEF Below
  <2> QED
    BY <1>1, <2>2, <2>3
<1>5. ~Under(q, p)
  <2>1. p # q
    BY <1>1, <1>2, UnderOrder
  <2> QED
    BY <1>1, <1>4, <2>1
<1>6. \A r \in Paths : ~(Under(p, r) /\ Under(q, r))
  BY <1>1, <1>2, <1>5, UnderOrder
<1>7. PICK t : t = Moved(p, q)
  OBVIOUS
<1>8. /\ DOMAIN t = AllPaths /\ t = [r \in AllPaths |-> t[r]]
      /\ \A r \in AllPaths :
           t[r] = IF Under(q, r)
                  THEN IF Shifted(p, q, r) \in AllPaths THEN tree[Shifted(p, q, r)] ELSE Nowhere
                  ELSE IF Under(p, r) THEN Nowhere ELSE tree[r]
  BY <1>7 DEF Moved, Shifted
<1>9. t \in [AllPaths -> Node]
  BY <1>3, <1>8, NodesAre
<1>10. \A r \in AllPaths : Under(q, r) =>
          /\ Shifted(p, q, r) \in Paths /\ Under(p, Shifted(p, q, r))
          /\ Shifted(q, p, Shifted(p, q, r)) = r
  BY <1>2, ShiftedUnder
<1>11. \A r \in AllPaths : t[r].is # "nothing" =>
          /\ CameFrom(p, q, r) \in AllPaths /\ CameFrom(p, q, r) # q
          /\ t[r] = tree[CameFrom(p, q, r)]
          /\ Under(q, r) <=> Under(p, CameFrom(p, q, r))
  <2> SUFFICES ASSUME NEW r \in AllPaths, t[r].is # "nothing"
               PROVE  /\ CameFrom(p, q, r) \in AllPaths /\ CameFrom(p, q, r) # q
                      /\ t[r] = tree[CameFrom(p, q, r)]
                      /\ Under(q, r) <=> Under(p, CameFrom(p, q, r))
    OBVIOUS
  <2>1. CASE Under(q, r)
    <3>1. CameFrom(p, q, r) = Shifted(p, q, r)
      BY <2>1 DEF CameFrom
    <3>2. Shifted(p, q, r) \in AllPaths /\ t[r] = tree[Shifted(p, q, r)]
      BY <1>8, <2>1, NodesAre
    <3>3. Under(p, Shifted(p, q, r))
      BY <1>10, <2>1
    <3>4. Shifted(p, q, r) # q
      BY <1>1, <3>3
    <3> QED
      BY <2>1, <3>1, <3>2, <3>3, <3>4
  <2>2. CASE ~Under(q, r)
    <3>1. CameFrom(p, q, r) = r
      BY <2>2 DEF CameFrom
    <3>2. ~Under(p, r) /\ t[r] = tree[r]
      BY <1>8, <2>2, NodesAre
    <3>3. r # q
      BY <1>2, <2>2, UnderOrder
    <3> QED
      BY <2>2, <3>1, <3>2, <3>3
  <2> QED
    BY <2>1, <2>2
<1>12. \A r, a \in AllPaths :
          t[r].is # "nothing" /\ t[a].is # "nothing" /\ CameFrom(p, q, r) = CameFrom(p, q, a) => r = a
  <2> SUFFICES ASSUME NEW r \in AllPaths, NEW a \in AllPaths, t[r].is # "nothing", t[a].is # "nothing",
                      CameFrom(p, q, r) = CameFrom(p, q, a)
               PROVE  r = a
    OBVIOUS
  <2>1. Under(q, r) <=> Under(q, a)
    BY <1>11
  <2>2. CASE Under(q, r)
    <3>1. Shifted(p, q, r) = Shifted(p, q, a)
      BY <2>1, <2>2 DEF CameFrom
    <3> QED
      BY <1>10, <2>1, <2>2, <3>1
  <2>3. CASE ~Under(q, r)
    BY <2>1, <2>3 DEF CameFrom
  <2> QED
    BY <2>2, <2>3
<1>13. \A o \in AllPaths : Exists(o) /\ o # q =>
          \E r \in AllPaths : CameFrom(p, q, r) = o /\ t[r] = tree[o]
  <2> SUFFICES ASSUME NEW o \in AllPaths, Exists(o), o # q
               PROVE  \E r \in AllPaths : CameFrom(p, q, r) = o /\ t[r] = tree[o]
    OBVIOUS
  <2>1. CASE Under(p, o)
    <3>1. PICK r : r = Shifted(q, p, o)
      OBVIOUS
    <3>2. r \in AllPaths
      <4>1. o \in Below(p)
        BY <2>1 DEF Below
      <4>2. (q \o SubSeq(o, Len(p) + 1, Len(o))) \in AllPaths
        BY <4>1 DEF FitsIn
      <4> QED
        BY <3>1, <4>2 DEF Shifted
    <3>3. Under(q, r) /\ Shifted(p, q, r) = o
      BY <1>2, <2>1, <3>1, ShiftedUnder
    <3>4. CameFrom(p, q, r) = o
      BY <3>3 DEF CameFrom
    <3>5. t[r] = tree[o]
      BY <1>8, <3>2, <3>3
    <3> QED
      BY <3>2, <3>4, <3>5
  <2>2. CASE ~Under(p, o)
    <3>1. ~Under(q, o)
      BY <1>4
    <3>2. CameFrom(p, q, o) = o
      BY <3>1 DEF CameFrom
    <3>3. t[o] = tree[o]
      BY <1>8, <2>2, <3>1
    <3> QED
      BY <3>2, <3>3
  <2> QED
    BY <2>1, <2>2
<1>14. HasParents(t)
  <2> SUFFICES ASSUME NEW r \in AllPaths, t[r].is # "nothing", NEW a \in Above(r)
               PROVE  t[a].is = "directory"
    BY DEF HasParents
  <2>1. a \in AllPaths /\ a \in Paths /\ r \in Paths /\ Under(a, r) /\ a # r
    BY <1>2 DEF Above
  <2>2. CASE Under(q, r) /\ Under(q, a)
    <3>1. PICK o : o = Shifted(p, q, r)
      OBVIOUS
    <3>2. PICK b : b = Shifted(p, q, a)
      OBVIOUS
    <3>3. o \in AllPaths /\ tree[o].is # "nothing" /\ Under(q, r)
      BY <1>11, <2>2, <3>1 DEF CameFrom
    <3>4. b \in Paths /\ Under(b, o)
      BY <1>2, <2>1, <2>2, <3>1, <3>2, ShiftedUnder
    <3>5. b \in AllPaths
      BY <3>3, <3>4, PrefixesArePaths
    <3>6. b # o
      BY <1>10, <2>1, <2>2, <3>1, <3>2
    <3>7. b \in Above(o)
      BY <3>4, <3>5, <3>6 DEF Above
    <3>8. tree[b].is = "directory"
      BY <1>3, <3>3, <3>7 DEF HasParents
    <3>9. t[a] = tree[b]
      BY <1>8, <2>1, <2>2, <3>2, <3>5
    <3> QED
      BY <3>8, <3>9
  <2>3. CASE Under(q, r) /\ ~Under(q, a)
    <3>1. Under(a, q) /\ a # q
      BY <1>2, <2>1, <2>3, UnderOrder
    <3>2. PICK d \in AllPaths : d = SubSeq(q, 1, Len(q) - 1) /\ Under(a, d)
      BY <1>1, <2>1, <3>1, ParentIs
    <3>3. tree[d].is = "directory"
      BY <1>1, <3>2 DEF IsDir
    <3>4. tree[a].is = "directory"
      <4>1. CASE a = d
        BY <3>3, <4>1
      <4>2. CASE a # d
        <5>1. a \in Above(d)
          BY <2>1, <3>2, <4>2 DEF Above
        <5> QED
          BY <1>3, <3>3, <5>1 DEF HasParents
      <4> QED
        BY <4>1, <4>2
    <3>5. ~Under(p, a)
      BY <1>1, <1>2, <2>1, <3>1, UnderOrder
    <3> QED
      BY <1>8, <2>1, <2>3, <3>4, <3>5
  <2>4. CASE ~Under(q, r)
    <3>1. ~Under(p, r) /\ t[r] = tree[r]
      BY <1>8, <2>4, NodesAre
    <3>2. ~Under(q, a) /\ ~Under(p, a)
      BY <1>2, <2>1, <2>4, <3>1, UnderOrder
    <3>3. tree[a].is = "directory"
      BY <1>3, <3>1 DEF HasParents
    <3> QED
      BY <1>8, <2>1, <3>2, <3>3
  <2> QED
    BY <2>2, <2>3, <2>4
<1> QED
  BY <1>7, <1>9, <1>11, <1>12, <1>13, <1>14 DEF MoveOf

LEMMA EndRenameKeeps ==
    ASSUME ProjectInv, NEW s \in Servers, EndRename(s)
    PROVE  ProjectInv'
<1>1. PICK p : p = routes[s].from
  OBVIOUS
<1>2. PICK q : q = routes[s].to
  OBVIOUS
<1>3. /\ routes[s].does = "rename" /\ FitsIn(p, q)
      /\ contentsMade' = contentsMade /\ wanted' = wanted
      /\ CanRename(p, q) =>
            /\ tree' = Moved(p, q) /\ routes' = Disturb(s)
            /\ usurped' = IF routes[s].disturbed THEN usurped \cup ContentsIn({q}) ELSE usurped
      /\ ~CanRename(p, q) =>
            /\ tree' = tree /\ usurped' = usurped
            /\ routes' = [routes EXCEPT ![s] = NoRequest]
  BY <1>1, <1>2 DEF EndRename
<1>4. p \in AllPaths /\ q \in AllPaths
  BY <1>1, <1>2, ProjectIs DEF RouteState
<1>5. \A o \in AllPaths : s \notin tree[o].writers
  BY <1>3, ProjectIs DEF OpenFor
<1>6. CASE ~CanRename(p, q)
  <2>1. /\ routes' \in [Servers -> RouteState] /\ routes'[s] = NoRequest
        /\ \A o \in Servers \ {s} : routes'[o] = routes[o]
    BY <1>3, <1>6, ProjectIs, NoRequestIs
  <2>2. tree' \in [AllPaths -> Node] /\ \A o \in AllPaths :
           /\ tree'[o].is = tree[o].is /\ tree'[o].content = tree[o].content
           /\ tree'[o].writers \subseteq tree[o].writers \ {s}
    BY <1>3, <1>5, <1>6, ProjectIs
  <2> QED
    BY <1>3, <1>6, <2>1, <2>2, NoRequestIs, RoutesChange
<1>7. CASE CanRename(p, q)
  <2>1. PICK t : t = Moved(p, q)
    OBVIOUS
  <2>2. /\ t \in [AllPaths -> Node]
        /\ \A r \in AllPaths : t[r].is # "nothing" =>
              /\ CameFrom(p, q, r) \in AllPaths /\ CameFrom(p, q, r) # q
              /\ t[r] = tree[CameFrom(p, q, r)]
        /\ \A r, a \in AllPaths :
              t[r].is # "nothing" /\ t[a].is # "nothing" /\ CameFrom(p, q, r) = CameFrom(p, q, a) => r = a
        /\ \A o \in AllPaths : Exists(o) /\ o # q =>
              \E r \in AllPaths : CameFrom(p, q, r) = o /\ t[r] = tree[o]
        /\ HasParents(t)
    <3>1. MoveOf(t, p, q)
      BY <1>3, <1>4, <1>7, <2>1, MovedIs
    <3> QED
      BY <3>1 DEF MoveOf
  <2>3. tree' = t
    BY <1>3, <1>7, <2>1
  <2>4. \A r \in AllPaths : /\ t[r] \in Node /\ tree[r] \in Node
                            /\ t[r].content # 0 => t[r].is # "nothing"
                            /\ t[r].writers # {} => t[r].is # "nothing"
                            /\ tree[r].content # 0 => Exists(r)
    BY <2>2, ProjectIs, NodesAre DEF Exists
  <2>5. usurped \subseteq usurped' /\ \A c \in usurped' : c \in usurped \/ (c # 0 /\ tree[q].content = c)
    <3>1. {q} \in SUBSET AllPaths
      BY <1>4
    <3>2. \A c : c \in ContentsIn({q}) <=> c # 0 /\ \E o \in {q} : tree[o].content = c
      BY <3>1, ContentsInAre DEF ProjectInv
    <3> QED
      BY <1>3, <1>7, <3>2
  <2>6. tree[q].content # 0 => tree[q].content \in usurped'
    <3>1. CASE routes[s].disturbed
      <4>1. {q} \in SUBSET AllPaths
        BY <1>4
      <4>2. \A c : c \in ContentsIn({q}) <=> c # 0 /\ \E o \in {q} : tree[o].content = c
        BY <4>1, ContentsInAre DEF ProjectInv
      <4> QED
        BY <1>3, <1>7, <3>1, <4>2
    <3>2. CASE ~routes[s].disturbed
      <4>1. tree[q].is = "nothing"
        BY <1>2, <1>3, <3>2 DEF ProjectInv, ChecksHold
      <4> QED
        BY <1>4, <2>4, <4>1 DEF Exists
    <3> QED
      BY <3>1, <3>2
  <2>7. Holds(tree, wanted \ usurped)
    BY ProjectIs
  <2>8. Holds(t, wanted \ usurped')
    <3>1. \A r \in AllPaths : t[r].content # 0 => t[r].content \in wanted \ usurped'
      <4> SUFFICES ASSUME NEW r \in AllPaths, t[r].content # 0 PROVE t[r].content \in wanted \ usurped'
        OBVIOUS
      <4>1. PICK o \in AllPaths : o # q /\ t[r] = tree[o]
        BY <2>2, <2>4
      <4>2. tree[o].content \in wanted \ usurped /\ tree[q].content # tree[o].content
        BY <1>4, <2>7, <4>1 DEF Holds
      <4> QED
        BY <2>5, <4>1, <4>2
    <3>2. \A c \in wanted \ usurped' : \E r \in AllPaths : t[r].content = c
      <4> TAKE c \in wanted \ usurped'
      <4>1. c \in wanted \ usurped /\ c # 0
        BY <2>5, ProjectIs
      <4>2. PICK o \in AllPaths : tree[o].content = c
        BY <2>7, <4>1 DEF Holds
      <4>3. o # q
        BY <2>6, <4>1, <4>2
      <4>4. PICK r \in AllPaths : t[r] = tree[o]
        BY <2>2, <2>4, <4>1, <4>2, <4>3
      <4> QED
        BY <4>2, <4>4
    <3>3. \A r, a \in AllPaths : t[r].content = t[a].content /\ t[r].content # 0 => r = a
      <4> SUFFICES ASSUME NEW r \in AllPaths, NEW a \in AllPaths, t[r].content = t[a].content, t[r].content # 0
                   PROVE  r = a
        OBVIOUS
      <4>1. t[r].is # "nothing" /\ t[a].is # "nothing"
        BY <2>4
      <4>2. /\ CameFrom(p, q, r) \in AllPaths /\ t[r] = tree[CameFrom(p, q, r)]
            /\ CameFrom(p, q, a) \in AllPaths /\ t[a] = tree[CameFrom(p, q, a)]
        BY <2>2, <4>1
      <4>3. CameFrom(p, q, r) = CameFrom(p, q, a)
        BY <2>7, <4>2 DEF Holds
      <4> QED
        BY <2>2, <4>1, <4>3
    <3> QED
      BY <3>1, <3>2, <3>3 DEF Holds
  <2>9. \A w \in Servers, r \in AllPaths : w \in t[r].writers =>
          w # s /\ \E o \in AllPaths : w \in tree[o].writers
    BY <1>5, <2>2, <2>4
  <2>10. \A w \in Servers, r, a \in AllPaths : w \in t[r].writers /\ w \in t[a].writers => r = a
    <3> SUFFICES ASSUME NEW w \in Servers, NEW r \in AllPaths, NEW a \in AllPaths,
                        w \in t[r].writers, w \in t[a].writers
                 PROVE  r = a
      OBVIOUS
    <3>1. t[r].is # "nothing" /\ t[a].is # "nothing"
      BY <2>4
    <3>2. /\ CameFrom(p, q, r) \in AllPaths /\ t[r] = tree[CameFrom(p, q, r)]
          /\ CameFrom(p, q, a) \in AllPaths /\ t[a] = tree[CameFrom(p, q, a)]
      BY <2>2, <3>1
    <3>3. CameFrom(p, q, r) = CameFrom(p, q, a)
      BY <3>2, ProjectIs DEF OpenFor
    <3> QED
      BY <2>2, <3>1, <3>3
  <2>11. /\ wanted' \subseteq 1..contentsMade /\ usurped' \subseteq 1..contentsMade
         /\ \A c \in wanted' \cup usurped' : c \in wanted \cup usurped
    <3>1. \A c \in usurped' : c \in wanted \cup usurped
      BY <1>4, <2>5, <2>7 DEF Holds
    <3> QED
      BY <1>3, <3>1, ProjectIs
  <2>12. wanted' \ usurped' = wanted \ usurped'
    BY <1>3
  <2> QED
    BY <1>3, <1>7, <2>2, <2>3, <2>8, <2>9, <2>10, <2>11, <2>12, RouteIsOver
<1> QED
  BY <1>6, <1>7

LEMMA ProjectStep == ProjectInv /\ FilesNext => ProjectInv'
<1> SUFFICES ASSUME ProjectInv, FilesNext PROVE ProjectInv'
  OBVIOUS
<1>1. CASE CreateProject \/ DeleteProject
  BY <1>1, ProjectRowKeeps
<1>2. CASE \E s \in Servers :
          \/ EndWriteFile(s) \/ EndRename(s) \/ ServerDies(s)
          \/ \E p \in FilePaths : BeginWriteFile(s, p)
          \/ \E p \in AllPaths, dir \in BOOLEAN : CreateEmpty(s, p, dir)
          \/ \E p, q \in AllPaths : BeginRename(s, p, q)
          \/ \E p \in AllPaths : DeletePath(s, p)
  BY <1>2, EndWriteFileKeeps, EndRenameKeeps, ServerDiesKeeps, BeginWriteFileKeeps, CreateEmptyKeeps,
     BeginRenameKeeps, DeletePathKeeps
<1> QED
  BY <1>1, <1>2 DEF FilesNext

-----------------------------------------------------------------------------
(* What is stored, side by side: each keeps its own invariant while the     *)
(* others leave it alone.                                                   *)

StorageInv ==
    /\ part = "locks" => LocksInv
    /\ part = "pool" => PoolInv
    /\ part = "schema" => SchemaInv
    /\ part = "recovery" => RecoveryInv
    /\ part = "files" => SafeFilesInv
    /\ part = "project" => ProjectInv
    /\ part = "catalog" => CatalogInv
    /\ part = "keys" => KeysInv

LEMMA SafeFilesStutter == SafeFilesInv /\ UNCHANGED fileVars => SafeFilesInv'
<1> SUFFICES ASSUME SafeFilesInv, UNCHANGED fileVars PROVE SafeFilesInv'
  OBVIOUS
<1>1. /\ file' = file /\ backup' = backup /\ copySource' = copySource /\ op' = op
      /\ temps' = temps /\ versions' = versions /\ lastWhole' = lastWhole /\ exposed' = exposed
      /\ fileCrashes' = fileCrashes
  BY DEF fileVars
<1>2. OpsFit /\ TempsInv
  BY Zenon DEF SafeFilesInv
<1>3. OpsFit'
  BY Zenon, <1>1, <1>2 DEF OpsFit
<1>4. Tidying' <=> Tidying
  BY Zenon, <1>1 DEF Tidying
<1>5. TempsInv'
  BY Zenon, <1>1, <1>2, <1>4 DEF TempsInv
<1>6. ASSUME TurnsTaken PROVE TurnsTaken'
  <2>1. Busy' = Busy
    BY Zenon, <1>1 DEF Busy
  <2>2. IsSaved' <=> IsSaved
    BY Zenon, <1>1 DEF IsSaved
  <2>3. \A r : Covered(r) => Covered(r)'
    BY Zenon, <1>1, <2>2 DEF Covered
  <2>4. \A e \in Busy : Covered(op[e]) => Covered(op[e])'
    BY Zenon, <1>1, <2>2 DEF Covered
  <2> QED
    BY Zenon, <1>1, <1>6, <2>1, <2>3, <2>4 DEF TurnsTaken
<1> QED
  BY Zenon, <1>1, <1>3, <1>5, <1>6 DEF SafeFilesInv

LEMMA CatalogStutter == CatalogInv /\ UNCHANGED catalogVars => CatalogInv'
<1> SUFFICES ASSUME CatalogInv, UNCHANGED catalogVars PROVE CatalogInv'
  OBVIOUS
<1>1. catalog' = catalog /\ catalogFile' = catalogFile /\ unsavedTools' = unsavedTools
  BY DEF catalogVars
<1> QED
  BY <1>1 DEF CatalogInv, FileFollowsCatalog

LEMMA KeysStutter == KeysInv /\ UNCHANGED keyVars => KeysInv'
<1> SUFFICES ASSUME KeysInv, UNCHANGED keyVars PROVE KeysInv'
  OBVIOUS
<1>1. /\ cipherFile' = cipherFile /\ cipherOf' = cipherOf /\ keysFile' = keysFile
      /\ editing' = editing /\ keysMade' = keysMade /\ saved' = saved
      /\ keptUnder' = keptUnder /\ tangled' = tangled
  BY DEF keyVars
<1> QED
  <2>1. KeyShapes /\ KeysWereSaved /\ (~tangled => KeysAreLast)
    BY Zenon DEF KeysInv
  <2>2. \A m \in Managers : (Editing(m)' <=> Editing(m)) /\ (Ciphering(m)' <=> Ciphering(m))
    BY Zenon, <1>1 DEF Editing, Ciphering
  <2>3. KeyShapes'
    BY Zenon, <1>1, <2>1, <2>2 DEF KeyShapes
  <2>4. KeysWereSaved'
    BY Zenon, <1>1, <2>1, <2>2 DEF KeysWereSaved
  <2>5. ASSUME ~tangled PROVE KeysAreLast'
    BY Zenon, <1>1, <2>1, <2>2, <2>5 DEF KeysAreLast
  <2> QED
    BY Zenon, <1>1, <2>3, <2>4, <2>5 DEF KeysInv

LEMMA ProjectStutter == ProjectInv /\ UNCHANGED filesVars => ProjectInv'
<1> SUFFICES ASSUME ProjectInv, UNCHANGED filesVars PROVE ProjectInv'
  OBVIOUS
<1>1. /\ tree' = tree /\ routes' = routes /\ contentsMade' = contentsMade
      /\ wanted' = wanted /\ usurped' = usurped
  BY DEF filesVars
<1> QED
  BY Zenon, <1>1 DEF ProjectInv, ProjectShapes, HasParents, Holds, OpenFor, Reserved, ChecksHold

LEMMA StorageMoves ==
    ASSUME [MCNext]_<<part, allVars>>
    PROVE  /\ part' = part
           /\ part = "locks" => LocksNext \/ UNCHANGED lockVars
           /\ part = "pool" => PoolNext \/ UNCHANGED poolVars
           /\ part = "schema" => SchemaNext \/ UNCHANGED storageVars
           /\ part = "recovery" => RecoveryNext \/ UNCHANGED storageVars
           /\ part = "files" => SafeFilesNext \/ UNCHANGED fileVars
           /\ part = "project" => FilesNext \/ UNCHANGED filesVars
           /\ part = "catalog" => RegistryStep \/ UNCHANGED catalogVars
           /\ part = "keys" => KeysNext \/ UNCHANGED keyVars
<1>1. part' = part /\ (StorageStep \/ UNCHANGED storageParts)
  BY OneGroupMoves
<1>2. CASE UNCHANGED storageParts
  BY Zenon, <1>1, <1>2 DEF storageParts
<1>3. CASE StorageStep
  BY SMT, <1>1, <1>3 DEF StorageStep
<1> QED
  BY <1>1, <1>2, <1>3

LEMMA StorageStart == MCInit => StorageInv
<1>1. MCInit => /\ LocksInit /\ PoolInit /\ StorageInit /\ SafeFilesInit /\ FilesInit
                /\ CatalogInit /\ KeysInit
  BY Zenon DEF MCInit
<1> QED
  BY Zenon, <1>1, LocksStart, PoolStart, SchemaStart, RecoveryStart, SafeFilesStart, ProjectStart,
     CatalogStart, KeysStart DEF StorageInv

LEMMA StorageKeeps == StorageInv /\ [MCNext]_<<part, allVars>> => StorageInv'
<1> SUFFICES ASSUME StorageInv, [MCNext]_<<part, allVars>> PROVE StorageInv'
  OBVIOUS
<1>1. part' = part
  BY StorageMoves
<1>2. part = "locks" => LocksInv'
  BY StorageMoves, LocksStep DEF StorageInv
<1>3. part = "pool" => PoolInv'
  BY StorageMoves, PoolStep DEF StorageInv
<1>4. part = "schema" => SchemaInv'
  BY StorageMoves, SchemaStep DEF StorageInv
<1>5. part = "recovery" => RecoveryInv'
  BY StorageMoves, RecoveryStep DEF StorageInv
<1>6. part = "files" => SafeFilesInv'
  BY StorageMoves, SafeFilesStep, SafeFilesStutter DEF StorageInv
<1>7. part = "project" => ProjectInv'
  BY StorageMoves, ProjectStep, ProjectStutter DEF StorageInv
<1>8. part = "catalog" => CatalogInv'
  BY StorageMoves, CatalogStep, CatalogStutter DEF StorageInv
<1>9. part = "keys" => KeysInv'
  BY StorageMoves, KeysStep, KeysStutter DEF StorageInv
<1> QED
  BY Zenon, <1>1, <1>2, <1>3, <1>4, <1>5, <1>6, <1>7, <1>8, <1>9 DEF StorageInv

LEMMA StorageInvariant == MCSpec => []StorageInv
<1> QED
  BY StorageStart, StorageKeeps, PTL DEF MCSpec

(* What is stored stays whole, whatever the processes, paths, connections,
   tables, engines, servers, tools and keys: whoever is in a with block has its
   lock and a deadlock has a block entered out of order or a probe behind it; no
   connection is lost or lent twice; a schema that was made is complete; a run is
   resumed only after calls that ended; a file or its backup is the content last
   stored in full, whatever step fails, until a torn file is backed up, a write
   without a backup has to copy or engines overlap; no content of a project is
   lost or doubled but those that were usurped; the catalog is in its file; and a
   key is found as it was last saved while no two managers overlap and no crash
   tears the file. *)
THEOREM StorageHold == MCSpec => []StorageIsSound
<1>1. StorageInv => StorageIsSound
  <2>1. /\ PoolInv => PoolIsWhole
        /\ RecoveryInv => NothingHalfDone
        /\ CatalogInv => FileFollowsCatalog
    BY DEF PoolInv, RecoveryInv, CatalogInv
  <2> QED
    BY Zenon, <2>1, LocksAreRight, SchemaIsRight, SafeFilesAreSafe, ProjectIsKept, KeysAreFoundThen
       DEF StorageInv, StorageIsSound
<1> QED
  BY <1>1, StorageInvariant, PTL

-----------------------------------------------------------------------------
(* Numbers, and sums over a sequence.                                       *)

(* What holds of 0, and of n + 1 when it holds of n, holds up to any bound. *)
LEMMA UpTo ==
    ASSUME NEW N \in Nat, NEW S, 0 \in S, \A n \in 0..(N - 1) : n \in S => n + 1 \in S
    PROVE  \A n \in 0..N : n \in S
<1> SUFFICES ASSUME {n \in 0..N : n \notin S} # {} PROVE FALSE
  OBVIOUS
<1>1. PICK x \in {n \in 0..N : n \notin S} :
          \A y \in {n \in 0..N : n \notin S} : ~(<<y, x>> \in OpToRel(<, Nat))
  <2>1. {n \in 0..N : n \notin S} \in SUBSET Nat
    OBVIOUS
  <2> QED
    BY <2>1, NatLessThanWellFounded, WFMin
<1>2. x \in 0..N /\ x \notin S /\ x # 0
  OBVIOUS
<1>3. x - 1 \in 0..(N - 1) /\ x - 1 \in 0..N /\ x - 1 < x /\ (x - 1) + 1 = x
  BY <1>2
<1>4. x - 1 \in S
  <2> SUFFICES ASSUME x - 1 \notin S PROVE FALSE
    OBVIOUS
  <2>1. <<x - 1, x>> \notin OpToRel(<, Nat)
    BY <1>1, <1>3
  <2>2. x - 1 \in Nat /\ x \in Nat
    BY <1>2, <1>3
  <2> QED
    BY <1>3, <2>1, <2>2 DEF OpToRel
<1> QED
  BY <1>2, <1>3, <1>4

(* A set of numbers that is not empty has a least one, and when it is bounded *)
(* a greatest one.                                                            *)
LEMMA SmallestOf ==
    ASSUME NEW I \in SUBSET Nat, I # {}
    PROVE  Min(I) \in I /\ \A i \in I : Min(I) <= i
<1>1. PICK x \in I : \A y \in I : ~(<<y, x>> \in OpToRel(<, Nat))
  BY NatLessThanWellFounded, WFMin
<1>2. \A y \in I : x <= y
  <2> SUFFICES ASSUME NEW y \in I PROVE x <= y
    OBVIOUS
  <2>1. ~(y < x)
    BY <1>1 DEF OpToRel
  <2> QED
    BY <2>1
<1> QED
  BY <1>2 DEF Min

LEMMA GreatestOf ==
    ASSUME NEW N \in Nat, NEW I \in SUBSET (0..N), I # {}
    PROVE  \E x \in I : \A i \in I : i <= x
<1>1. {N - i : i \in I} \in SUBSET Nat /\ {N - i : i \in I} # {}
  <2>1. \A i \in I : N - i \in Nat
    OBVIOUS
  <2> QED
    BY <2>1
<1>2. PICK m \in {N - i : i \in I} : \A k \in {N - i : i \in I} : m <= k
  BY <1>1, SmallestOf
<1>3. PICK x \in I : m = N - x
  OBVIOUS
<1>4. \A i \in I : N - x <= N - i
  BY <1>2, <1>3
<1> QED
  BY <1>4

(* g sums up w: what it says of n is the sum of the first n numbers of w. *)
SumsUp(g, w) ==
    /\ g \in [0..Len(w) -> Int] /\ g[0] = 0
    /\ \A n \in 1..Len(w) : g[n] = g[n - 1] + w[n]

IsSum(f, w) == f = [n \in 0..Len(w) |-> IF n = 0 THEN 0 ELSE f[n - 1] + w[n]]

LEMMA SumsUpIsSum ==
    ASSUME NEW w \in Seq(Int), NEW g, SumsUp(g, w)
    PROVE  IsSum(g, w)
  BY DEF SumsUp, IsSum

LEMMA SumsExist ==
    ASSUME NEW w \in Seq(Int)
    PROVE  \E g : SumsUp(g, w)
<1>1. PICK N \in Nat : N = Len(w)
  OBVIOUS
<1>2. \A n \in 1..N : w[n] \in Int
  BY <1>1
<1> DEFINE Sums(g, k) == g \in [0..k -> Int] /\ g[0] = 0 /\ \A n \in 1..k : g[n] = g[n - 1] + w[n]
           S == {k \in Nat : \E g : Sums(g, k)}
<1>3. 0 \in S
  <2>1. Sums([n \in 0..0 |-> 0], 0)
    OBVIOUS
  <2> QED
    BY <2>1
<1>4. \A k \in 0..(N - 1) : k \in S => k + 1 \in S
  <2> SUFFICES ASSUME NEW k \in 0..(N - 1), NEW g, Sums(g, k) PROVE k + 1 \in S
    OBVIOUS
  <2>1. k \in Nat /\ w[k + 1] \in Int /\ g[k] \in Int
    BY <1>2
  <2>2. PICK h : h = [n \in 0..(k + 1) |-> IF n <= k THEN g[n] ELSE g[k] + w[k + 1]]
    OBVIOUS
  <2>3. h \in [0..(k + 1) -> Int] /\ h[0] = 0
    BY <2>1, <2>2
  <2>4. \A n \in 1..(k + 1) : h[n] = h[n - 1] + w[n]
    <3> TAKE n \in 1..(k + 1)
    <3>1. CASE n <= k
      BY <2>1, <2>2, <3>1
    <3>2. CASE n = k + 1
      BY <2>1, <2>2, <3>2
    <3> QED
      BY <2>1, <3>1, <3>2
  <2>5. Sums(h, k + 1)
    BY <2>3, <2>4
  <2> HIDE DEF Sums
  <2> QED
    BY <2>1, <2>5
<1> HIDE DEF S
<1>5. N \in S
  <2>1. \A n \in 0..N : n \in S
    BY <1>3, <1>4, UpTo
  <2> QED
    BY <2>1
<1> QED
  BY <1>1, <1>5 DEF S, SumsUp

LEMMA SumsAgree ==
    ASSUME NEW w \in Seq(Int), NEW f, NEW g, IsSum(f, w), SumsUp(g, w)
    PROVE  f[Len(w)] = g[Len(w)]
<1>1. PICK N \in Nat : N = Len(w)
  OBVIOUS
<1> DEFINE S == {n \in 0..N : f[n] = g[n]}
<1>2. f[0] = 0 /\ \A n \in 1..N : f[n] = f[n - 1] + w[n]
  <2>1. f = [n \in 0..N |-> IF n = 0 THEN 0 ELSE f[n - 1] + w[n]]
    BY <1>1 DEF IsSum
  <2>2. \A n \in 0..N : f[n] = IF n = 0 THEN 0 ELSE f[n - 1] + w[n]
    BY <2>1
  <2>3. 0 \in 0..N /\ \A n \in 1..N : n \in 0..N /\ n # 0
    OBVIOUS
  <2> QED
    BY <2>2, <2>3
<1>3. 0 \in S
  BY <1>2 DEF SumsUp
<1>4. \A n \in 0..(N - 1) : n \in S => n + 1 \in S
  <2> SUFFICES ASSUME NEW n \in 0..(N - 1), f[n] = g[n] PROVE f[n + 1] = g[n + 1]
    OBVIOUS
  <2>1. n + 1 \in 1..N /\ (n + 1) - 1 = n
    OBVIOUS
  <2>2. f[n + 1] = f[n] + w[n + 1] /\ g[n + 1] = g[n] + w[n + 1]
    BY <1>1, <1>2, <2>1 DEF SumsUp
  <2> QED
    BY <2>2
<1> HIDE DEF S
<1>5. N \in S
  <2>1. \A n \in 0..N : n \in S
    BY <1>3, <1>4, UpTo
  <2> QED
    BY <2>1
<1> QED
  BY <1>1, <1>5 DEF S

LEMMA TotalIs ==
    ASSUME NEW w \in Seq(Int), NEW g, SumsUp(g, w)
    PROVE  Total(w) = g[Len(w)]
<1>1. PICK f : f = CHOOSE h : IsSum(h, w)
  OBVIOUS
<1>2. IsSum(f, w)
  BY <1>1, SumsUpIsSum
<1>3. Total(w) = f[Len(w)]
  BY <1>1 DEF Total, IsSum
<1> QED
  BY <1>2, <1>3, SumsAgree

(* Sums of an empty sequence, of one item more, of two sequences after one   *)
(* another, of part of one and of one backwards.                             *)
LEMMA TotalOfNone == Total(<<>>) = 0
<1>1. SumsUp([n \in 0..0 |-> 0], <<>>)
  BY DEF SumsUp
<1> QED
  BY <1>1, TotalIs

LEMMA TotalOfTwo ==
    ASSUME NEW s \in Seq(Int), NEW t \in Seq(Int)
    PROVE  Total(s \o t) = Total(s) + Total(t)
<1>1. PICK f : SumsUp(f, s)
  BY SumsExist
<1>2. PICK g : SumsUp(g, t)
  BY SumsExist
<1>3. PICK m \in Nat, n \in Nat : m = Len(s) /\ n = Len(t)
  OBVIOUS
<1>4. /\ f \in [0..m -> Int] /\ f[0] = 0 /\ \A i \in 1..m : f[i] = f[i - 1] + s[i]
      /\ g \in [0..n -> Int] /\ g[0] = 0 /\ \A i \in 1..n : g[i] = g[i - 1] + t[i]
  BY <1>1, <1>2, <1>3 DEF SumsUp
<1>5. PICK w : w = s \o t
  OBVIOUS
<1>6. /\ w \in Seq(Int) /\ Len(w) = m + n
      /\ \A i \in 1..m : w[i] = s[i]
      /\ \A i \in (m + 1)..(m + n) : w[i] = t[i - m]
  BY <1>3, <1>5
<1>7. PICK h : h = [i \in 0..(m + n) |-> IF i <= m THEN f[i] ELSE f[m] + g[i - m]]
  OBVIOUS
<1>8. f[m] \in Int /\ \A i \in (m + 1)..(m + n) : i - m \in 0..n /\ g[i - m] \in Int
  BY <1>4
<1>9. h \in [0..(m + n) -> Int] /\ h[0] = 0 /\ h[m + n] = f[m] + g[n]
  <2>1. \A i \in 0..(m + n) : h[i] = IF i <= m THEN f[i] ELSE f[m] + g[i - m]
    BY <1>7
  <2>2. \A i \in 0..(m + n) : h[i] \in Int
    BY <1>4, <1>8, <2>1
  <2>3. h \in [0..(m + n) -> Int]
    BY <1>7, <2>2
  <2>4. h[0] = 0
    BY <1>4, <2>1
  <2>5. h[m + n] = f[m] + g[n]
    <3>1. CASE n = 0
      BY <1>4, <2>1, <3>1
    <3>2. CASE n > 0
      BY <1>4, <2>1, <3>2
    <3> QED
      BY <3>1, <3>2
  <2> QED
    BY <2>3, <2>4, <2>5
<1>10. \A i \in 1..(m + n) : h[i] = h[i - 1] + w[i]
  <2> TAKE i \in 1..(m + n)
  <2>1. CASE i <= m
    BY <1>4, <1>6, <1>7, <2>1
  <2>2. CASE i > m
    <3>1. PICK k \in 1..n : k = i - m
      BY <2>2
    <3>2. g[k] = g[k - 1] + t[k] /\ w[i] = t[k] /\ t[k] \in Int /\ g[k - 1] \in Int
      <4>1. k - 1 \in 0..n /\ i \in (m + 1)..(m + n)
        BY <2>2, <3>1
      <4>2. w[i] = t[k] /\ t[k] \in Int
        BY <1>3, <1>6, <3>1, <4>1
      <4> QED
        BY <1>4, <4>1, <4>2
    <3>3. h[i] = f[m] + g[k]
      BY <1>7, <2>2, <3>1
    <3>4. h[i - 1] = f[m] + g[k - 1]
      <4>1. CASE k = 1
        <5>1. i - 1 = m /\ k - 1 = 0 /\ m \in 0..(m + n)
          BY <3>1, <4>1
        <5> QED
          BY <1>4, <1>7, <1>8, <5>1
      <4>2. CASE k # 1
        <5>1. i - 1 \in 0..(m + n) /\ ~(i - 1 <= m) /\ (i - 1) - m = k - 1
          BY <3>1, <4>2
        <5> QED
          BY <1>7, <5>1
      <4> QED
        BY <4>1, <4>2
    <3> QED
      BY <1>8, <3>2, <3>3, <3>4
  <2> QED
    BY <2>1, <2>2
<1>11. SumsUp(h, w)
  BY <1>6, <1>9, <1>10 DEF SumsUp
<1>12. Total(w) = h[m + n] /\ Total(s) = f[m] /\ Total(t) = g[n]
  BY <1>1, <1>2, <1>3, <1>6, <1>11, TotalIs
<1> QED
  BY <1>5, <1>9, <1>12

LEMMA TotalOfOne ==
    ASSUME NEW x \in Int
    PROVE  Total(<<x>>) = x
<1>1. SumsUp([n \in 0..1 |-> IF n = 0 THEN 0 ELSE x], <<x>>)
  BY DEF SumsUp
<1> QED
  BY <1>1, TotalIs

LEMMA TotalOfMore ==
    ASSUME NEW s \in Seq(Int), NEW x \in Int
    PROVE  Total(Append(s, x)) = Total(s) + x
<1>1. Append(s, x) = s \o <<x>> /\ <<x>> \in Seq(Int)
  OBVIOUS
<1> QED
  BY <1>1, TotalOfTwo, TotalOfOne

LEMMA TotalIsWhole ==
    ASSUME NEW s \in Seq(Int)
    PROVE  Total(s) \in Int
<1>1. PICK f : SumsUp(f, s)
  BY SumsExist
<1>2. Total(s) = f[Len(s)] /\ Len(s) \in Nat
  BY <1>1, TotalIs
<1> QED
  BY <1>1, <1>2 DEF SumsUp

LEMMA TotalIsNatural ==
    ASSUME NEW s \in Seq(Nat)
    PROVE  Total(s) \in Nat
<1>1. s \in Seq(Int)
  OBVIOUS
<1>2. PICK f : SumsUp(f, s)
  BY <1>1, SumsExist
<1>3. PICK N \in Nat : N = Len(s)
  OBVIOUS
<1>4. Total(s) = f[N]
  BY <1>1, <1>2, <1>3, TotalIs
<1> DEFINE S == {n \in 0..N : f[n] \in Nat}
<1>5. 0 \in S
  BY <1>2 DEF SumsUp
<1>6. \A n \in 0..(N - 1) : n \in S => n + 1 \in S
  <2> SUFFICES ASSUME NEW n \in 0..(N - 1), f[n] \in Nat PROVE f[n + 1] \in Nat
    OBVIOUS
  <2>1. n + 1 \in 1..N /\ (n + 1) - 1 = n
    OBVIOUS
  <2>2. f[n + 1] = f[n] + s[n + 1] /\ s[n + 1] \in Nat
    BY <1>2, <1>3, <2>1 DEF SumsUp
  <2> QED
    BY <2>2
<1> HIDE DEF S
<1>7. N \in S
  <2>1. \A n \in 0..N : n \in S
    BY <1>5, <1>6, UpTo
  <2> QED
    BY <2>1
<1> QED
  BY <1>4, <1>7 DEF S

LEMMA TotalBackwards ==
    ASSUME NEW s \in Seq(Int)
    PROVE  Total(Reverse(s)) = Total(s)
<1>1. PICK f : SumsUp(f, s)
  BY SumsExist
<1>2. PICK N \in Nat : N = Len(s)
  OBVIOUS
<1>3. f \in [0..N -> Int] /\ f[0] = 0 /\ \A i \in 1..N : f[i] = f[i - 1] + s[i]
  BY <1>1, <1>2 DEF SumsUp
<1>4. PICK w : w = Reverse(s)
  OBVIOUS
<1>5. w \in Seq(Int) /\ Len(w) = N /\ \A i \in 1..N : w[i] = s[(N - i) + 1]
  BY <1>2, <1>4 DEF Reverse
<1>6. PICK h : h = [i \in 0..N |-> f[N] - f[N - i]]
  OBVIOUS
<1>7. h \in [0..N -> Int] /\ h[0] = 0 /\ h[N] = f[N]
  <2>1. \A i \in 0..N : N - i \in 0..N /\ f[N - i] \in Int /\ f[N] \in Int
    BY <1>3
  <2> QED
    BY <1>3, <1>6, <2>1
<1>8. \A i \in 1..N : h[i] = h[i - 1] + w[i]
  <2> TAKE i \in 1..N
  <2>1. PICK k \in 1..N : k = (N - i) + 1
    OBVIOUS
  <2>2. N - i = k - 1 /\ N - (i - 1) = k /\ i - 1 \in 0..N
    BY <2>1
  <2>3. h[i] = f[N] - f[k - 1] /\ h[i - 1] = f[N] - f[k]
    BY <1>6, <2>2
  <2>4. f[k] = f[k - 1] + w[i] /\ f[N] \in Int /\ f[k - 1] \in Int /\ f[k] \in Int /\ w[i] \in Int
    <3>1. N \in 0..N /\ k - 1 \in 0..N /\ k \in 0..N
      OBVIOUS
    <3>2. w[i] = s[k] /\ s[k] \in Int
      BY <1>2, <1>5, <2>1
    <3> QED
      BY <1>3, <3>1, <3>2
  <2> QED
    BY <2>3, <2>4
<1>9. SumsUp(h, w)
  BY <1>5, <1>7, <1>8 DEF SumsUp
<1> QED
  BY <1>1, <1>2, <1>4, <1>5, <1>7, <1>9, TotalIs

-----------------------------------------------------------------------------
(* The working memory (memory/working.py): each key once, within the bound. *)

Item == [key : MemoryKeys, aware : BOOLEAN]
OncePerKey(s) == \A i, j \in 1..Len(s) : s[i].key = s[j].key => i = j
KeysOf(s) == {s[i].key : i \in 1..Len(s)}

WorkingInv ==
    /\ recency \in Seq(Item) /\ Len(recency) <= MaxItems /\ OncePerKey(recency)
    /\ touched \in MemoryKeys \cup {"none"}
    /\ touched # "none" => touched \in KeysOf(recency)

LEMMA RemovedAt ==
    ASSUME NEW S, NEW s \in Seq(S), NEW n \in 1..Len(s)
    PROVE  /\ RemoveAt(s, n) \in Seq(S) /\ Len(RemoveAt(s, n)) = Len(s) - 1
           /\ \A j \in 1..(Len(s) - 1) :
                RemoveAt(s, n)[j] = IF j < n THEN s[j] ELSE s[j + 1]
<1>1. PICK L \in Nat : L = Len(s)
  OBVIOUS
<1>2. PICK a, b : a = SubSeq(s, 1, n - 1) /\ b = SubSeq(s, n + 1, L)
  OBVIOUS
<1>3. a \in Seq(S) /\ Len(a) = n - 1 /\ \A j \in 1..(n - 1) : a[j] = s[j]
  BY <1>1, <1>2
<1>4. b \in Seq(S) /\ Len(b) = L - n /\ \A j \in 1..(L - n) : b[j] = s[n + j]
  BY <1>1, <1>2
<1>5. RemoveAt(s, n) = a \o b
  BY <1>1, <1>2 DEF RemoveAt
<1>6. a \o b \in Seq(S) /\ Len(a \o b) = L - 1
  BY <1>1, <1>3, <1>4
<1>7. \A j \in 1..(L - 1) : (a \o b)[j] = IF j < n THEN s[j] ELSE s[j + 1]
  <2> TAKE j \in 1..(L - 1)
  <2>1. CASE j < n
    BY <1>1, <1>3, <1>4, <2>1
  <2>2. CASE ~(j < n)
    <3>1. PICK i \in 1..(L - n) : i = j - (n - 1)
      BY <1>1, <2>2
    <3>2. (a \o b)[j] = b[i] /\ n + i = j + 1
      BY <1>1, <1>3, <1>4, <2>2, <3>1
    <3> QED
      BY <1>4, <2>2, <3>2
  <2> QED
    BY <2>1, <2>2
<1> QED
  BY <1>1, <1>5, <1>6, <1>7

LEMMA OthersAre ==
    ASSUME recency \in Seq(Item), OncePerKey(recency), NEW k
    PROVE  /\ Others(k) \in Seq(Item) /\ Len(Others(k)) <= Len(recency) /\ OncePerKey(Others(k))
           /\ k \in KeysOf(recency) => Len(Others(k)) < Len(recency)
           /\ k \notin KeysOf(Others(k))
           /\ \A x \in KeysOf(recency) : x # k => x \in KeysOf(Others(k))
<1>1. PICK L \in Nat : L = Len(recency)
  OBVIOUS
<1>2. Held = KeysOf(recency) /\ DOMAIN recency = 1..L
  BY <1>1 DEF Held, KeysOf
<1>3. CASE k \notin Held
  BY <1>2, <1>3 DEF Others
<1>4. CASE k \in Held
  <2>1. PICK n \in 1..L : n = Place(k) /\ recency[n].key = k
    <3>1. \E i \in DOMAIN recency : recency[i].key = k
      BY <1>4 DEF Held
    <3> QED
      BY <1>2, <3>1 DEF Place
  <2>2. PICK o : o = Others(k)
    OBVIOUS
  <2>3. /\ o \in Seq(Item) /\ Len(o) = L - 1
        /\ \A j \in 1..(L - 1) : o[j] = IF j < n THEN recency[j] ELSE recency[j + 1]
    BY <1>1, <1>4, <2>1, <2>2, RemovedAt DEF Others
  <2>4. OncePerKey(o)
    <3> SUFFICES ASSUME NEW i \in 1..(L - 1), NEW j \in 1..(L - 1), o[i].key = o[j].key PROVE i = j
      BY <2>3 DEF OncePerKey
    <3>1. PICK p \in 1..L, q \in 1..L :
            /\ p = (IF i < n THEN i ELSE i + 1) /\ o[i] = recency[p]
            /\ q = (IF j < n THEN j ELSE j + 1) /\ o[j] = recency[q]
      BY <2>3
    <3>2. p = q
      BY <1>1, <3>1 DEF OncePerKey
    <3> QED
      BY <3>1, <3>2
  <2>5. k \notin KeysOf(o)
    <3> SUFFICES ASSUME NEW j \in 1..(L - 1), o[j].key = k PROVE FALSE
      BY <2>3 DEF KeysOf
    <3>1. PICK p \in 1..L : p # n /\ o[j] = recency[p]
      BY <2>3
    <3> QED
      BY <1>1, <2>1, <3>1 DEF OncePerKey
  <2>6. \A x \in KeysOf(recency) : x # k => x \in KeysOf(o)
    <3> SUFFICES ASSUME NEW i \in 1..L, recency[i].key # k
                 PROVE  \E j \in 1..(L - 1) : o[j].key = recency[i].key
      BY <1>1, <2>3 DEF KeysOf
    <3>1. CASE i < n
      BY <2>3, <3>1
    <3>2. CASE i > n
      <4>1. i - 1 \in 1..(L - 1) /\ ~(i - 1 < n) /\ (i - 1) + 1 = i
        BY <3>2
      <4>2. o[i - 1] = recency[i]
        BY <2>3, <4>1
      <4> QED
        BY <4>1, <4>2
    <3> QED
      BY <2>1, <3>1, <3>2
  <2> QED
    BY <1>1, <2>2, <2>3, <2>4, <2>5, <2>6
<1> QED
  BY <1>3, <1>4

LEMMA ItemAppended ==
    ASSUME NEW s \in Seq(Item), OncePerKey(s), NEW k \in MemoryKeys, k \notin KeysOf(s), NEW a \in BOOLEAN
    PROVE  LET t == Append(s, [key |-> k, aware |-> a])
           IN  t \in Seq(Item) /\ Len(t) = Len(s) + 1 /\ OncePerKey(t) /\ k \in KeysOf(t)
<1>1. PICK L \in Nat : L = Len(s)
  OBVIOUS
<1>2. PICK e \in Item : e = [key |-> k, aware |-> a]
  BY DEF Item
<1>3. PICK t : t = Append(s, e)
  OBVIOUS
<1>4. /\ t \in Seq(Item) /\ Len(t) = L + 1 /\ t[L + 1] = e
      /\ \A i \in 1..L : t[i] = s[i] /\ s[i].key # k
  BY <1>1, <1>2, <1>3 DEF KeysOf
<1>5. OncePerKey(t)
  <2> SUFFICES ASSUME NEW i \in 1..(L + 1), NEW j \in 1..(L + 1), t[i].key = t[j].key PROVE i = j
    BY <1>4 DEF OncePerKey
  <2>1. e.key = k
    BY <1>2
  <2>2. CASE i \in 1..L /\ j \in 1..L
    BY <1>1, <1>4, <2>2 DEF OncePerKey
  <2>3. CASE i = L + 1 \/ j = L + 1
    BY <1>4, <2>1, <2>3
  <2> QED
    BY <2>2, <2>3
<1>6. k \in KeysOf(t)
  <2>1. L + 1 \in 1..Len(t) /\ t[L + 1].key = k
    BY <1>2, <1>4
  <2> QED
    BY <2>1 DEF KeysOf
<1> QED
  BY <1>1, <1>2, <1>3, <1>4, <1>5, <1>6

LEMMA EvictIs ==
    ASSUME recency \in Seq(Item), OncePerKey(recency), recency # <<>>
    PROVE  /\ Evict \in Seq(Item) /\ Len(Evict) = Len(recency) - 1 /\ OncePerKey(Evict)
           /\ KeysOf(Evict) \subseteq KeysOf(recency)
<1>1. PICK L \in Nat : L = Len(recency) /\ L > 0
  OBVIOUS
<1>2. PICK t : t = Tail(recency)
  OBVIOUS
<1>3. t \in Seq(Item) /\ Len(t) = L - 1 /\ \A i \in 1..(L - 1) : t[i] = recency[i + 1]
  BY <1>1, <1>2
<1>4. OncePerKey(t)
  <2> SUFFICES ASSUME NEW i \in 1..(L - 1), NEW j \in 1..(L - 1), t[i].key = t[j].key PROVE i = j
    BY <1>3 DEF OncePerKey
  <2>1. i + 1 \in 1..L /\ j + 1 \in 1..L
    OBVIOUS
  <2>2. i + 1 = j + 1
    BY <1>1, <1>3, <2>1 DEF OncePerKey
  <2> QED
    BY <2>2
<1>5. KeysOf(t) \subseteq KeysOf(recency)
  <2> SUFFICES ASSUME NEW i \in 1..(L - 1) PROVE t[i].key \in KeysOf(recency)
    BY <1>3 DEF KeysOf
  <2>1. i + 1 \in 1..L /\ t[i] = recency[i + 1]
    BY <1>3
  <2> QED
    BY <1>1, <2>1 DEF KeysOf
<1> QED
  BY <1>1, <1>2, <1>3, <1>4, <1>5 DEF Evict

LEMMA WorkingStart == MemoryInit => WorkingInv
  BY LocalMemoryAssumption DEF MemoryInit, WorkingInv, OncePerKey

LEMMA WorkingStep == WorkingInv /\ WorkingNext => WorkingInv'
<1> SUFFICES ASSUME WorkingInv, WorkingNext PROVE WorkingInv'
  OBVIOUS
<1>1. PICK L \in Nat : L = Len(recency) /\ L <= MaxItems /\ MaxItems \in Nat /\ MaxItems > 0
  BY LocalMemoryAssumption DEF WorkingInv
<1>2. recency \in Seq(Item) /\ OncePerKey(recency) /\ Held = KeysOf(recency)
  BY DEF WorkingInv, Held, KeysOf
<1>3. ASSUME NEW k \in MemoryKeys, StoreItem(k) PROVE WorkingInv'
  <2>1. PICK rest : /\ recency' = Append(rest, [key |-> k, aware |-> FALSE])
                    /\ rest = IF k \notin Held /\ Len(recency) >= MaxItems THEN Evict ELSE Others(k)
    BY <1>3 DEF StoreItem
  <2>2. rest \in Seq(Item) /\ OncePerKey(rest) /\ k \notin KeysOf(rest) /\ Len(rest) < MaxItems
    <3>1. CASE k \notin Held /\ Len(recency) >= MaxItems
      <4>1. rest = Evict /\ recency # <<>> /\ k \notin KeysOf(recency)
        BY <1>1, <1>2, <2>1, <3>1
      <4> QED
        BY <1>1, <1>2, <4>1, EvictIs
    <3>2. CASE k \in Held
      <4>1. rest = Others(k) /\ k \in KeysOf(recency)
        BY <1>2, <2>1, <3>2
      <4>2. Len(Others(k)) \in Nat
        BY <1>2, OthersAre
      <4> QED
        BY <1>1, <1>2, <4>1, <4>2, OthersAre
    <3>3. CASE k \notin Held /\ Len(recency) < MaxItems
      <4>1. rest = Others(k)
        BY <1>1, <2>1, <3>3
      <4>2. Len(Others(k)) \in Nat
        BY <1>2, OthersAre
      <4> QED
        BY <1>1, <1>2, <3>3, <4>1, <4>2, OthersAre
    <3> QED
      BY <1>1, <3>1, <3>2, <3>3
  <2>3. PICK n \in Nat : n = Len(rest) /\ n < MaxItems
    BY <2>2
  <2>4. /\ recency' \in Seq(Item) /\ Len(recency') = n + 1 /\ OncePerKey(recency')
        /\ k \in KeysOf(recency')
    BY <2>1, <2>2, <2>3, ItemAppended
  <2>5. touched' = k
    BY <1>3 DEF StoreItem
  <2> QED
    BY <1>1, <2>3, <2>4, <2>5 DEF WorkingInv, OncePerKey, KeysOf
<1>4. ASSUME NEW k \in MemoryKeys, TouchItem(k) PROVE WorkingInv'
  <2>1. PICK o : /\ o = Others(k) /\ recency' = Append(o, [key |-> k, aware |-> TRUE])
                 /\ k \in KeysOf(recency) /\ touched' = k
    BY <1>2, <1>4 DEF TouchItem
  <2>2. o \in Seq(Item) /\ OncePerKey(o) /\ k \notin KeysOf(o) /\ Len(o) < L
    BY <1>1, <1>2, <2>1, OthersAre
  <2>3. PICK n \in Nat : n = Len(o) /\ n < L
    BY <2>2
  <2>4. /\ recency' \in Seq(Item) /\ Len(recency') = n + 1 /\ OncePerKey(recency')
        /\ k \in KeysOf(recency')
    BY <2>1, <2>2, <2>3, ItemAppended
  <2>5. Len(recency') <= MaxItems
    BY <1>1, <2>3, <2>4
  <2>6. touched' \in MemoryKeys /\ touched' \in KeysOf(recency')
    BY <2>1, <2>4
  <2> QED
    BY <2>4, <2>5, <2>6 DEF WorkingInv, OncePerKey, KeysOf
<1>5. ASSUME NEW k \in MemoryKeys, Forget(k) PROVE WorkingInv'
  <2>1. /\ recency' = Others(k)
        /\ touched' = IF touched = k THEN "none" ELSE touched
    BY <1>5 DEF Forget
  <2>2. /\ recency' \in Seq(Item) /\ OncePerKey(recency') /\ Len(recency') <= L
        /\ \A x \in KeysOf(recency) : x # k => x \in KeysOf(recency')
    BY <1>1, <1>2, <2>1, OthersAre
  <2>3. Len(recency') \in Nat
    BY <2>2
  <2>4. Len(recency') <= MaxItems
    BY <1>1, <2>2, <2>3
  <2>5. touched' \in MemoryKeys \cup {"none"} /\ (touched' # "none" => touched' \in KeysOf(recency'))
    BY <2>1, <2>2 DEF WorkingInv
  <2> QED
    BY <2>2, <2>4, <2>5 DEF WorkingInv, OncePerKey, KeysOf
<1>6. CASE ClearMemory
  BY <1>1, <1>6 DEF ClearMemory, WorkingInv, OncePerKey
<1> QED
  BY <1>3, <1>4, <1>5, <1>6 DEF WorkingNext

LEMMA WorkingStutter == WorkingInv /\ UNCHANGED workingVars => WorkingInv'
<1> SUFFICES ASSUME WorkingInv, UNCHANGED workingVars PROVE WorkingInv'
  OBVIOUS
<1>1. recency' = recency /\ touched' = touched
  BY DEF workingVars
<1> QED
  BY <1>1 DEF WorkingInv, OncePerKey, KeysOf

LEMMA WorkingIsRight == WorkingInv => LastTouchedIsKept
<1> SUFFICES ASSUME WorkingInv PROVE LastTouchedIsKept
  OBVIOUS
<1>1. Held = KeysOf(recency)
  BY DEF WorkingInv, Held, KeysOf
<1> QED
  BY <1>1 DEF WorkingInv, LastTouchedIsKept

-----------------------------------------------------------------------------
(* The procedural memory (memory/procedural.py): a file is torn while it is *)
(* written, and for good when the write was cut off.                        *)

Measures == Nat \X Nat \X Nat
SkillState == Measures \cup {Missing}

SkillInv ==
    /\ loaded \in {"down", "up", "failed"} /\ writing \in Skills \cup {"none"}
    /\ hasDir \in BOOLEAN /\ crashes \in BOOLEAN
    /\ skills \in [Skills -> SkillState]
    /\ files \in [Skills -> SkillState \cup {TornSkill}]
    /\ storedSkills \in [Skills -> SkillState]
    /\ writing # "none" => loaded = "up" /\ skills[writing] # Missing /\ files[writing] = TornSkill
    /\ SkillFilesAreStored

LEMMA NoSkillsNoDash ==
    /\ Missing \notin Measures /\ TornSkill \notin Measures /\ Missing # TornSkill
    /\ <<0, 0, 0>> \in Measures
    /\ \A m \in Measures : m[1] \in Nat /\ m[2] \in Nat /\ m[3] \in Nat
    /\ \A a, b, c \in Nat : <<a, b, c>> \in Measures
<1>1. \A m \in Measures : m[1] \in Nat /\ m[2] \in Nat /\ m[3] \in Nat
  BY DEF Measures
<1>2. \A a, b, c \in Nat : <<a, b, c>> \in Measures
  BY DEF Measures
<1>3. Missing[1] \notin Nat /\ TornSkill[1] \notin Nat /\ Missing[1] # TornSkill[1]
  BY DEF Missing, TornSkill
<1>4. <<0, 0, 0>> \in Measures
  BY <1>2
<1>5. Missing \notin Measures /\ TornSkill \notin Measures /\ Missing # TornSkill
  BY Zenon, <1>1, <1>3
<1> QED
  BY Zenon, <1>1, <1>2, <1>4, <1>5

LEMMA SkillStart == MemoryInit => SkillInv
<1> SUFFICES ASSUME MemoryInit PROVE SkillInv
  OBVIOUS
<1>1. /\ loaded = "down" /\ hasDir \in BOOLEAN /\ writing = "none" /\ crashes = FALSE
      /\ skills = [s \in Skills |-> Missing] /\ files = [s \in Skills |-> Missing]
      /\ storedSkills = [s \in Skills |-> Missing]
  BY Zenon DEF MemoryInit
<1>2. /\ skills \in [Skills -> SkillState] /\ files \in [Skills -> SkillState \cup {TornSkill}]
      /\ storedSkills \in [Skills -> SkillState]
  BY <1>1 DEF SkillState
<1>3. SkillFilesAreStored
  BY <1>1 DEF SkillFilesAreStored
<1> QED
  BY <1>1, <1>2, <1>3 DEF SkillInv

LEMMA SkillStep == SkillInv /\ SkillNext => SkillInv'
<1> SUFFICES ASSUME SkillInv, SkillNext PROVE SkillInv'
  OBVIOUS
<1> USE LocalMemoryAssumption
<1>1. CASE OpenSkills
  <2>1. /\ UNCHANGED <<files, storedSkills, hasDir, writing, crashes>> /\ writing = "none"
        /\ loaded' \in {"up", "failed"}
    BY <1>1 DEF OpenSkills, SkillInv
  <2>2. loaded' = "failed" => crashes
    <3> SUFFICES ASSUME loaded' = "failed" PROVE crashes
      OBVIOUS
    <3>1. PICK s \in Skills : files[s] = TornSkill
      BY <1>1 DEF OpenSkills
    <3>2. files[s] # storedSkills[s]
      BY <3>1, NoSkillsNoDash DEF SkillInv, SkillState
    <3> QED
      BY <2>1, <3>2 DEF SkillInv, SkillFilesAreStored
  <2>3. skills' \in [Skills -> SkillState] /\ \A s \in Skills : skills'[s] # Missing => skills'[s][3] <= skills'[s][1] + skills'[s][2]
    <3>1. CASE UNCHANGED skills
      BY <3>1 DEF SkillInv, SkillFilesAreStored
    <3>2. CASE ~UNCHANGED skills
      <4>1. skills' = [s \in Skills |-> IF hasDir THEN FromFile(files[s]) ELSE <<0, 0, 0>>]
            /\ ~(hasDir /\ \E s \in Skills : files[s] = TornSkill)
        BY <1>1, <3>2 DEF OpenSkills
      <4>2. \A s \in Skills :
              LET v == IF hasDir THEN FromFile(files[s]) ELSE <<0, 0, 0>>
              IN v \in SkillState /\ (v # Missing => v[3] <= v[1] + v[2])
        <5> SUFFICES ASSUME NEW s \in Skills, NEW v, v = IF hasDir THEN FromFile(files[s]) ELSE <<0, 0, 0>>
                     PROVE  v \in SkillState /\ (v # Missing => v[3] <= v[1] + v[2])
          OBVIOUS
        <5>1. CASE ~hasDir
          BY <5>1, NoSkillsNoDash DEF SkillState
        <5>2. CASE hasDir /\ files[s] = Missing
          BY <5>2 DEF SkillState, FromFile
        <5>3. CASE hasDir /\ files[s] # Missing
          <6>1. files[s] \in Measures /\ v = <<files[s][1], files[s][2], 0>>
            BY <4>1, <5>3 DEF SkillInv, SkillState, FromFile
          <6> QED
            BY <6>1, NoSkillsNoDash DEF SkillState
        <5> QED
          BY <5>1, <5>2, <5>3
      <4> QED
        BY <4>1, <4>2
    <3> QED
      BY <3>1, <3>2
  <2> QED
    BY <2>1, <2>2, <2>3 DEF SkillInv, SkillFilesAreStored
<1>2. CASE EndSkillWrite
  <2>1. PICK m \in Measures : m = <<skills[writing][1], skills[writing][2], 0>>
    <3>1. skills[writing] \in Measures
      BY <1>2 DEF EndSkillWrite, SkillInv, SkillState
    <3> QED
      BY <3>1, NoSkillsNoDash
  <2>2. /\ files' = [files EXCEPT ![writing] = m] /\ storedSkills' = [storedSkills EXCEPT ![writing] = m]
        /\ writing' = "none" /\ writing \in Skills
        /\ UNCHANGED <<loaded, skills, hasDir, crashes>>
    <3>1. writing \in Skills /\ files \in [Skills -> SkillState \cup {TornSkill}]
      BY <1>2 DEF EndSkillWrite, SkillInv
    <3>2. files' = [files EXCEPT ![writing] = m] /\ files'[writing] = m
      BY <1>2, <2>1, <3>1 DEF EndSkillWrite
    <3> QED
      BY <1>2, <3>1, <3>2 DEF EndSkillWrite
  <2>3. \A s \in Skills : files'[s] = storedSkills'[s] \/ (crashes /\ files'[s] = TornSkill)
    BY <2>2 DEF SkillInv, SkillFilesAreStored
  <2> QED
    BY <2>2, <2>3 DEF SkillInv, SkillFilesAreStored, SkillState
<1>3. CASE StopSkills
  <2>1. /\ loaded' = "down" /\ skills' = [s \in Skills |-> Missing] /\ writing' = "none"
        /\ crashes' = (crashes \/ writing # "none") /\ UNCHANGED <<files, storedSkills, hasDir>>
    BY <1>3 DEF StopSkills
  <2>2. \A s \in Skills : files[s] = storedSkills[s] \/ (crashes' /\ files[s] = TornSkill)
    <3> SUFFICES ASSUME NEW s \in Skills PROVE files[s] = storedSkills[s] \/ (crashes' /\ files[s] = TornSkill)
      OBVIOUS
    <3>1. CASE s = writing
      BY <2>1, <3>1 DEF SkillInv
    <3>2. CASE s # writing
      BY <2>1, <3>2 DEF SkillInv, SkillFilesAreStored
    <3> QED
      BY <3>1, <3>2
  <2> QED
    BY <2>1, <2>2 DEF SkillInv, SkillFilesAreStored, SkillState
<1>4. ASSUME NEW s \in Skills, StoreSkill(s) PROVE SkillInv'
  <2>1. /\ loaded = "up" /\ writing = "none" /\ UNCHANGED <<loaded, storedSkills, hasDir, crashes>>
        /\ skills' = IF skills[s] = Missing THEN [skills EXCEPT ![s] = <<0, 0, 0>>] ELSE skills
    BY <1>4 DEF StoreSkill
  <2>2. /\ skills' \in [Skills -> SkillState] /\ skills'[s] # Missing
        /\ \A t \in Skills : skills'[t] # Missing => skills'[t][3] <= skills'[t][1] + skills'[t][2]
    <3>1. CASE skills[s] = Missing
      <4>1. skills' = [skills EXCEPT ![s] = <<0, 0, 0>>]
        BY <2>1, <3>1
      <4> QED
        BY <4>1, NoSkillsNoDash DEF SkillInv, SkillState, SkillFilesAreStored
    <3>2. CASE skills[s] # Missing
      BY <2>1, <3>2 DEF SkillInv, SkillFilesAreStored
    <3> QED
      BY <3>1, <3>2
  <2>3. CASE hasDir
    <3>1. writing' = s /\ files' = [files EXCEPT ![s] = TornSkill]
      BY <1>4, <2>3 DEF StoreSkill
    <3> QED
      BY <2>1, <2>2, <3>1 DEF SkillInv, SkillFilesAreStored
  <2>4. CASE ~hasDir
    <3>1. writing' = writing /\ files' = files
      BY <1>4, <2>4 DEF StoreSkill
    <3> QED
      BY <2>1, <2>2, <3>1 DEF SkillInv, SkillFilesAreStored
  <2> QED
    BY <2>3, <2>4
<1>5. ASSUME NEW s \in Skills, NEW ok \in BOOLEAN, RecordExecution(s, ok) PROVE SkillInv'
  <2>1. /\ writing = "none" /\ skills[s] # Missing
        /\ skills' = [skills EXCEPT ![s] = Recorded(skills[s], ok)]
        /\ UNCHANGED <<loaded, files, storedSkills, hasDir, writing, crashes>>
    BY <1>5 DEF RecordExecution
  <2>2. PICK m \in Measures : m = skills[s] /\ m[3] <= m[1] + m[2]
    BY <2>1 DEF SkillInv, SkillState, SkillFilesAreStored
  <2>3. Recorded(m, ok) \in Measures /\ Recorded(m, ok)[3] <= Recorded(m, ok)[1] + Recorded(m, ok)[2]
    <3>1. m[1] \in Nat /\ m[2] \in Nat /\ m[3] \in Nat
      BY NoSkillsNoDash
    <3>2. CASE ok
      <4>1. Recorded(m, ok) = <<m[1] + 1, m[2], m[3] + 1>>
        BY <3>2 DEF Recorded
      <4> QED
        BY <2>2, <3>1, <4>1, NoSkillsNoDash
    <3>3. CASE ~ok
      <4>1. Recorded(m, ok) = <<m[1], m[2] + 1, m[3] + 1>>
        BY <3>3 DEF Recorded
      <4> QED
        BY <2>2, <3>1, <4>1, NoSkillsNoDash
    <3> QED
      BY <3>2, <3>3
  <2> QED
    BY <2>1, <2>2, <2>3 DEF SkillInv, SkillFilesAreStored, SkillState
<1> QED
  BY <1>1, <1>2, <1>3, <1>4, <1>5 DEF SkillNext

LEMMA SkillStutter == SkillInv /\ UNCHANGED skillVars => SkillInv'
<1> SUFFICES ASSUME SkillInv, UNCHANGED skillVars PROVE SkillInv'
  OBVIOUS
<1>1. /\ loaded' = loaded /\ skills' = skills /\ files' = files /\ storedSkills' = storedSkills
      /\ hasDir' = hasDir /\ writing' = writing /\ crashes' = crashes
  BY DEF skillVars
<1> QED
  BY Zenon, <1>1 DEF SkillInv, SkillFilesAreStored

-----------------------------------------------------------------------------
(* The model of a user (memory/user_model.py): models that share a profile  *)
(* share what was heard, and a history is no longer than it.                *)

UserInv ==
    /\ profileOf \in [UserModels -> UserModels \cup {"none"}]
    /\ profile \in [UserModels -> [count : Nat, total : Nat]]
    /\ heard \in [UserModels -> Seq({1, 3})]
    /\ historyLen \in [UserModels -> Nat]
    /\ \A p \in UserModels : /\ profile[p].count = Len(heard[p])
                             /\ profile[p].total = Total(heard[p])
    /\ \A m \in UserModels : profileOf[m] # "none" =>
          /\ historyLen[m] <= profile[profileOf[m]].count
          /\ profileOf[profileOf[m]] = profileOf[m]

LEMMA UserStart == MemoryInit => UserInv
<1> SUFFICES ASSUME MemoryInit PROVE UserInv
  OBVIOUS
<1>1. PICK first : profileOf = [m \in UserModels |-> IF m = first THEN m ELSE "none"]
  BY DEF MemoryInit
<1>2. /\ profile = [m \in UserModels |-> [count |-> 0, total |-> 0]]
      /\ heard = [m \in UserModels |-> <<>>] /\ historyLen = [m \in UserModels |-> 0]
  BY DEF MemoryInit
<1> QED
  BY <1>1, <1>2, LocalMemoryAssumption, TotalOfNone DEF UserInv

LEMMA InteractKeeps ==
    ASSUME UserInv, NEW m \in UserModels, NEW len \in {1, 3}, Interact(m, len)
    PROVE  UserInv'
<1>1. PICK p \in UserModels : p = profileOf[m]
  BY DEF UserInv, Interact
<1>2. /\ profile' = [profile EXCEPT ![p] = Averaged(profile[p], len)]
      /\ heard' = [heard EXCEPT ![p] = Append(heard[p], len)]
      /\ historyLen' = [historyLen EXCEPT ![m] = historyLen[m] + 1]
      /\ profileOf' = profileOf
  BY <1>1 DEF Interact
<1>3. /\ profile[p] \in [count : Nat, total : Nat] /\ profile[p].count = Len(heard[p])
      /\ profile[p].total = Total(heard[p]) /\ heard[p] \in Seq({1, 3})
  BY DEF UserInv
<1>4. PICK q \in [count : Nat, total : Nat] :
          /\ q = Averaged(profile[p], len) /\ q.count = profile[p].count + 1
          /\ q.count = Len(Append(heard[p], len)) /\ q.total = Total(Append(heard[p], len))
  <2>1. Total(Append(heard[p], len)) = Total(heard[p]) + len
    <3>1. heard[p] \in Seq(Int) /\ len \in Int
      BY <1>3
    <3> QED
      BY <3>1, TotalOfMore
  <2>2. profile[p].count = 0 => Total(heard[p]) = 0
    <3> SUFFICES ASSUME profile[p].count = 0 PROVE Total(heard[p]) = 0
      OBVIOUS
    <3>1. heard[p] = <<>>
      BY <1>3
    <3> QED
      BY <3>1, TotalOfNone
  <2>3. Len(Append(heard[p], len)) = Len(heard[p]) + 1
    BY <1>3
  <2>4. len \in Nat /\ profile[p].count \in Nat /\ profile[p].total \in Nat
    BY <1>3
  <2>5. PICK q : q = Averaged(profile[p], len)
    OBVIOUS
  <2>6. /\ q.count = profile[p].count + 1
        /\ q.total = IF profile[p].count = 0 THEN len ELSE profile[p].total + len
        /\ q = [count |-> q.count, total |-> q.total]
    BY <2>5 DEF Averaged
  <2>7. q.count \in Nat /\ q.total \in Nat /\ q.total = Total(heard[p]) + len
    BY <1>3, <2>2, <2>4, <2>6
  <2> QED
    BY <1>3, <2>1, <2>3, <2>5, <2>6, <2>7
<1>5. Append(heard[p], len) \in Seq({1, 3})
  BY <1>3
<1>6. /\ profile' \in [UserModels -> [count : Nat, total : Nat]] /\ profile'[p] = q
      /\ heard' \in [UserModels -> Seq({1, 3})]
      /\ historyLen' \in [UserModels -> Nat]
  BY <1>2, <1>4, <1>5 DEF UserInv
<1>7. \A o \in UserModels : /\ profile'[o].count = Len(heard'[o])
                            /\ profile'[o].total = Total(heard'[o])
  <2> TAKE o \in UserModels
  <2>1. CASE o = p
    BY <1>2, <1>4, <1>6, <2>1 DEF UserInv
  <2>2. CASE o # p
    <3>1. profile'[o] = profile[o] /\ heard'[o] = heard[o]
      BY <1>2, <2>2 DEF UserInv
    <3> QED
      BY <3>1 DEF UserInv
  <2> QED
    BY <2>1, <2>2
<1>8. \A o \in UserModels : profileOf[o] # "none" => historyLen'[o] <= profile'[profileOf[o]].count
  <2> SUFFICES ASSUME NEW o \in UserModels, profileOf[o] # "none"
               PROVE  historyLen'[o] <= profile'[profileOf[o]].count
    OBVIOUS
  <2>1. PICK r \in UserModels : r = profileOf[o]
    BY DEF UserInv
  <2>2. historyLen[o] <= profile[r].count /\ historyLen[o] \in Nat /\ profile[r].count \in Nat
    BY <2>1 DEF UserInv
  <2>3. profile[r].count <= profile'[r].count /\ profile'[r].count \in Nat
    <3>1. profile'[r] = IF r = p THEN q ELSE profile[r]
      BY <1>2, <1>4 DEF UserInv
    <3>2. q.count \in Nat /\ q.count = profile[p].count + 1 /\ profile[p].count \in Nat
      BY <1>3, <1>4
    <3> QED
      BY <2>2, <3>1, <3>2
  <2>4. CASE o # m
    <3>1. historyLen'[o] = historyLen[o]
      BY <1>2, <2>4 DEF UserInv
    <3> QED
      BY <2>1, <2>2, <2>3, <3>1
  <2>5. CASE o = m
    <3>1. historyLen'[o] = historyLen[o] + 1 /\ profile'[r].count = profile[r].count + 1
      BY <1>1, <1>2, <1>4, <1>6, <2>1, <2>5 DEF UserInv
    <3> QED
      BY <2>1, <2>2, <3>1
  <2> QED
    BY <2>4, <2>5
<1> QED
  BY <1>2, <1>6, <1>7, <1>8 DEF UserInv

LEMMA FromDictKeeps ==
    ASSUME UserInv, NEW m \in UserModels, NEW other \in UserModels, NEW alias \in BOOLEAN,
           FromDict(m, other, alias)
    PROVE  UserInv'
<1> USE LocalMemoryAssumption
<1>1. PICK p \in UserModels : p = profileOf[m] /\ profileOf[p] = p
  BY DEF UserInv, FromDict
<1>2. /\ profileOf[other] = "none" /\ p # other
      /\ profileOf' = [profileOf EXCEPT ![other] = IF alias THEN p ELSE other]
      /\ profile' = IF alias THEN profile ELSE [profile EXCEPT ![other] = profile[p]]
      /\ heard' = IF alias THEN heard ELSE [heard EXCEPT ![other] = heard[p]]
      /\ historyLen' = [historyLen EXCEPT ![other] = IF historyLen[m] > 10 THEN 10 ELSE historyLen[m]]
  BY <1>1 DEF FromDict
<1>3. /\ profile' \in [UserModels -> [count : Nat, total : Nat]]
      /\ heard' \in [UserModels -> Seq({1, 3})]
      /\ \A o \in UserModels : o # other => profile'[o] = profile[o] /\ heard'[o] = heard[o]
      /\ ~alias => profile'[other] = profile[p] /\ heard'[other] = heard[p]
      /\ alias => profile'[other] = profile[other] /\ heard'[other] = heard[other]
  <2>1. CASE alias
    BY <1>2, <2>1 DEF UserInv
  <2>2. CASE ~alias
    BY <1>2, <2>2 DEF UserInv
  <2> QED
    BY <2>1, <2>2
<1>4. \A o \in UserModels : /\ profile'[o].count = Len(heard'[o])
                            /\ profile'[o].total = Total(heard'[o])
  <2> TAKE o \in UserModels
  <2>1. PICK q \in UserModels : profile'[o] = profile[q] /\ heard'[o] = heard[q]
    BY <1>3
  <2> QED
    BY <2>1 DEF UserInv
<1>5. historyLen[m] \in Nat /\ historyLen[m] <= profile[p].count /\ profile[p].count \in Nat
  BY <1>1 DEF UserInv
<1>6. historyLen' \in [UserModels -> Nat] /\ historyLen'[other] <= profile[p].count
      /\ \A o \in UserModels : o # other => historyLen'[o] = historyLen[o]
  BY <1>2, <1>5 DEF UserInv
<1>7. profileOf' \in [UserModels -> UserModels \cup {"none"}]
      /\ profileOf'[other] = (IF alias THEN p ELSE other)
      /\ \A o \in UserModels : o # other => profileOf'[o] = profileOf[o]
  BY <1>2 DEF UserInv
<1>8. ASSUME NEW o \in UserModels, profileOf'[o] # "none"
      PROVE  /\ historyLen'[o] <= profile'[profileOf'[o]].count
             /\ profileOf'[profileOf'[o]] = profileOf'[o]
  <2>1. CASE o = other
    BY <1>1, <1>2, <1>3, <1>6, <1>7, <2>1
  <2>2. CASE o # other
    <3>1. PICK r \in UserModels : r = profileOf[o] /\ profileOf[r] = r /\ historyLen[o] <= profile[r].count
      BY <1>7, <1>8, <2>2 DEF UserInv
    <3>2. r # other
      BY <1>2, <3>1
    <3>3. profileOf'[o] = r /\ profileOf'[r] = r /\ historyLen'[o] = historyLen[o]
      BY <1>6, <1>7, <2>2, <3>1, <3>2
    <3>4. profile'[r] = profile[r]
      BY <1>3, <3>2
    <3> QED
      BY <3>1, <3>3, <3>4
  <2> QED
    BY <2>1, <2>2
<1> QED
  BY <1>3, <1>4, <1>6, <1>7, <1>8 DEF UserInv

LEMMA UserStep == UserInv /\ UserNext => UserInv'
<1> QED
  BY InteractKeeps, FromDictKeeps DEF UserNext

LEMMA UserStutter == UserInv /\ UNCHANGED userVars => UserInv'
<1> SUFFICES ASSUME UserInv, UNCHANGED userVars PROVE UserInv'
  OBVIOUS
<1>1. profileOf' = profileOf /\ profile' = profile /\ heard' = heard /\ historyLen' = historyLen
  BY DEF userVars
<1> QED
  BY Zenon, <1>1 DEF UserInv

LEMMA UserIsRight == UserInv => ProfilesAddUp
  BY DEF UserInv, ProfilesAddUp

(* The three of them side by side. *)
MemoryInv == WorkingInv /\ SkillInv /\ UserInv

LEMMA MemoryStart == MemoryInit => MemoryInv
  BY WorkingStart, SkillStart, UserStart DEF MemoryInv

LEMMA MemoryStep ==
    ASSUME MemoryInv, WorkingNext \/ SkillNext \/ UserNext \/ UNCHANGED memoryVars
    PROVE  MemoryInv'
<1>1. WorkingNext \/ UNCHANGED workingVars
  BY Zenon DEF SkillNext, UserNext, memoryVars
<1>2. SkillNext \/ UNCHANGED skillVars
  BY Zenon DEF WorkingNext, UserNext, memoryVars
<1>3. UserNext \/ UNCHANGED userVars
  BY Zenon DEF WorkingNext, SkillNext, memoryVars
<1> QED
  BY <1>1, <1>2, <1>3, WorkingStep, WorkingStutter, SkillStep, SkillStutter, UserStep, UserStutter
     DEF MemoryInv

LEMMA MemoryTypes == MemoryInv => MemoryTypeOK
<1> SUFFICES ASSUME MemoryInv PROVE MemoryTypeOK
  OBVIOUS
<1>1. /\ recency \in Seq([key : MemoryKeys, aware : BOOLEAN]) /\ Len(recency) <= MaxItems
      /\ touched \in MemoryKeys \cup {"none"}
  BY DEF MemoryInv, WorkingInv, Item
<1>2. /\ loaded \in {"down", "up", "failed"} /\ writing \in Skills \cup {"none"}
      /\ hasDir \in BOOLEAN /\ crashes \in BOOLEAN
      /\ \A s \in Skills : /\ skills[s] \in Nat \X Nat \X Nat \/ skills[s] = Missing
                           /\ files[s] \in Nat \X Nat \X Nat \/ files[s] \in {Missing, TornSkill}
  BY DEF MemoryInv, SkillInv, SkillState, Measures
<1>3. /\ profileOf \in [UserModels -> UserModels \cup {"none"}]
      /\ profile \in [UserModels -> [count : Nat, total : Nat]]
      /\ historyLen \in [UserModels -> Nat]
  BY DEF MemoryInv, UserInv
<1> QED
  BY Zenon, <1>1, <1>2, <1>3 DEF MemoryTypeOK

LEMMA MemoryIsRight ==
    MemoryInv => LastTouchedIsKept /\ SkillFilesAreStored /\ ProfilesAddUp
  BY WorkingIsRight, UserIsRight DEF MemoryInv, SkillInv
=============================================================================
