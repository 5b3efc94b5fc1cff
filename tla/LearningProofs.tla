---------------------------- MODULE LearningProofs ----------------------------
(***************************************************************************)
(* What is remembered, learned, planned and judged, proved for all         *)
(* messages, skills, facts, projects, claims, steps, weights, goals and    *)
(* files: the memories, the skill library, planning, the choice of a       *)
(* strategy and the impact of a change.                                    *)
(***************************************************************************)
EXTENDS StorageProofs

-----------------------------------------------------------------------------
(* Trimming a conversation (memory/context_trim.py): the result is the      *)
(* system prompt, if there is one, and all the messages from some place on. *)

Message == [id : Nat, role : {"system", "user"}, tokens : MessageSizes]
Talk(m) == m \in Seq(Message) /\ \A i \in 1..Len(m) : m[i].id = i

Sizes(m) == [i \in DOMAIN m |-> m[i].tokens]

(* s is made of the messages of m at the places Y. *)
Shows(s, m, Y) ==
    /\ \A x \in 1..Len(s) : \E y \in Y : s[x] = m[y]
    /\ \A y \in Y : \E x \in 1..Len(s) : s[x] = m[y]

LEMMA OneAfterOther ==
    ASSUME NEW S, NEW a \in Seq(S), NEW b \in Seq(S)
    PROVE  /\ a \o b \in Seq(S) /\ Len(a \o b) = Len(a) + Len(b)
           /\ \A i \in 1..Len(a) : (a \o b)[i] = a[i]
           /\ \A i \in 1..Len(b) : (a \o b)[Len(a) + i] = b[i]
           /\ \A i \in 1..(Len(a) + Len(b)) : i > Len(a) =>
                i - Len(a) \in 1..Len(b) /\ (a \o b)[i] = b[i - Len(a)]
<1>1. a \o b \in Seq(S) /\ Len(a \o b) = Len(a) + Len(b)
  OBVIOUS
<1>2. \A i \in 1..Len(a) : (a \o b)[i] = a[i]
  OBVIOUS
<1>3. \A i \in 1..Len(b) : (a \o b)[Len(a) + i] = b[i]
  OBVIOUS
<1>4. \A i \in 1..(Len(a) + Len(b)) : i > Len(a) =>
         i - Len(a) \in 1..Len(b) /\ (a \o b)[i] = b[i - Len(a)]
  OBVIOUS
<1> QED
  BY <1>1, <1>2, <1>3, <1>4

LEMMA TokensAre ==
    ASSUME NEW m \in Seq(Message)
    PROVE  /\ Sizes(m) \in Seq(Nat) /\ Sizes(m) \in Seq(Int) /\ Len(Sizes(m)) = Len(m)
           /\ \A i \in 1..Len(m) : Sizes(m)[i] = m[i].tokens
           /\ EstimateTokens(m) = Total(Sizes(m))
<1>1. MessageSizes \subseteq Nat
  BY TrimAssumption
<1>2. \A i \in 1..Len(m) : m[i].tokens \in Nat
  <2> SUFFICES ASSUME NEW i \in 1..Len(m) PROVE m[i].tokens \in Nat
    OBVIOUS
  <2>1. m[i] \in Message
    OBVIOUS
  <2> QED
    BY <1>1, <2>1 DEF Message
<1>3. DOMAIN m = 1..Len(m) /\ Len(m) \in Nat
  OBVIOUS
<1>4. Sizes(m) = [i \in 1..Len(m) |-> m[i].tokens]
  BY <1>3 DEF Sizes
<1>5. Sizes(m) \in [1..Len(m) -> Nat] /\ Sizes(m) \in [1..Len(m) -> Int]
  BY <1>2, <1>4
<1>6. Sizes(m) \in Seq(Nat) /\ Sizes(m) \in Seq(Int)
  BY <1>3, <1>5
<1>7. EstimateTokens(m) = Total(Sizes(m))
  BY DEF EstimateTokens, Sizes
<1> QED
  BY <1>3, <1>4, <1>6, <1>7

LEMMA EstimateOfTwo ==
    ASSUME NEW a \in Seq(Message), NEW b \in Seq(Message)
    PROVE  /\ a \o b \in Seq(Message)
           /\ EstimateTokens(a \o b) = EstimateTokens(a) + EstimateTokens(b)
           /\ EstimateTokens(a) \in Nat /\ EstimateTokens(b) \in Nat
<1>1. PICK m \in Nat, n \in Nat : m = Len(a) /\ n = Len(b)
  OBVIOUS
<1>2. PICK c \in Seq(Message) : c = a \o b
  BY OneAfterOther
<1>3. /\ Len(c) = m + n
      /\ \A i \in 1..m : c[i] = a[i]
      /\ \A i \in 1..n : c[m + i] = b[i]
  BY <1>1, <1>2, OneAfterOther
<1>4. PICK s \in Seq(Int), t \in Seq(Int), u \in Seq(Int) :
          s = Sizes(a) /\ t = Sizes(b) /\ u = Sizes(c)
  BY TokensAre
<1>5. /\ Len(s) = m /\ Len(t) = n /\ Len(u) = m + n
      /\ \A i \in 1..m : s[i] = a[i].tokens
      /\ \A i \in 1..n : t[i] = b[i].tokens
      /\ \A i \in 1..(m + n) : u[i] = c[i].tokens
  BY <1>1, <1>3, <1>4, TokensAre
<1>6. u = s \o t
  <2>1. /\ s \o t \in Seq(Int) /\ Len(s \o t) = m + n
        /\ \A i \in 1..m : (s \o t)[i] = s[i]
        /\ \A i \in 1..n : (s \o t)[m + i] = t[i]
    <3>1. /\ s \o t \in Seq(Int) /\ Len(s \o t) = Len(s) + Len(t)
          /\ \A i \in 1..Len(s) : (s \o t)[i] = s[i]
          /\ \A i \in 1..Len(t) : (s \o t)[Len(s) + i] = t[i]
      BY OneAfterOther
    <3> QED
      BY <1>5, <3>1
  <2>2. ASSUME NEW i \in 1..(m + n) PROVE u[i] = (s \o t)[i]
    <3>1. CASE i \in 1..m
      <4>1. u[i] = c[i].tokens /\ c[i] = a[i]
        BY <1>3, <1>5, <3>1
      <4>2. (s \o t)[i] = s[i] /\ s[i] = a[i].tokens
        BY <1>5, <2>1, <3>1
      <4> QED
        BY <4>1, <4>2
    <3>2. CASE i \notin 1..m
      <4>1. PICK k \in 1..n : i = m + k
        <5>1. i - m \in 1..n /\ i = m + (i - m)
          BY <3>2
        <5> QED
          BY <5>1
      <4>2. u[i] = c[i].tokens /\ c[i] = b[k]
        BY <1>3, <1>5, <4>1
      <4>3. (s \o t)[i] = t[k] /\ t[k] = b[k].tokens
        BY <1>5, <2>1, <4>1
      <4> QED
        BY <4>2, <4>3
    <3> QED
      BY <3>1, <3>2
  <2> QED
    BY <1>5, <2>1, <2>2, SameSequence
<1>7. Total(u) = Total(s) + Total(t)
  BY <1>6, TotalOfTwo
<1>8. EstimateTokens(a) = Total(s) /\ EstimateTokens(b) = Total(t) /\ EstimateTokens(c) = Total(u)
  BY <1>4, TokensAre
<1>9. Total(s) \in Nat /\ Total(t) \in Nat
  BY <1>4, TokensAre, TotalIsNatural
<1> QED
  BY <1>2, <1>7, <1>8, <1>9

LEMMA ReverseIs ==
    ASSUME NEW S, NEW s \in Seq(S)
    PROVE  /\ Reverse(s) \in Seq(S) /\ Len(Reverse(s)) = Len(s)
           /\ \A i \in 1..Len(s) : Reverse(s)[i] = s[(Len(s) - i) + 1]
<1>1. PICK n \in Nat : n = Len(s)
  OBVIOUS
<1>2. \A i \in 1..n : s[(n - i) + 1] \in S
  BY <1>1
<1>3. Reverse(s) = [i \in 1..n |-> s[(n - i) + 1]]
  BY <1>1 DEF Reverse
<1>4. Reverse(s) \in [1..n -> S]
  BY <1>2, <1>3
<1>5. Reverse(s) \in Seq(S) /\ Len(Reverse(s)) = n
  BY <1>4
<1> QED
  BY <1>1, <1>3, <1>5

LEMMA EstimateBackwards ==
    ASSUME NEW a \in Seq(Message)
    PROVE  EstimateTokens(Reverse(a)) = EstimateTokens(a)
<1>1. PICK n \in Nat : n = Len(a)
  OBVIOUS
<1>2. PICK b \in Seq(Message) : b = Reverse(a)
  BY ReverseIs
<1>3. Len(b) = n /\ \A i \in 1..n : b[i] = a[(n - i) + 1]
  BY <1>1, <1>2, ReverseIs
<1>4. PICK s \in Seq(Int), t \in Seq(Int) : s = Sizes(a) /\ t = Sizes(b)
  BY TokensAre
<1>5. /\ Len(s) = n /\ Len(t) = n
      /\ \A i \in 1..n : s[i] = a[i].tokens /\ t[i] = b[i].tokens
  BY <1>1, <1>3, <1>4, TokensAre
<1>6. t = Reverse(s)
  <2>1. Reverse(s) \in Seq(Int) /\ Len(Reverse(s)) = n
    BY <1>5, ReverseIs
  <2>2. ASSUME NEW i \in 1..n PROVE t[i] = Reverse(s)[i]
    <3>1. PICK k \in 1..n : k = (n - i) + 1
      OBVIOUS
    <3>2. Reverse(s)[i] = s[(Len(s) - i) + 1]
      BY <1>5, ReverseIs
    <3>3. Reverse(s)[i] = s[k]
      BY <1>5, <3>1, <3>2
    <3> QED
      BY <1>3, <1>5, <3>1, <3>3
  <2> QED
    BY <1>5, <2>1, <2>2, SameSequence
<1> QED
  BY <1>2, <1>4, <1>6, TokensAre, TotalBackwards

LEMMA ShowsOfTwo ==
    ASSUME NEW S, NEW a \in Seq(S), NEW b \in Seq(S), NEW m, NEW Y, NEW Z, Shows(a, m, Y), Shows(b, m, Z)
    PROVE  Shows(a \o b, m, Y \cup Z)
<1>1. PICK k \in Nat, n \in Nat : k = Len(a) /\ n = Len(b)
  OBVIOUS
<1>2. PICK c : c = a \o b
  OBVIOUS
<1>3. /\ Len(c) = k + n
      /\ \A i \in 1..k : c[i] = a[i]
      /\ \A i \in (k + 1)..(k + n) : c[i] = b[i - k]
  BY <1>1, <1>2
<1>4. ASSUME NEW x \in 1..(k + n) PROVE \E y \in Y \cup Z : c[x] = m[y]
  <2>1. CASE x <= k
    <3>1. x \in 1..k
      BY <2>1
    <3>2. c[x] = a[x]
      BY <1>3, <3>1
    <3>3. \E y \in Y : a[x] = m[y]
      BY <1>1, <3>1 DEF Shows
    <3> QED
      BY <3>2, <3>3, Zenon
  <2>2. CASE x > k
    <3>1. x - k \in 1..n /\ x \in (k + 1)..(k + n)
      BY <2>2
    <3>2. \E y \in Z : b[x - k] = m[y]
      BY <1>1, <3>1 DEF Shows
    <3> QED
      BY <1>3, <3>1, <3>2
  <2> QED
    BY <2>1, <2>2
<1>5. ASSUME NEW y \in Y \cup Z PROVE \E x \in 1..(k + n) : c[x] = m[y]
  <2>1. CASE y \in Y
    <3>1. PICK x \in 1..k : a[x] = m[y]
      BY <1>1, <2>1 DEF Shows
    <3>2. x \in 1..(k + n) /\ c[x] = m[y]
      BY <1>3, <3>1
    <3> QED
      BY <3>2
  <2>2. CASE y \in Z
    <3>1. PICK x \in 1..n : b[x] = m[y]
      BY <1>1, <2>2 DEF Shows
    <3>2. x + k \in 1..(k + n) /\ x + k \in (k + 1)..(k + n) /\ (x + k) - k = x
      OBVIOUS
    <3>3. c[x + k] = m[y]
      BY <1>3, <3>1, <3>2
    <3> QED
      BY <3>2, <3>3
  <2> QED
    BY <2>1, <2>2
<1> QED
  BY <1>2, <1>3, <1>4, <1>5 DEF Shows

LEMMA ShowsBackwards ==
    ASSUME NEW S, NEW a \in Seq(S), NEW m, NEW Y, Shows(a, m, Y)
    PROVE  Shows(Reverse(a), m, Y)
<1>1. PICK n \in Nat : n = Len(a)
  OBVIOUS
<1>2. PICK b : b = Reverse(a)
  OBVIOUS
<1>3. Len(b) = n /\ \A i \in 1..n : b[i] = a[(n - i) + 1]
  BY <1>1, <1>2, ReverseIs
<1>4. ASSUME NEW x \in 1..n PROVE \E y \in Y : b[x] = m[y]
  <2>1. PICK z \in 1..n : z = (n - x) + 1
    OBVIOUS
  <2>2. \E y \in Y : a[z] = m[y]
    BY <1>1 DEF Shows
  <2> QED
    BY <1>3, <2>1, <2>2
<1>5. ASSUME NEW y \in Y PROVE \E x \in 1..n : b[x] = m[y]
  <2>1. PICK x \in 1..n : a[x] = m[y]
    BY <1>1 DEF Shows
  <2>2. PICK z \in 1..n : z = (n - x) + 1 /\ (n - z) + 1 = x
    OBVIOUS
  <2> QED
    BY <1>3, <2>1, <2>2
<1> QED
  BY <1>2, <1>3, <1>4, <1>5 DEF Shows

(* A part of a sequence, and a sequence that ends with another. *)
LEMMA PartIs ==
    ASSUME NEW S, NEW s \in Seq(S), NEW p \in 1..(Len(s) + 1), NEW q \in Int, q <= Len(s)
    PROVE  /\ SubSeq(s, p, q) \in Seq(S)
           /\ Len(SubSeq(s, p, q)) = IF p <= q THEN (q - p) + 1 ELSE 0
           /\ \A i \in 1..((q - p) + 1) : SubSeq(s, p, q)[i] = s[(p + i) - 1]
  OBVIOUS

LEMMA PartShows ==
    ASSUME NEW S, NEW s \in Seq(S), NEW p \in 1..(Len(s) + 1), NEW q \in Int, q <= Len(s)
    PROVE  Shows(SubSeq(s, p, q), s, p..q)
<1>1. PICK t : t = SubSeq(s, p, q)
  OBVIOUS
<1>2. CASE p <= q
  <2>1. PICK n \in Nat : n = (q - p) + 1
    BY <1>2
  <2>2. Len(t) = n /\ \A i \in 1..n : t[i] = s[(p + i) - 1]
    BY <1>1, <1>2, <2>1, PartIs
  <2>3. ASSUME NEW i \in 1..n PROVE \E y \in p..q : t[i] = s[y]
    <3>1. (p + i) - 1 \in p..q
      BY <2>1
    <3> QED
      BY <2>2, <3>1
  <2>4. ASSUME NEW y \in p..q PROVE \E i \in 1..n : t[i] = s[y]
    <3>1. PICK i \in 1..n : i = (y - p) + 1 /\ (p + i) - 1 = y
      BY <2>1
    <3> QED
      BY <2>2, <3>1
  <2> QED
    BY <1>1, <2>2, <2>3, <2>4 DEF Shows
<1>3. CASE ~(p <= q)
  BY <1>3, PartIs DEF Shows
<1> QED
  BY <1>2, <1>3

LEMMA EndsWith ==
    ASSUME NEW S, NEW h \in Seq(S), NEW t \in Seq(S)
    PROVE  IsSuffix(t, h \o t)
<1>1. PICK k \in Nat, n \in Nat : k = Len(h) /\ n = Len(t)
  OBVIOUS
<1>2. PICK c \in Seq(S) : c = h \o t
  BY OneAfterOther
<1>3. Len(c) = k + n /\ \A i \in 1..n : c[k + i] = t[i]
  BY <1>1, <1>2, OneAfterOther
<1>4. PICK r \in Seq(S), u \in Seq(S) : r = Reverse(t) /\ u = Reverse(c)
  BY ReverseIs
<1>5. Len(r) = n /\ Len(u) = k + n
  BY <1>1, <1>3, <1>4, ReverseIs
<1>6. ASSUME NEW i \in 1..n PROVE r[i] = u[i]
  <2>1. PICK j \in 1..n : j = (n - i) + 1
    OBVIOUS
  <2>2. r[i] = t[j]
    BY <1>1, <1>4, <2>1, ReverseIs
  <2>3. i \in 1..(k + n) /\ ((k + n) - i) + 1 = k + j
    BY <2>1
  <2>4. u[i] = c[((k + n) - i) + 1]
    <3>1. u[i] = c[(Len(c) - i) + 1]
      BY <1>3, <1>4, <2>3, ReverseIs
    <3> QED
      BY <1>3, <3>1
  <2> QED
    BY <1>3, <2>2, <2>3, <2>4
<1>7. SubSeq(r, 1, n) = SubSeq(u, 1, n)
  <2>1. /\ SubSeq(r, 1, n) \in Seq(S) /\ Len(SubSeq(r, 1, n)) = n
        /\ \A i \in 1..n : SubSeq(r, 1, n)[i] = r[i]
    BY <1>5
  <2>2. /\ SubSeq(u, 1, n) \in Seq(S) /\ Len(SubSeq(u, 1, n)) = n
        /\ \A i \in 1..n : SubSeq(u, 1, n)[i] = u[i]
    BY <1>5
  <2> QED
    BY <1>6, <2>1, <2>2, SameSequence
<1> QED
  BY <1>2, <1>4, <1>5, <1>7 DEF IsSuffix, IsPrefix

LEMMA SplitAt ==
    ASSUME NEW S, NEW s \in Seq(S), NEW b \in 1..(Len(s) + 1)
    PROVE  s = SubSeq(s, 1, b - 1) \o SubSeq(s, b, Len(s))
<1>1. PICK n \in Nat : n = Len(s)
  OBVIOUS
<1>2. PICK h \in Seq(S), t \in Seq(S) : h = SubSeq(s, 1, b - 1) /\ t = SubSeq(s, b, n)
  <2>1. SubSeq(s, 1, b - 1) \in Seq(S) /\ SubSeq(s, b, n) \in Seq(S)
    BY <1>1
  <2> QED
    BY <2>1
<1>3. Len(h) = b - 1 /\ \A i \in 1..(b - 1) : h[i] = s[i]
  BY <1>1, <1>2
<1>4. Len(t) = (n - b) + 1 /\ \A i \in 1..((n - b) + 1) : t[i] = s[(b + i) - 1]
  BY <1>1, <1>2
<1>5. PICK c \in Seq(S) : c = h \o t
  BY OneAfterOther
<1>6. /\ Len(c) = n
      /\ \A i \in 1..(b - 1) : c[i] = h[i]
      /\ \A i \in 1..((n - b) + 1) : c[(b - 1) + i] = t[i]
  BY <1>1, <1>3, <1>4, <1>5
<1>7. ASSUME NEW i \in 1..n PROVE c[i] = s[i]
  <2>1. CASE i \in 1..(b - 1)
    BY <1>3, <1>6, <2>1
  <2>2. CASE i \notin 1..(b - 1)
    <3>1. PICK j \in 1..((n - b) + 1) : j = (i - b) + 1 /\ (b - 1) + j = i /\ (b + j) - 1 = i
      BY <1>1, <2>2
    <3>2. c[(b - 1) + j] = t[j] /\ t[j] = s[(b + j) - 1]
      BY <1>4, <1>6
    <3> QED
      BY <3>1, <3>2
  <2> QED
    BY <2>1, <2>2
<1> QED
  BY <1>1, <1>2, <1>5, <1>6, <1>7, SameSequence

(* The system's message is one of them, or there is none. *)
LEMMA SystemIs ==
    ASSUME NEW m \in Seq(Message)
    PROVE  /\ System(m) \in 0..Len(m)
           /\ System(m) # 0 => m[System(m)].role = "system"
<1>1. PICK I \in SUBSET (1..Len(m)) : I = {i \in 1..Len(m) : m[i].role = "system"}
  OBVIOUS
<1>2. System(m) = IF I # {} THEN Min(I) ELSE 0
  BY <1>1 DEF System, SelectInSeq
<1>3. I # {} => Min(I) \in I
  BY SmallestOf
<1> QED
  BY <1>1, <1>2, <1>3

(* What is added of the middle is its end, backwards, and fits. *)
LEMMA AddedIs ==
    ASSUME NEW m \in Seq(Message), NEW base \in Int, room \in Int, base <= room
    PROVE  \E n \in 0..Len(m), rest \in Seq(Message) :
              /\ rest = SubSeq(m, Len(m) - n + 1, Len(m))
              /\ Added(m, base) = Reverse(rest)
              /\ base + EstimateTokens(rest) <= room
<1>1. PICK M \in Nat : M = Len(m)
  OBVIOUS
<1> DEFINE fits(n) == base + EstimateTokens(SubSeq(m, M - n + 1, M)) <= room
           fit(n) == /\ \A k \in 0..n : fits(k)
                     /\ n = M \/ ~fits(n + 1)
           most == CHOOSE n \in 0..M : fit(n)
<1>2. fits(0)
  <2>1. SubSeq(m, M - 0 + 1, M) = <<>>
    BY <1>1
  <2>2. EstimateTokens(<<>>) = 0
    <3>1. Sizes(<<>>) = <<>>
      BY DEF Sizes
    <3>2. EstimateTokens(<<>>) = Total(Sizes(<<>>))
      BY DEF EstimateTokens, Sizes
    <3> QED
      BY <3>1, <3>2, TotalOfNone
  <2>3. EstimateTokens(SubSeq(m, M - 0 + 1, M)) = 0
    BY <2>1, <2>2
  <2> QED
    BY <2>3
<1>3. \E n \in 0..M : fit(n)
  <2>1. PICK I : I = {n \in 0..M : ~fits(n)}
    OBVIOUS
  <2> HIDE DEF fits
  <2>2. CASE I = {}
    <3>1. fit(M)
      BY <2>1, <2>2
    <3> QED
      BY <3>1
  <2>3. CASE I # {}
    <3>1. PICK x \in I : \A i \in I : x <= i
      <4>1. I \in SUBSET Nat
        BY <2>1
      <4> QED
        BY <2>3, <4>1, SmallestOf
    <3>2. x \in 1..M /\ ~fits(x)
      BY <1>2, <2>1
    <3>3. x - 1 \in 0..M /\ (x - 1) + 1 = x
      BY <3>2
    <3>4. \A k \in 0..(x - 1) : fits(k)
      BY <2>1, <3>1, <3>2
    <3>5. fit(x - 1)
      BY <3>2, <3>3, <3>4
    <3> HIDE DEF fit
    <3> QED
      BY <3>3, <3>5
  <2> QED
    BY <2>2, <2>3
<1>4. most \in 0..M /\ fit(most)
  <2> HIDE DEF fit
  <2> QED
    BY <1>3
<1>5. Added(m, base) = Reverse(SubSeq(m, M - most + 1, M))
  BY <1>1 DEF Added
<1>6. fits(most)
  BY <1>4
<1>7. SubSeq(m, M - most + 1, M) \in Seq(Message)
  <2> HIDE DEF most
  <2>1. most \in 0..M
    BY <1>4
  <2> QED
    BY <1>1, <2>1
<1> HIDE DEF most
<1>8. PICK n \in 0..M : n = most
  BY <1>4
<1> QED
  BY <1>1, <1>5, <1>6, <1>7, <1>8

(* Where the tail begins; how much the system prompt and the tail take. *)
TailStart(m) == IF Len(m) > TailCount THEN Len(m) - TailCount + 1 ELSE 1
PromptOf(m) == IF System(m) = 0 THEN <<>> ELSE <<m[System(m)]>>
PromptPlace(m) == IF System(m) = 0 THEN {} ELSE {System(m)}
PromptTokens(m) == IF System(m) = 0 THEN 0 ELSE m[System(m)].tokens

(* t is a trimmed form of m. *)
IsTrimmed(t, m) ==
    /\ t \in Seq(Message)
    /\ \E c \in 1..TailStart(m) : Shows(t, m, PromptPlace(m) \cup (c..Len(m)))
    /\ IsSuffix(LastOf(m), t)
    /\ PromptTokens(m) + EstimateTokens(LastOf(m)) <= room => EstimateTokens(t) <= room
    /\ t # m => /\ System(m) # 0 => t[1] = m[System(m)]
                /\ EstimateTokens(m) > room

LEMMA TailIs ==
    ASSUME NEW m \in Seq(Message)
    PROVE  /\ TailStart(m) \in 1..(Len(m) + 1)
           /\ LastOf(m) = SubSeq(m, TailStart(m), Len(m)) /\ LastOf(m) \in Seq(Message)
           /\ Shows(LastOf(m), m, TailStart(m)..Len(m))
           /\ m # <<>> => LastOf(m) # <<>>
<1>1. PICK L \in Nat, b \in Nat : L = Len(m) /\ b = TailStart(m)
  BY TrimAssumption DEF TailStart
<1>2. b \in 1..(L + 1) /\ (L > 0 => b <= L)
  BY <1>1, TrimAssumption DEF TailStart
<1>3. LastOf(m) = SubSeq(m, b, L)
  BY <1>1 DEF LastOf, TailStart
<1>4. SubSeq(m, b, L) \in Seq(Message) /\ Len(SubSeq(m, b, L)) = IF b <= L THEN (L - b) + 1 ELSE 0
  BY <1>1, <1>2, PartIs
<1>5. Shows(SubSeq(m, b, L), m, b..L)
  BY <1>1, <1>2, PartShows
<1>6. m # <<>> => L > 0
  BY <1>1
<1>7. L > 0 => SubSeq(m, b, L) # <<>>
  <2> SUFFICES ASSUME L > 0 PROVE Len(SubSeq(m, b, L)) # Len(<<>>)
    OBVIOUS
  <2>1. Len(SubSeq(m, b, L)) = (L - b) + 1
    BY <1>2, <1>4
  <2>2. (L - b) + 1 # 0
    BY <1>2
  <2> QED
    BY <2>1, <2>2
<1>8. TailStart(m) \in 1..(Len(m) + 1) /\ LastOf(m) = SubSeq(m, TailStart(m), Len(m))
  BY <1>1, <1>2, <1>3
<1>9. LastOf(m) \in Seq(Message) /\ Shows(LastOf(m), m, TailStart(m)..Len(m))
  BY <1>1, <1>3, <1>4, <1>5
<1>10. m # <<>> => LastOf(m) # <<>>
  BY <1>3, <1>6, <1>7
<1> QED
  BY <1>8, <1>9, <1>10

LEMMA PromptIs ==
    ASSUME NEW m \in Seq(Message)
    PROVE  /\ PromptOf(m) \in Seq(Message) /\ Shows(PromptOf(m), m, PromptPlace(m))
           /\ EstimateTokens(PromptOf(m)) = PromptTokens(m)
           /\ System(m) # 0 => /\ Len(PromptOf(m)) = 1 /\ PromptOf(m)[1] = m[System(m)]
                               /\ m[System(m)] \in Message
<1>1. CASE System(m) = 0
  <2>1. Sizes(<<>>) = <<>> /\ EstimateTokens(<<>>) = Total(Sizes(<<>>))
    BY DEF EstimateTokens, Sizes
  <2>2. PromptOf(m) = <<>> /\ PromptPlace(m) = {} /\ PromptTokens(m) = 0
    BY <1>1 DEF PromptOf, PromptPlace, PromptTokens
  <2>3. Shows(<<>>, m, {})
    BY DEF Shows
  <2> QED
    BY <1>1, <2>1, <2>2, <2>3, TotalOfNone
<1>2. CASE System(m) # 0
  <2>1. PICK s \in 1..Len(m) : s = System(m)
    BY <1>2, SystemIs
  <2>2. PICK e \in Message : e = m[s]
    OBVIOUS
  <2>3. PromptOf(m) = <<e>> /\ PromptPlace(m) = {s} /\ PromptTokens(m) = e.tokens
    BY <1>2, <2>1, <2>2 DEF PromptOf, PromptPlace, PromptTokens
  <2>4. Shows(<<e>>, m, {s})
    BY <2>2 DEF Shows
  <2>5. EstimateTokens(<<e>>) = e.tokens
    <3>1. e.tokens \in Int
      <4>1. e.tokens \in MessageSizes
        BY DEF Message
      <4>2. MessageSizes \subseteq Nat
        BY TrimAssumption
      <4>3. e.tokens \in Nat
        BY Zenon, <4>1, <4>2
      <4> QED
        BY <4>3
    <3>2. DOMAIN <<e>> = 1..1 /\ <<e>>[1] = e
      OBVIOUS
    <3>3. Sizes(<<e>>) = [i \in 1..1 |-> e.tokens]
      BY <3>2 DEF Sizes
    <3>4. Sizes(<<e>>) = <<e.tokens>>
      BY <3>3
    <3>5. EstimateTokens(<<e>>) = Total(Sizes(<<e>>))
      BY DEF EstimateTokens, Sizes
    <3> QED
      BY <3>1, <3>4, <3>5, TotalOfOne
  <2> QED
    BY <2>1, <2>2, <2>3, <2>4, <2>5
<1> QED
  BY <1>1, <1>2

LEMMA TrimmedIs ==
    ASSUME NEW m \in Seq(Message), room \in Int
    PROVE  IsTrimmed(TrimContext(m), m)
<1>1. PICK L \in Nat, b \in Nat : L = Len(m) /\ b = TailStart(m) /\ b >= 1 /\ b <= L + 1
  BY TailIs
<1>2. PICK h \in Seq(Message), t \in Seq(Message) : h = PromptOf(m) /\ t = LastOf(m)
  BY PromptIs, TailIs
<1>3. h \o t \in Seq(Message) /\ EstimateTokens(h \o t) = PromptTokens(m) + EstimateTokens(t)
      /\ EstimateTokens(t) \in Nat
  BY <1>2, EstimateOfTwo, PromptIs
<1>4. PICK short \in Int : short = EstimateTokens(h \o t)
  BY <1>2, EstimateOfTwo
<1>5. TrimContext(m) =
        IF EstimateTokens(m) <= room THEN m
        ELSE IF short > room THEN h \o t
        ELSE h \o Added(Middle(m), short) \o t
  BY <1>2, <1>4 DEF TrimContext, PromptOf
<1>6. EstimateTokens(m) \in Int
  BY TokensAre, TotalIsWhole
<1>7. CASE EstimateTokens(m) <= room
  <2>1. TrimContext(m) = m
    BY <1>5, <1>7
  <2>2. Shows(m, m, 1..L)
    BY <1>1 DEF Shows
  <2>3. \E c \in 1..b : Shows(m, m, PromptPlace(m) \cup (c..L))
    <3>1. PromptPlace(m) \cup (1..L) = 1..L
      BY <1>1, SystemIs DEF PromptPlace
    <3>2. Shows(m, m, PromptPlace(m) \cup (1..L))
      BY <2>2, <3>1
    <3>3. 1 \in 1..b
      BY <1>1
    <3> QED
      BY <3>2, <3>3
  <2>4. IsSuffix(t, m)
    <3>1. SubSeq(m, 1, b - 1) \in Seq(Message)
      BY <1>1
    <3>2. m = SubSeq(m, 1, b - 1) \o t
      <4>1. b \in 1..(Len(m) + 1) /\ t = SubSeq(m, b, Len(m))
        BY <1>1, <1>2, TailIs
      <4> QED
        BY <4>1, SplitAt
    <3>3. IsSuffix(t, SubSeq(m, 1, b - 1) \o t)
      BY <3>1, EndsWith
    <3> QED
      BY <3>2, <3>3
  <2> QED
    BY <1>1, <1>2, <1>7, <2>1, <2>3, <2>4 DEF IsTrimmed
<1>8. CASE ~(EstimateTokens(m) <= room) /\ short > room
  <2>1. TrimContext(m) = h \o t
    BY <1>5, <1>8
  <2>2. Shows(h \o t, m, PromptPlace(m) \cup (b..L))
    BY <1>1, <1>2, PromptIs, TailIs, ShowsOfTwo
  <2>3. b \in 1..b
    BY <1>1
  <2>4. IsSuffix(t, h \o t)
    BY EndsWith
  <2>5. System(m) # 0 => (h \o t)[1] = m[System(m)]
    BY <1>2, PromptIs, OneAfterOther
  <2>6. ~(PromptTokens(m) + EstimateTokens(t) <= room) /\ EstimateTokens(m) > room
    BY <1>3, <1>4, <1>6, <1>8
  <2> QED
    BY <1>1, <1>2, <1>3, <2>1, <2>2, <2>3, <2>4, <2>5, <2>6 DEF IsTrimmed
<1>9. CASE ~(EstimateTokens(m) <= room) /\ ~(short > room)
  <2>1. PICK mid : mid = Middle(m)
    OBVIOUS
  <2>2. PICK a \in 1..2 : a = IF System(m) = 1 THEN 2 ELSE 1
    OBVIOUS
  <2>3. a <= L + 1
    BY <1>1, <2>2, SystemIs
  <2>4. mid = SubSeq(m, a, L - TailCount) /\ L - TailCount \in Int /\ L - TailCount <= L
    BY <1>1, <2>1, <2>2, TrimAssumption DEF Middle
  <2>5. /\ mid \in Seq(Message)
        /\ Len(mid) = IF a <= L - TailCount THEN ((L - TailCount) - a) + 1 ELSE 0
        /\ \A i \in 1..(((L - TailCount) - a) + 1) : mid[i] = m[(a + i) - 1]
    BY <1>1, <2>2, <2>3, <2>4, PartIs
  <2>6. PICK M \in Nat : M = Len(mid)
    BY <2>5
  <2>7. PICK n \in 0..M, rest \in Seq(Message) :
          /\ rest = SubSeq(mid, M - n + 1, M)
          /\ Added(mid, short) = Reverse(rest)
          /\ short + EstimateTokens(rest) <= room
    <3>1. short <= room
      BY <1>9
    <3>2. \E n \in 0..Len(mid), rest \in Seq(Message) :
              /\ rest = SubSeq(mid, Len(mid) - n + 1, Len(mid))
              /\ Added(mid, short) = Reverse(rest)
              /\ short + EstimateTokens(rest) <= room
      BY <2>5, <3>1, AddedIs
    <3> QED
      BY <2>6, <3>2
  <2>8. PICK r \in Seq(Message) : r = Reverse(rest) /\ EstimateTokens(r) = EstimateTokens(rest)
    BY ReverseIs, EstimateBackwards
  <2>9. TrimContext(m) = (h \o r) \o t
    BY <1>5, <1>9, <2>1, <2>7, <2>8
  <2>10. PICK c \in 1..b : /\ Shows(rest, m, c..(b - 1))
    <3>1. CASE M = 0
      <4>1. rest = <<>>
        <5>1. n = 0 /\ mid = <<>>
          BY <2>5, <2>6, <2>7, <3>1
        <5> QED
          BY <2>7, <3>1, <5>1
      <4>2. Shows(rest, m, b..(b - 1))
        <5>1. b..(b - 1) = {}
          BY <1>1
        <5> QED
          BY <4>1, <5>1 DEF Shows
      <4> QED
        BY <1>1, <4>2
    <3>2. CASE M > 0
      <4>1. a <= L - TailCount /\ M = ((L - TailCount) - a) + 1 /\ b = L - TailCount + 1
        BY <1>1, <2>5, <2>6, <3>2, TrimAssumption DEF TailStart
      <4>2. PICK k \in 1..(M + 1) : k = M - n + 1
        BY <2>7
      <4>3. Shows(rest, mid, k..M)
        <5>1. rest = SubSeq(mid, k, M) /\ M \in Int /\ M <= Len(mid) /\ k \in 1..(Len(mid) + 1)
          BY <2>6, <2>7, <4>2
        <5> QED
          BY <2>5, <5>1, PartShows
      <4>4. PICK c \in 1..b : c = (a + k) - 1
        <5>1. L \in Int /\ TailCount \in Int /\ a \in Int /\ a >= 1 /\ k >= 1 /\ k <= M + 1
          BY <2>2, <4>2, TrimAssumption
        <5>2. (a + k) - 1 \in 1..b
          BY <4>1, <5>1
        <5> QED
          BY <5>2
      <4>5. \A i \in k..M : (a + i) - 1 \in c..(b - 1) /\ mid[i] = m[(a + i) - 1]
        <5> TAKE i \in k..M
        <5>1. L \in Int /\ TailCount \in Int /\ a \in Int /\ k >= 1
          BY <2>2, <4>2, TrimAssumption
        <5>2. i \in 1..(((L - TailCount) - a) + 1)
          BY <4>1, <4>2, <5>1
        <5>3. (a + i) - 1 \in c..(b - 1)
          BY <4>1, <4>4, <5>1
        <5> QED
          BY <2>5, <5>2, <5>3
      <4>6. \A y \in c..(b - 1) : \E i \in k..M : mid[i] = m[y]
        <5> TAKE y \in c..(b - 1)
        <5>1. PICK i \in k..M : i = (y - a) + 1 /\ (a + i) - 1 = y
          <6>1. L \in Int /\ TailCount \in Int /\ a \in Int
            BY <2>2, TrimAssumption
          <6>2. (y - a) + 1 \in k..M /\ (a + ((y - a) + 1)) - 1 = y
            BY <4>1, <4>2, <4>4, <6>1
          <6> QED
            BY <6>2
        <5> QED
          BY <4>5, <5>1
      <4>7. Shows(rest, m, c..(b - 1))
        <5>1. ASSUME NEW x \in 1..Len(rest) PROVE \E y \in c..(b - 1) : rest[x] = m[y]
          <6>1. PICK i \in k..M : rest[x] = mid[i]
            BY <4>3 DEF Shows
          <6> QED
            BY <4>5, <6>1
        <5>2. ASSUME NEW y \in c..(b - 1) PROVE \E x \in 1..Len(rest) : rest[x] = m[y]
          <6>1. PICK i \in k..M : mid[i] = m[y]
            BY <4>6
          <6>2. PICK x \in 1..Len(rest) : rest[x] = mid[i]
            BY <4>3 DEF Shows
          <6> QED
            BY <6>1, <6>2
        <5> QED
          BY <5>1, <5>2 DEF Shows
      <4> QED
        BY <4>7
    <3> QED
      BY <2>6, <3>1, <3>2
  <2>11. Shows((h \o r) \o t, m, PromptPlace(m) \cup (c..L))
    <3>1. Shows(r, m, c..(b - 1))
      BY <2>8, <2>10, ShowsBackwards
    <3>2. Shows(h \o r, m, PromptPlace(m) \cup (c..(b - 1)))
      BY <1>2, <3>1, PromptIs, ShowsOfTwo
    <3>3. h \o r \in Seq(Message)
      BY OneAfterOther
    <3>4. Shows((h \o r) \o t, m, (PromptPlace(m) \cup (c..(b - 1))) \cup (b..L))
      BY <1>1, <1>2, <3>2, <3>3, TailIs, ShowsOfTwo
    <3>5. (c..(b - 1)) \cup (b..L) = c..L
      BY <1>1
    <3>6. (PromptPlace(m) \cup (c..(b - 1))) \cup (b..L) = PromptPlace(m) \cup (c..L)
      BY <3>5
    <3> QED
      BY <3>4, <3>6
  <2>12. h \o r \in Seq(Message) /\ (h \o r) \o t \in Seq(Message)
    BY OneAfterOther
  <2>13. IsSuffix(t, (h \o r) \o t)
    BY <2>12, EndsWith
  <2>14. EstimateTokens((h \o r) \o t) <= room
    <3>1. /\ EstimateTokens(h \o r) = EstimateTokens(h) + EstimateTokens(r)
          /\ EstimateTokens(h) \in Nat /\ EstimateTokens(r) \in Nat
      BY EstimateOfTwo
    <3>2. /\ EstimateTokens((h \o r) \o t) = EstimateTokens(h \o r) + EstimateTokens(t)
          /\ EstimateTokens(t) \in Nat
      BY <2>12, EstimateOfTwo
    <3>3. short = EstimateTokens(h) + EstimateTokens(t)
      BY <1>4, EstimateOfTwo
    <3> QED
      BY <2>7, <2>8, <3>1, <3>2, <3>3
  <2>15. System(m) # 0 => ((h \o r) \o t)[1] = m[System(m)]
    <3> SUFFICES ASSUME System(m) # 0 PROVE ((h \o r) \o t)[1] = m[System(m)]
      OBVIOUS
    <3>1. Len(h) = 1 /\ h[1] = m[System(m)]
      BY <1>2, PromptIs
    <3>2. 1 \in 1..Len(h) /\ Len(r) \in Nat
      BY <3>1
    <3>3. (h \o r)[1] = h[1] /\ Len(h \o r) = Len(h) + Len(r)
      BY <3>2, OneAfterOther
    <3>4. 1 \in 1..Len(h \o r)
      BY <3>1, <3>2, <3>3
    <3>5. ((h \o r) \o t)[1] = (h \o r)[1]
      BY <2>12, <3>4, OneAfterOther
    <3> QED
      BY <3>1, <3>3, <3>5
  <2>16. EstimateTokens(m) > room
    BY <1>6, <1>9
  <2> QED
    BY <1>1, <1>2, <2>9, <2>10, <2>11, <2>12, <2>13, <2>14, <2>15, <2>16 DEF IsTrimmed
<1> QED
  BY <1>7, <1>8, <1>9

TrimInv ==
    /\ Talk(talk) /\ room \in Nat
    /\ trimmed = <<>> \/ trimmed = TrimContext(talk)

LEMMA SameContext ==
    ASSUME talk' = talk, room' = room
    PROVE  TrimContext(talk)' = TrimContext(talk)
<1>1. System(talk)' = System(talk) /\ LastOf(talk)' = LastOf(talk)
  BY DEF System, SelectInSeq, LastOf
<1>2. Middle(talk)' = Middle(talk)
  BY <1>1 DEF Middle
<1>3. \A m, n : Added(m, n)' = Added(m, n)
  BY DEF Added
<1> QED
  BY <1>1, <1>2, <1>3 DEF TrimContext

LEMMA TrimStart == TrimInit => TrimInv
<1> SUFFICES ASSUME TrimInit PROVE TrimInv
  OBVIOUS
<1>1. PICK t \in 1..3, n \in MessageSizes : room = t * n
  BY DEF TrimInit
<1>2. n \in Nat /\ t * n \in Nat
  BY TrimAssumption
<1> QED
  BY <1>1, <1>2 DEF TrimInit, TrimInv, Talk

LEMMA TrimStep == TrimInv /\ TrimNext => TrimInv'
<1> SUFFICES ASSUME TrimInv, TrimNext PROVE TrimInv'
  OBVIOUS
<1>1. ASSUME NEW role \in {"system", "user"}, NEW tokens \in MessageSizes, Say(role, tokens)
      PROVE  TrimInv'
  <2>1. PICK L \in Nat : L = Len(talk)
    BY DEF TrimInv, Talk
  <2>2. PICK e \in Message : e = [id |-> L + 1, role |-> role, tokens |-> tokens] /\ e.id = L + 1
    <3>1. [id |-> L + 1, role |-> role, tokens |-> tokens] \in Message
      BY DEF Message
    <3> QED
      BY <3>1
  <2>3. talk' = Append(talk, e) /\ trimmed' = <<>> /\ room' = room
    BY <1>1, <2>1, <2>2 DEF Say
  <2>4. talk \in Seq(Message) /\ \A i \in 1..L : talk[i].id = i
    BY <2>1 DEF TrimInv, Talk
  <2>5. /\ talk' \in Seq(Message) /\ Len(talk') = L + 1 /\ talk'[L + 1] = e
        /\ \A i \in 1..L : talk'[i] = talk[i]
    BY <2>1, <2>3, <2>4
  <2>6. \A i \in 1..(L + 1) : talk'[i].id = i
    BY <2>2, <2>4, <2>5
  <2> QED
    BY <2>3, <2>5, <2>6 DEF TrimInv, Talk
<1>2. CASE Trim
  <2>1. talk' = talk /\ room' = room /\ trimmed' = TrimContext(talk)
    BY <1>2 DEF Trim
  <2>2. TrimContext(talk)' = TrimContext(talk)
    BY <2>1, SameContext
  <2> QED
    BY <2>1, <2>2 DEF TrimInv, Talk
<1> QED
  BY <1>1, <1>2 DEF TrimNext

LEMMA TrimStutter == TrimInv /\ UNCHANGED trimVars => TrimInv'
<1> SUFFICES ASSUME TrimInv, UNCHANGED trimVars PROVE TrimInv'
  OBVIOUS
<1>1. talk' = talk /\ room' = room /\ trimmed' = trimmed
  BY DEF trimVars
<1> QED
  BY <1>1, SameContext DEF TrimInv, Talk

LEMMA TrimIsRight == TrimInv => TrimTypeOK /\ TrimmedTalkFits
<1> SUFFICES ASSUME TrimInv PROVE TrimTypeOK /\ TrimmedTalkFits
  OBVIOUS
<1>1. PICK L \in Nat : L = Len(talk)
  BY DEF TrimInv, Talk
<1>2. talk \in Seq(Message) /\ room \in Nat /\ \A i \in 1..L : talk[i].id = i
  BY <1>1 DEF TrimInv, Talk
<1>3. CASE trimmed = <<>>
  <2>1. ToSet(trimmed) = {}
    BY <1>3 DEF ToSet
  <2>2. TrimTypeOK
    BY <1>2, <2>1 DEF TrimTypeOK, Message
  <2> QED
    BY <1>3, <2>2 DEF TrimmedTalkFits
<1>4. CASE trimmed # <<>>
  <2>1. IsTrimmed(trimmed, talk)
    BY <1>2, <1>4, TrimmedIs DEF TrimInv
  <2>2. PICK c \in 1..TailStart(talk), N \in Nat :
          N = Len(trimmed) /\ Shows(trimmed, talk, PromptPlace(talk) \cup (c..L))
    <3>1. trimmed \in Seq(Message) /\ Len(trimmed) \in Nat
      BY <2>1 DEF IsTrimmed
    <3>2. \E c \in 1..TailStart(talk) : Shows(trimmed, talk, PromptPlace(talk) \cup (c..L))
      BY <1>1, <2>1 DEF IsTrimmed
    <3> QED
      BY <3>1, <3>2
  <2>3. PICK Y \in SUBSET (1..L) : Y = PromptPlace(talk) \cup (c..L) /\ c >= 1
    <3>1. System(talk) \in 0..L
      BY <1>1, <1>2, SystemIs
    <3>2. TailStart(talk) \in 1..(L + 1)
      BY <1>1, <1>2, TailIs
    <3>3. c \in Nat /\ c >= 1
      BY <3>2
    <3>4. PromptPlace(talk) \subseteq 1..L
      BY <3>1 DEF PromptPlace
    <3>5. PromptPlace(talk) \cup (c..L) \in SUBSET (1..L)
      BY <3>3, <3>4
    <3> QED
      BY <3>3, <3>5
  <2>4. /\ \A x \in 1..N : \E y \in Y : trimmed[x] = talk[y]
        /\ \A y \in Y : \E x \in 1..N : trimmed[x] = talk[y]
    BY <2>2, <2>3 DEF Shows
  <2>5. DOMAIN trimmed = 1..N /\ DOMAIN talk = 1..L
    BY <1>1, <1>2, <2>1, <2>2 DEF IsTrimmed
  <2>6. ToSet(trimmed) \subseteq ToSet(talk)
    <3> SUFFICES ASSUME NEW x \in 1..N PROVE \E y \in 1..L : trimmed[x] = talk[y]
      BY <2>5 DEF ToSet
    <3> QED
      BY <2>3, <2>4
  <2>7. TrimTypeOK
    BY <1>2, <2>6 DEF TrimTypeOK, Message
  <2>8. {trimmed[i].id : i \in DOMAIN trimmed} = Y
    <3>1. ASSUME NEW x \in 1..N PROVE trimmed[x].id \in Y
      <4>1. PICK y \in Y : trimmed[x] = talk[y]
        BY <2>4
      <4> QED
        BY <1>2, <4>1
    <3>2. ASSUME NEW y \in Y PROVE \E x \in 1..N : trimmed[x].id = y
      <4>1. PICK x \in 1..N : trimmed[x] = talk[y]
        BY <2>4
      <4> QED
        BY <1>2, <4>1
    <3> QED
      BY <2>5, <3>1, <3>2
  <2>9. \A i, j \in DOMAIN talk : (i < j /\ talk[i].role # "system" /\ i \in Y) => j \in Y
    <3> SUFFICES ASSUME NEW i \in 1..L, NEW j \in 1..L, i < j, talk[i].role # "system", i \in Y PROVE j \in Y
      BY <2>5
    <3>1. i \in c..L
      BY <1>2, <2>3, SystemIs DEF PromptPlace
    <3>2. j \in c..L
      BY <2>3, <3>1
    <3> QED
      BY <2>3, <3>2
  <2>10. PICK short : /\ short = PromptTokens(talk) + EstimateTokens(LastOf(talk))
                      /\ short <= room => EstimateTokens(trimmed) <= room
    BY <2>1 DEF IsTrimmed
  <2>11. /\ IsSuffix(LastOf(talk), trimmed)
         /\ (System(talk) # 0 /\ trimmed # talk) => trimmed[1] = talk[System(talk)]
         /\ trimmed # talk => EstimateTokens(talk) > room
    BY <2>1 DEF IsTrimmed
  <2>12. TrimmedTalkFits
    BY Zenon, <2>8, <2>9, <2>10, <2>11 DEF TrimmedTalkFits, PromptTokens
  <2> QED
    BY <2>7, <2>12
<1> QED
  BY <1>3, <1>4

-----------------------------------------------------------------------------
(* Facts (memory/semantic_store.py): a row counts the gets that returned it *)
(* while nobody stored or deleted it meanwhile.                             *)

Counted == Nat \cup {-1}

FactsInv ==
    /\ facts \in [FactIds -> Counted] /\ returned \in [FactIds -> Nat]
    /\ reading \in [StoreUsers -> FactIds \cup {"none"}]
    /\ copies \in [StoreUsers -> [FactIds -> Counted]]
    /\ \A f \in FactIds \ resets : /\ facts[f] # -1 => facts[f] = returned[f]
                                   /\ facts[f] = -1 => returned[f] = 0

LEMMA FactsStart == StoresInit => FactsInv
  BY DEF StoresInit, FactsInv, Counted

LEMMA StoreFactKeeps ==
    ASSUME FactsInv, NEW u \in StoreUsers, NEW f \in FactIds, StoreFact(u, f)
    PROVE  FactsInv'
<1>1. PICK count \in Nat : count = IF copies[u][f] = -1 THEN 0 ELSE copies[u][f]
  <2>1. copies[u][f] \in Nat \cup {-1}
    BY DEF FactsInv, Counted
  <2> QED
    BY <2>1
<1>2. /\ facts' = [facts EXCEPT ![f] = count]
      /\ returned' = [returned EXCEPT ![f] = IF copies[u][f] = -1 THEN 0 ELSE returned[f]]
      /\ resets' = IF count # 0 \/ facts[f] > count THEN resets \cup {f} ELSE resets
      /\ reading' = reading /\ copies' = copies
  BY <1>1 DEF StoreFact
<1>3. facts' \in [FactIds -> Counted] /\ returned' \in [FactIds -> Nat]
  BY <1>2 DEF FactsInv, Counted
<1>4. ASSUME NEW g \in FactIds \ resets'
      PROVE  /\ facts'[g] # -1 => facts'[g] = returned'[g]
             /\ facts'[g] = -1 => returned'[g] = 0
  <2>1. g \notin resets
    BY <1>2, <1>4
  <2>2. CASE g # f
    BY <1>2, <2>1, <2>2 DEF FactsInv
  <2>3. CASE g = f
    <3>1. count = 0 /\ ~(facts[f] > 0)
      BY <1>2, <1>4, <2>3
    <3>2. facts[f] \in Nat \cup {-1}
      BY DEF FactsInv, Counted
    <3>3. facts[f] = 0 \/ facts[f] = -1
      BY <3>1, <3>2
    <3>4. returned[f] = 0
      BY <2>1, <2>3, <3>3 DEF FactsInv
    <3>5. facts'[f] = 0 /\ returned'[f] = 0
      BY <1>2, <3>1, <3>4 DEF FactsInv
    <3> QED
      BY <2>3, <3>5
  <2> QED
    BY <2>2, <2>3
<1> QED
  BY <1>2, <1>3, <1>4 DEF FactsInv

LEMMA EndGetKeeps ==
    ASSUME FactsInv, NEW u \in StoreUsers, EndGet(u)
    PROVE  FactsInv'
<1>1. PICK f \in FactIds : f = reading[u]
  BY DEF FactsInv, EndGet
<1>2. /\ facts' = IF facts[f] = -1 THEN facts ELSE [facts EXCEPT ![f] = facts[f] + 1]
      /\ returned' = [returned EXCEPT ![f] = returned[f] + 1]
      /\ reading' = [reading EXCEPT ![u] = "none"] /\ copies' = copies
      /\ resets' = IF facts[f] = -1 THEN resets \cup {f} ELSE resets
  BY <1>1 DEF EndGet, Accessed
<1>3. returned' \in [FactIds -> Nat] /\ reading' \in [StoreUsers -> FactIds \cup {"none"}]
  BY <1>2 DEF FactsInv
<1>4. CASE facts[f] = -1
  BY <1>2, <1>3, <1>4 DEF FactsInv
<1>5. CASE facts[f] # -1
  <2>1. facts[f] \in Nat /\ returned[f] \in Nat
    BY <1>5 DEF FactsInv, Counted
  <2>2. facts' = [facts EXCEPT ![f] = facts[f] + 1] /\ resets' = resets
    BY <1>2, <1>5
  <2>3. facts' \in [FactIds -> Counted]
    BY <2>1, <2>2 DEF FactsInv, Counted
  <2>4. ASSUME NEW g \in FactIds \ resets
        PROVE  /\ facts'[g] # -1 => facts'[g] = returned'[g]
               /\ facts'[g] = -1 => returned'[g] = 0
    <3>1. CASE g = f
      <4>1. facts[f] = returned[f]
        BY <1>5, <2>4, <3>1 DEF FactsInv
      <4>2. facts'[f] = facts[f] + 1 /\ returned'[f] = returned[f] + 1
        BY <1>2, <2>2 DEF FactsInv
      <4> QED
        BY <2>1, <3>1, <4>1, <4>2
    <3>2. CASE g # f
      BY <1>2, <2>2, <3>2 DEF FactsInv
    <3> QED
      BY <3>1, <3>2
  <2> QED
    BY <1>2, <1>3, <2>2, <2>3, <2>4 DEF FactsInv
<1> QED
  BY <1>4, <1>5

LEMMA FactStep == FactsInv /\ FactNext => FactsInv'
<1> SUFFICES ASSUME FactsInv, FactNext PROVE FactsInv'
  OBVIOUS
<1>1. ASSUME NEW u \in StoreUsers, NEW f \in FactIds, BeginGet(u, f) PROVE FactsInv'
  <2>1. /\ reading' = [reading EXCEPT ![u] = f] /\ copies' = [copies EXCEPT ![u][f] = facts[f]]
        /\ facts' = facts /\ returned' = returned /\ resets' = resets
    BY <1>1 DEF BeginGet
  <2>2. copies' \in [StoreUsers -> [FactIds -> Counted]]
    BY <2>1 DEF FactsInv
  <2> QED
    BY <2>1, <2>2 DEF FactsInv
<1>2. ASSUME NEW f \in FactIds, DeleteFact(f) PROVE FactsInv'
  <2>1. /\ facts' = [facts EXCEPT ![f] = -1] /\ returned' = [returned EXCEPT ![f] = 0]
        /\ reading' = reading /\ copies' = copies /\ resets \subseteq resets'
    BY <1>2 DEF DeleteFact
  <2>2. facts' \in [FactIds -> Counted] /\ returned' \in [FactIds -> Nat]
    BY <2>1 DEF FactsInv, Counted
  <2> QED
    BY <2>1, <2>2 DEF FactsInv
<1> QED
  BY <1>1, <1>2, StoreFactKeeps, EndGetKeeps DEF FactNext

LEMMA FactsStutter == FactsInv /\ UNCHANGED factVars => FactsInv'
<1> SUFFICES ASSUME FactsInv, UNCHANGED factVars PROVE FactsInv'
  OBVIOUS
<1>1. facts' = facts /\ reading' = reading /\ copies' = copies /\ returned' = returned /\ resets' = resets
  BY DEF factVars
<1> QED
  BY <1>1 DEF FactsInv

-----------------------------------------------------------------------------
(* Projects (memory/project_store.py). *)

ProjectRow == [sessions : Counted, tag : Nat]

LEMMA RowMade ==
    ASSUME NEW s \in Counted, NEW t \in Nat
    PROVE  /\ [sessions |-> s, tag |-> t] \in ProjectRow
           /\ [sessions |-> s, tag |-> t].sessions = s
<1>1. [sessions |-> s, tag |-> t] \in [sessions : Counted, tag : Nat]
  OBVIOUS
<1> QED
  BY <1>1 DEF ProjectRow

LEMMA RowIs ==
    ASSUME NEW r \in ProjectRow
    PROVE  /\ r.sessions \in Counted /\ r.tag \in Nat
           /\ r = [sessions |-> r.sessions, tag |-> r.tag]
<1>1. r \in [sessions : Counted, tag : Nat]
  BY DEF ProjectRow
<1> QED
  BY <1>1

ProjectsInv ==
    /\ project \in ProjectRow /\ contexts \in [StoreUsers -> ProjectRow]
    /\ creating \subseteq StoreUsers /\ increments \in Nat /\ overwrites \in Nat
    /\ SessionsAreCounted

LEMMA ProjectsStart == StoresInit => ProjectsInv
<1> SUFFICES ASSUME StoresInit PROVE ProjectsInv
  OBVIOUS
<1>1. NoProject \in ProjectRow
  BY DEF NoProject, ProjectRow, Counted
<1> QED
  BY <1>1 DEF StoresInit, ProjectsInv, SessionsAreCounted

LEMMA ProjectsStep ==
    ASSUME ProjectsInv, factOps \in Nat, ProjectNext
    PROVE  ProjectsInv'
<1>1. ASSUME NEW u \in StoreUsers, LoadProject(u) PROVE ProjectsInv'
  <2>1. /\ contexts' = [contexts EXCEPT ![u] = project] /\ project' = project /\ creating' = creating
        /\ increments' = increments /\ overwrites' = overwrites
    BY <1>1 DEF LoadProject
  <2> QED
    BY <2>1 DEF ProjectsInv, SessionsAreCounted
<1>2. ASSUME NEW u \in StoreUsers, MissProject(u) PROVE ProjectsInv'
  <2>1. /\ creating' = creating \cup {u} /\ project' = project /\ contexts' = contexts
        /\ increments' = increments /\ overwrites' = overwrites
    BY <1>2 DEF MissProject
  <2> QED
    BY <2>1 DEF ProjectsInv, SessionsAreCounted
<1>3. ASSUME NEW u \in StoreUsers, SaveNewProject(u) PROVE ProjectsInv'
  <2>1. PICK p \in ProjectRow : p = [sessions |-> 0, tag |-> 0] /\ p.sessions = 0
    <3>1. 0 \in Counted /\ 0 \in Nat
      BY DEF Counted
    <3> QED
      BY <3>1, RowMade
  <2>2. /\ creating' = creating \ {u} /\ project' = p /\ contexts' = [contexts EXCEPT ![u] = p]
        /\ overwrites' = overwrites + (IF project # NoProject THEN 1 ELSE 0)
        /\ increments' = IF project # NoProject THEN increments ELSE 0
    BY <1>3, <2>1 DEF SaveNewProject
  <2>3. overwrites \in Nat /\ increments \in Nat
    BY DEF ProjectsInv
  <2>4. overwrites' \in Nat /\ increments' \in Nat /\ (overwrites' = 0 => increments' = 0)
    BY <2>2, <2>3
  <2>5. contexts' \in [StoreUsers -> ProjectRow] /\ creating' \subseteq StoreUsers
    BY <2>2 DEF ProjectsInv
  <2> QED
    BY <2>1, <2>2, <2>4, <2>5 DEF ProjectsInv, SessionsAreCounted
<1>4. ASSUME NEW u \in StoreUsers, SaveProject(u) PROVE ProjectsInv'
  <2>1. contexts[u] \in ProjectRow
    BY DEF ProjectsInv
  <2>2. PICK p \in ProjectRow : p = [contexts[u] EXCEPT !.tag = factOps + 1]
                                /\ p.sessions = contexts[u].sessions
    <3>1. PICK s \in Counted, t \in Nat : contexts[u] = [sessions |-> s, tag |-> t]
      BY <2>1, RowIs
    <3>2. contexts[u].sessions = s
      BY <3>1
    <3>3. factOps + 1 \in Nat
      OBVIOUS
    <3>4. [contexts[u] EXCEPT !.tag = factOps + 1] = [sessions |-> s, tag |-> factOps + 1]
      BY <3>1
    <3>5. /\ [sessions |-> s, tag |-> factOps + 1] \in ProjectRow
          /\ [sessions |-> s, tag |-> factOps + 1].sessions = s
      BY <3>3, RowMade
    <3> QED
      BY <3>2, <3>4, <3>5
  <2>3. /\ contexts[u] # NoProject /\ project' = p /\ contexts' = [contexts EXCEPT ![u] = p]
        /\ overwrites' = overwrites + (IF project # contexts[u] THEN 1 ELSE 0)
        /\ creating' = creating /\ increments' = increments
    BY <1>4, <2>2 DEF SaveProject
  <2>4. overwrites \in Nat
    BY DEF ProjectsInv
  <2>5. overwrites' \in Nat /\ (overwrites' = 0 => overwrites = 0 /\ project = contexts[u])
    BY <2>3, <2>4
  <2>6. overwrites' = 0 => p.sessions = increments
    BY <2>2, <2>3, <2>5 DEF ProjectsInv, SessionsAreCounted
  <2>7. contexts' \in [StoreUsers -> ProjectRow]
    BY <2>3 DEF ProjectsInv
  <2> QED
    BY <2>2, <2>3, <2>5, <2>6, <2>7 DEF ProjectsInv, SessionsAreCounted
<1>5. CASE IncrementSession
  <2>1. project \in ProjectRow /\ increments \in Nat
    BY DEF ProjectsInv
  <2>2. project.sessions \in Nat \cup {-1}
    BY <2>1, RowIs DEF Counted
  <2>3. PICK p \in ProjectRow : p = Incremented(project) /\ p.sessions = project.sessions + 1
    <3>1. PICK n \in Counted : n = project.sessions + 1
      BY <2>2 DEF Counted
    <3>2. PICK s \in Counted, t \in Nat : project = [sessions |-> s, tag |-> t]
      BY <2>1, RowIs
    <3>3. Incremented(project) = [sessions |-> n, tag |-> t]
      BY <3>1, <3>2 DEF Incremented
    <3> QED
      BY <3>1, <3>3, RowMade
  <2>4. /\ project # NoProject /\ project' = p /\ increments' = increments + 1
        /\ contexts' = contexts /\ creating' = creating /\ overwrites' = overwrites
    BY <1>5, <2>3 DEF IncrementSession
  <2>5. overwrites = 0 => p.sessions = increments'
    BY <2>3, <2>4 DEF ProjectsInv, SessionsAreCounted
  <2> QED
    BY <2>1, <2>4, <2>5 DEF ProjectsInv, SessionsAreCounted
<1>6. CASE ForgetProject
  <2>1. /\ project' = NoProject /\ increments' = 0 /\ overwrites' = overwrites + 1
        /\ contexts' = contexts /\ creating' = creating
    BY <1>6 DEF ForgetProject
  <2>2. NoProject \in ProjectRow
    BY DEF NoProject, ProjectRow, Counted
  <2> QED
    BY <2>1, <2>2 DEF ProjectsInv, SessionsAreCounted
<1> QED
  BY <1>1, <1>2, <1>3, <1>4, <1>5, <1>6 DEF ProjectNext

LEMMA ProjectsStutter == ProjectsInv /\ UNCHANGED projectVars => ProjectsInv'
<1> SUFFICES ASSUME ProjectsInv, UNCHANGED projectVars PROVE ProjectsInv'
  OBVIOUS
<1>1. /\ project' = project /\ contexts' = contexts /\ creating' = creating
      /\ increments' = increments /\ overwrites' = overwrites
  BY DEF projectVars
<1> QED
  BY <1>1 DEF ProjectsInv, SessionsAreCounted

(* Both count their operations. *)
LEMMA OperationsAreBounded ==
    ASSUME factOps \in 0..MaxFactOps, FactNext \/ ProjectNext
    PROVE  factOps' \in 0..MaxFactOps
<1> USE MemoryStoresAssumption
<1>1. CASE Count
  BY <1>1 DEF Count
<1>2. CASE factOps' = factOps
  BY <1>2
<1>3. CASE FactNext
  BY <1>1, <1>2, <1>3 DEF FactNext, StoreFact, BeginGet, EndGet, DeleteFact
<1>4. CASE ProjectNext
  BY <1>1, <1>2, <1>4
     DEF ProjectNext, LoadProject, MissProject, SaveNewProject, SaveProject, IncrementSession, ForgetProject
<1> QED
  BY <1>3, <1>4

-----------------------------------------------------------------------------
(* Session search (memory/session_search.py): what one view of the rows, the *)
(* committed ones or the connection's, has to satisfy.                       *)

ChatRows == [sessions : SUBSET ChatSessions,
         messages : SUBSET (ChatSessions \X Nat), index : SUBSET (ChatSessions \X Nat)]

RowsAreRight(v, sure, maybe, lost) ==
    /\ v \in ChatRows /\ v.messages = v.index
    /\ sure \subseteq v.messages /\ v.messages \subseteq sure \cup maybe
    /\ lost \cap v.sessions = {}

ChatsInv ==
    /\ RowsAreRight(db, reported, unsure, dropped)
    /\ RowsAreRight(txn, reported, unsure, dropped)
    /\ added \in 0..MaxMessages /\ busy \in 0..MaxBusy

LEMMA ChatRowsAre ==
    ASSUME NEW v \in ChatRows
    PROVE  /\ v.sessions \subseteq ChatSessions
           /\ v.messages \subseteq ChatSessions \X Nat /\ v.index \subseteq ChatSessions \X Nat
           /\ v = [sessions |-> v.sessions, messages |-> v.messages, index |-> v.index]
<1>1. PICK s \in SUBSET ChatSessions, m \in SUBSET (ChatSessions \X Nat), i \in SUBSET (ChatSessions \X Nat) :
          v = [sessions |-> s, messages |-> m, index |-> i]
  BY DEF ChatRows
<1>2. v.sessions = s /\ v.messages = m /\ v.index = i
  BY <1>1
<1> QED
  BY <1>1, <1>2

LEMMA ChatRowsMade ==
    ASSUME NEW s \in SUBSET ChatSessions, NEW m \in SUBSET (ChatSessions \X Nat),
           NEW i \in SUBSET (ChatSessions \X Nat), NEW v,
           v = [sessions |-> s, messages |-> m, index |-> i]
    PROVE  v \in ChatRows /\ v.sessions = s /\ v.messages = m /\ v.index = i
BY DEF ChatRows

LEMMA ChatsStart == StoresInit => ChatsInv
<1> SUFFICES ASSUME StoresInit PROVE ChatsInv
  OBVIOUS
<1>1. /\ db = Empty /\ txn = Empty /\ reported = {} /\ unsure = {} /\ dropped = {}
      /\ added = 0 /\ busy = 0
  BY DEF StoresInit
<1>2. PICK none \in SUBSET ChatSessions, no \in SUBSET (ChatSessions \X Nat) : none = {} /\ no = {}
  OBVIOUS
<1>3. Empty = [sessions |-> none, messages |-> no, index |-> no]
  BY <1>2 DEF Empty
<1>4. Empty \in ChatRows /\ Empty.sessions = {} /\ Empty.messages = {} /\ Empty.index = {}
  BY <1>2, <1>3, ChatRowsMade
<1> QED
  BY <1>1, <1>4, MemoryStoresAssumption DEF ChatsInv, RowsAreRight

(* A commit moves the committed view to the connection's, or refuses. *)
LEMMA CommitIs ==
    ASSUME ChatsInv, NEW view, NEW ok \in BOOLEAN, Commit(view, ok),
           RowsAreRight(view, reported', unsure', dropped'),
           ~ok => RowsAreRight(db, reported', unsure', dropped'),
           added' \in 0..MaxMessages
    PROVE  ChatsInv'
<1> USE MemoryStoresAssumption
<1>1. txn' = view
  BY DEF Commit
<1>2. CASE ok
  <2>1. db' = view /\ busy' = busy
    BY <1>2 DEF Commit
  <2> QED
    BY <1>1, <2>1 DEF ChatsInv
<1>3. CASE ~ok
  <2>1. busy < MaxBusy /\ busy' = busy + 1 /\ db' = db
    BY <1>3 DEF Commit
  <2>2. busy \in 0..MaxBusy
    BY DEF ChatsInv
  <2>3. busy' \in 0..MaxBusy
    BY <2>1, <2>2
  <2> QED
    BY <1>1, <1>3, <2>1, <2>3 DEF ChatsInv
<1> QED
  BY <1>2, <1>3

LEMMA AddSessionKeeps ==
    ASSUME ChatsInv, NEW s \in ChatSessions, NEW ok \in BOOLEAN, AddSession(s, ok)
    PROVE  ChatsInv'
<1>1. PICK view : view = [txn EXCEPT !.sessions = @ \cup {s}]
  OBVIOUS
<1>2. /\ Commit(view, ok) /\ dropped' = dropped \ {s}
      /\ reported' = reported /\ unsure' = unsure /\ added' = added
  BY <1>1 DEF AddSession
<1>3. txn \in ChatRows /\ db \in ChatRows
  BY DEF ChatsInv, RowsAreRight
<1>4. PICK ss \in SUBSET ChatSessions, m \in SUBSET (ChatSessions \X Nat), i \in SUBSET (ChatSessions \X Nat) :
          txn = [sessions |-> ss, messages |-> m, index |-> i]
  BY <1>3, ChatRowsAre
<1>5. PICK more \in SUBSET ChatSessions : more = ss \cup {s}
  OBVIOUS
<1>6. view = [sessions |-> more, messages |-> m, index |-> i]
  BY <1>1, <1>4, <1>5
<1>7. view \in ChatRows /\ view.sessions = ss \cup {s} /\ view.messages = m /\ view.index = i
  BY <1>5, <1>6, ChatRowsMade
<1>8. txn.sessions = ss /\ txn.messages = m /\ txn.index = i
  BY <1>4
<1>9. RowsAreRight(view, reported', unsure', dropped')
  BY <1>2, <1>7, <1>8 DEF ChatsInv, RowsAreRight
<1>10. RowsAreRight(db, reported', unsure', dropped')
  BY <1>2 DEF ChatsInv, RowsAreRight
<1>11. added' \in 0..MaxMessages
  BY <1>2 DEF ChatsInv
<1> QED
  BY <1>2, <1>9, <1>10, <1>11, CommitIs

LEMMA AddMessageKeeps ==
    ASSUME ChatsInv, NEW s \in ChatSessions, NEW ok \in BOOLEAN, AddMessage(s, ok)
    PROVE  ChatsInv'
<1> USE MemoryStoresAssumption
<1>1. PICK n \in Nat : n = added
  BY DEF ChatsInv
<1>2. PICK m \in ChatSessions \X Nat : m = <<s, added>>
  BY <1>1
<1>3. PICK view : view = Indexed(txn, m)
  OBVIOUS
<1>4. /\ Commit(view, ok) /\ dropped' = dropped /\ added < MaxMessages /\ added' = added + 1
      /\ reported' = IF ok THEN reported \cup {m} ELSE reported
      /\ unsure' = IF ok THEN unsure ELSE unsure \cup {m}
  BY <1>2, <1>3 DEF AddMessage
<1>5. txn \in ChatRows
  BY DEF ChatsInv, RowsAreRight
<1>6. PICK ss \in SUBSET ChatSessions, ms \in SUBSET (ChatSessions \X Nat), i \in SUBSET (ChatSessions \X Nat) :
          txn = [sessions |-> ss, messages |-> ms, index |-> i]
  BY <1>5, ChatRowsAre
<1>7. PICK mm \in SUBSET (ChatSessions \X Nat), ii \in SUBSET (ChatSessions \X Nat) :
          mm = ms \cup {m} /\ ii = i \cup {m}
  OBVIOUS
<1>8. view = [sessions |-> ss, messages |-> mm, index |-> ii]
  BY <1>3, <1>6, <1>7 DEF Indexed
<1>9. view \in ChatRows /\ view.sessions = ss /\ view.messages = ms \cup {m} /\ view.index = i \cup {m}
  BY <1>7, <1>8, ChatRowsMade
<1>10. txn.sessions = ss /\ txn.messages = ms /\ txn.index = i
  BY <1>6
<1>11. RowsAreRight(view, reported', unsure', dropped')
  <2>1. /\ ms = i /\ reported \subseteq ms /\ ms \subseteq reported \cup unsure /\ dropped \cap ss = {}
    BY <1>10 DEF ChatsInv, RowsAreRight
  <2>2. reported' \subseteq ms \cup {m} /\ ms \cup {m} \subseteq reported' \cup unsure'
    BY <1>4, <2>1
  <2> QED
    BY <1>4, <1>9, <2>1, <2>2 DEF RowsAreRight
<1>12. ~ok => RowsAreRight(db, reported', unsure', dropped')
  BY <1>4 DEF ChatsInv, RowsAreRight
<1>13. added' \in 0..MaxMessages
  BY <1>4 DEF ChatsInv
<1> QED
  BY <1>4, <1>11, <1>12, <1>13, CommitIs

LEMMA DeleteSessionKeeps ==
    ASSUME ChatsInv, NEW s \in ChatSessions, NEW ok \in BOOLEAN, DeleteSession(s, ok)
    PROVE  ChatsInv'
<1>1. PICK view : view = Purged(txn, s)
  OBVIOUS
<1>2. /\ Commit(view, ok) /\ added' = added
      /\ reported' = reported \ OfSession(s, reported)
      /\ unsure' = IF ok THEN unsure ELSE unsure \cup OfSession(s, reported)
      /\ dropped' = IF ok THEN dropped \cup {s} ELSE dropped
  BY <1>1 DEF DeleteSession
<1>3. txn \in ChatRows
  BY DEF ChatsInv, RowsAreRight
<1>4. PICK ss \in SUBSET ChatSessions, m \in SUBSET (ChatSessions \X Nat), i \in SUBSET (ChatSessions \X Nat) :
          ss = txn.sessions \ {s} /\ m = txn.messages \ OfSession(s, txn.messages)
          /\ i = txn.index \ OfSession(s, txn.index)
  <2>1. /\ txn.sessions \subseteq ChatSessions /\ txn.messages \subseteq ChatSessions \X Nat
        /\ txn.index \subseteq ChatSessions \X Nat
    BY <1>3, ChatRowsAre
  <2> QED
    BY <2>1
<1>5. view = [sessions |-> ss, messages |-> m, index |-> i]
  BY <1>1, <1>4 DEF Purged
<1>6. view \in ChatRows /\ view.sessions = ss /\ view.messages = m /\ view.index = i
  BY <1>5, ChatRowsMade
<1>7. /\ txn.messages = txn.index /\ reported \subseteq txn.messages
      /\ txn.messages \subseteq reported \cup unsure /\ dropped \cap txn.sessions = {}
  BY DEF ChatsInv, RowsAreRight
<1>8. m = i
  BY <1>4, <1>7
<1>9. reported' \subseteq m /\ m \subseteq reported' \cup unsure'
  BY <1>2, <1>4, <1>7 DEF OfSession
<1>10. dropped' \cap ss = {}
  BY <1>2, <1>4, <1>7
<1>11. RowsAreRight(view, reported', unsure', dropped')
  BY <1>6, <1>8, <1>9, <1>10 DEF RowsAreRight
<1>12. ~ok => RowsAreRight(db, reported', unsure', dropped')
  <2> SUFFICES ASSUME ~ok PROVE RowsAreRight(db, reported', unsure', dropped')
    OBVIOUS
  <2>1. /\ db.messages = db.index /\ reported \subseteq db.messages /\ db \in ChatRows
        /\ db.messages \subseteq reported \cup unsure /\ dropped \cap db.sessions = {}
    BY DEF ChatsInv, RowsAreRight
  <2>2. dropped' = dropped /\ unsure' = unsure \cup OfSession(s, reported)
    BY <1>2
  <2>3. reported' \subseteq db.messages /\ db.messages \subseteq reported' \cup unsure'
    BY <1>2, <2>1, <2>2 DEF OfSession
  <2> QED
    BY <2>1, <2>2, <2>3 DEF RowsAreRight
<1>13. added' \in 0..MaxMessages
  BY <1>2 DEF ChatsInv
<1> QED
  BY <1>2, <1>11, <1>12, <1>13, CommitIs

LEMMA ChatStep == ChatsInv /\ ChatNext => ChatsInv'
<1> SUFFICES ASSUME ChatsInv, ChatNext PROVE ChatsInv'
  OBVIOUS
<1>1. CASE CloseSearch
  <2>1. /\ txn' = db /\ db' = db /\ reported' = reported /\ unsure' = unsure
        /\ dropped' = dropped /\ added' = added /\ busy' = busy
    BY <1>1 DEF CloseSearch
  <2> QED
    BY <2>1 DEF ChatsInv
<1> QED
  BY <1>1, AddSessionKeeps, AddMessageKeeps, DeleteSessionKeeps DEF ChatNext

LEMMA ChatsStutter == ChatsInv /\ UNCHANGED chatVars => ChatsInv'
<1> SUFFICES ASSUME ChatsInv, UNCHANGED chatVars PROVE ChatsInv'
  OBVIOUS
<1>1. /\ db' = db /\ txn' = txn /\ reported' = reported /\ unsure' = unsure
      /\ dropped' = dropped /\ added' = added /\ busy' = busy
  BY DEF chatVars
<1> QED
  BY <1>1 DEF ChatsInv

LEMMA ChatsAreRight ==
    ASSUME ChatsInv
    PROVE  /\ IndexFollowsTable
           /\ \A view \in {db, txn} :
                /\ view.sessions \subseteq ChatSessions
                /\ \A m \in view.messages \cup view.index : m[1] \in ChatSessions
<1>1. db \in ChatRows /\ txn \in ChatRows
  BY DEF ChatsInv, RowsAreRight
<1>2. ASSUME NEW view \in {db, txn}
      PROVE  /\ view.sessions \subseteq ChatSessions
             /\ \A m \in view.messages \cup view.index : m[1] \in ChatSessions
  <2>1. view \in ChatRows
    BY <1>1
  <2>2. /\ view.sessions \subseteq ChatSessions /\ view.messages \subseteq ChatSessions \X Nat
        /\ view.index \subseteq ChatSessions \X Nat
    BY <2>1, ChatRowsAre
  <2> QED
    BY <2>2
<1>3. IndexFollowsTable
  <2>1. /\ db.messages = db.index /\ reported \subseteq db.messages
        /\ db.messages \subseteq reported \cup unsure
    BY DEF ChatsInv, RowsAreRight
  <2>2. txn.messages = txn.index /\ dropped \cap txn.sessions = {}
    BY DEF ChatsInv, RowsAreRight
  <2>3. \A m \in Found : m[1] \notin dropped
    BY <2>2 DEF Found
  <2> QED
    BY <2>1, <2>2, <2>3 DEF IndexFollowsTable
<1> QED
  BY <1>2, <1>3

-----------------------------------------------------------------------------
(* Conflicts (memory/conflict.py): one on record names two memories of those *)
(* compared, the earlier one first.                                          *)

Memory == [claim : Claims, at : 1..MaxClaims]

Conflicting(j, i) ==
    /\ claims[i].claim.subject = claims[j].claim.subject
    /\ Differs(claims[j], claims[i]) \/ claims[j].at < claims[i].at

ConflictFits(c) ==
    /\ c.new \in DOMAIN claims /\ c.old \in DOMAIN claims /\ c.old < c.new
    /\ c.type \in {"contradictory", "outdated"}
    /\ claims[c.old].claim.subject = claims[c.new].claim.subject
    /\ c.type = "contradictory" => Differs(claims[c.new], claims[c.old])
    /\ c.type = "outdated" => claims[c.new].at < claims[c.old].at
    /\ c.sure => claims[c.new].claim.sure /\ claims[c.old].claim.sure

VerdictFits(v) ==
    /\ v.conflict \in detected
    /\ v.action = "prefer_validated" => v.conflict.sure /\ v.winner = v.conflict.new

Noticed(j, i) == \E c \in detected : c.new = j /\ c.old <= i

ConflictsInv ==
    /\ claims \in Seq(Memory) /\ Len(claims) <= MaxClaims
    /\ conflicts \in [ClaimPrefixes \X ClaimPrefixes -> detected \cup {NoConflict}]
    /\ collided \in BOOLEAN
    /\ ~collided => \A c \in detected : \E id \in DOMAIN conflicts : conflicts[id] = c
    /\ \A c \in detected : ConflictFits(c)
    /\ \A v \in verdicts : VerdictFits(v)
    /\ \A j \in DOMAIN claims : \A i \in 1..(j - 1) : Conflicting(j, i) => Noticed(j, i)

LEMMA ConflictsStart == StoresInit => ConflictsInv
<1> SUFFICES ASSUME StoresInit PROVE ConflictsInv
  OBVIOUS
<1>1. /\ claims = <<>> /\ conflicts = [id \in ClaimPrefixes \X ClaimPrefixes |-> NoConflict]
      /\ collided = FALSE /\ detected = {} /\ verdicts = {}
  BY DEF StoresInit
<1>2. conflicts \in [ClaimPrefixes \X ClaimPrefixes -> detected \cup {NoConflict}]
  BY <1>1
<1>3. claims \in Seq(Memory) /\ Len(claims) <= MaxClaims /\ DOMAIN claims = {}
  BY <1>1, MemoryStoresAssumption
<1> QED
  BY <1>1, <1>2, <1>3 DEF ConflictsInv

(* No conflict was found, or one with an earlier memory: the first that      *)
(* contradicts or outdates the new one.                                      *)
LEMMA FoundConflict ==
    ASSUME ConflictsInv, NEW m \in Memory, NEW found, found = FirstConflict(m)
    PROVE  \/ /\ found = NoConflict
              /\ \A i \in DOMAIN claims : ConflictWith(m, i) = NoConflict
           \/ /\ found # NoConflict
              /\ \E i \in DOMAIN claims :
                    /\ found = ConflictWith(m, i)
                    /\ \A j \in DOMAIN claims : ConflictWith(m, j) # NoConflict => i <= j
<1>1. PICK hits : hits = {i \in DOMAIN claims : ConflictWith(m, i) # NoConflict}
  OBVIOUS
<1>2. hits = {} => found = NoConflict
  BY <1>1 DEF FirstConflict
<1>3. CASE hits # {}
  <2>1. claims \in Seq(Memory)
    BY DEF ConflictsInv
  <2>2. hits \subseteq Nat
    BY <1>1, <2>1
  <2>3. PICK i : i = CHOOSE n \in hits : \A j \in hits : n <= j
    OBVIOUS
  <2>4. i \in hits /\ \A j \in hits : i <= j
    BY <1>3, <2>2, <2>3, SmallestOf
  <2>5. found = ConflictWith(m, i)
    BY <1>1, <1>3, <2>3 DEF FirstConflict
  <2> QED
    BY <1>1, <2>4, <2>5
<1> QED
  BY <1>1, <1>2, <1>3

(* What a conflict with the i-th memory says, once the new one is appended. *)
LEMMA NewConflictFits ==
    ASSUME ConflictsInv, NEW m \in Memory, NEW i \in DOMAIN claims, NEW found,
           found = ConflictWith(m, i), found # NoConflict, claims' = Append(claims, m)
    PROVE  ConflictFits(found)' /\ found.old = i /\ found.new = Len(claims) + 1
<1>1. claims \in Seq(Memory) /\ Len(claims) \in Nat /\ i \in 1..Len(claims)
  BY DEF ConflictsInv
<1>2. /\ DOMAIN claims' = 1..(Len(claims) + 1)
      /\ claims'[Len(claims) + 1] = m /\ claims'[i] = claims[i]
  BY <1>1
<1>3. claims[i] \in Memory
  BY <1>1
<1>4. m.claim.sure \in BOOLEAN /\ m.at \in Int /\ claims[i].at \in Int
  BY <1>3, MemoryStoresAssumption DEF Memory
<1>5. Len(claims) + 1 \in DOMAIN claims' /\ i \in DOMAIN claims' /\ i < Len(claims) + 1
  BY <1>1, <1>2
<1>6. CASE IsContradiction(m.claim, claims[i].claim)
  <2>1. /\ found.new = Len(claims) + 1 /\ found.old = i /\ found.type = "contradictory"
        /\ found.sure = (m.claim.sure /\ claims[i].claim.sure)
    BY <1>6 DEF ConflictWith
  <2>2. m.claim.subject = claims[i].claim.subject /\ Differs(m, claims[i])
    BY <1>6 DEF IsContradiction, Differs
  <2>3. Differs(claims'[found.new], claims'[found.old])
    BY <1>2, <2>1, <2>2
  <2> QED
    BY <1>2, <1>5, <2>1, <2>2, <2>3 DEF ConflictFits
<1>7. CASE ~IsContradiction(m.claim, claims[i].claim)
  <2>1. IsSameTopic(m.claim, claims[i].claim) /\ claims[i].at > m.at
    BY <1>7 DEF ConflictWith
  <2>2. /\ found.new = Len(claims) + 1 /\ found.old = i /\ found.type = "outdated"
        /\ found.sure = FALSE
    BY <1>7, <2>1 DEF ConflictWith
  <2>3. /\ claims'[found.new].at < claims'[found.old].at
        /\ claims'[found.old].claim.subject = claims'[found.new].claim.subject
    BY <1>2, <1>4, <2>1, <2>2 DEF IsSameTopic
  <2> QED
    BY <1>2, <1>5, <2>2, <2>3 DEF ConflictFits
<1> QED
  BY <1>6, <1>7, <1>1, <1>2

(* Whatever of the memories is in conflict was noticed, the new one included. *)
LEMMA NoticedStill ==
    ASSUME ConflictsInv, NEW m \in Memory, NEW found, found = FirstConflict(m),
           claims' = Append(claims, m), detected \subseteq detected',
           found # NoConflict => found \in detected',
           NEW j \in DOMAIN claims', NEW i \in 1..(j - 1), Conflicting(j, i)'
    PROVE  Noticed(j, i)'
<1>1. claims \in Seq(Memory) /\ Len(claims) \in Nat /\ DOMAIN claims = 1..Len(claims)
  BY DEF ConflictsInv
<1>2. /\ DOMAIN claims' = 1..(Len(claims) + 1) /\ claims'[Len(claims) + 1] = m
      /\ \A k \in 1..Len(claims) : claims'[k] = claims[k]
  BY <1>1
<1>3. i \in 1..Len(claims) /\ j \in 1..(Len(claims) + 1)
  BY <1>1, <1>2
<1>4. CASE j # Len(claims) + 1
  <2>1. j \in 1..Len(claims) /\ claims'[j] = claims[j] /\ claims'[i] = claims[i]
    BY <1>1, <1>2, <1>3, <1>4
  <2>2. Conflicting(j, i)
    BY <2>1 DEF Conflicting
  <2>3. Noticed(j, i)
    BY <1>1, <2>1, <2>2 DEF ConflictsInv
  <2> QED
    BY <2>3 DEF Noticed
<1>5. CASE j = Len(claims) + 1
  <2>1. /\ claims[i].claim.subject = m.claim.subject
        /\ Differs(m, claims[i]) \/ m.at < claims[i].at
    BY <1>2, <1>3, <1>5 DEF Conflicting
  <2>2. /\ m.at \in Int /\ claims[i].at \in Int /\ i \in DOMAIN claims
    <3>1. i \in DOMAIN claims /\ claims[i] \in Memory
      BY <1>1, <1>3
    <3> QED
      BY <3>1, MemoryStoresAssumption DEF Memory
  <2>3. ConflictWith(m, i) # NoConflict
    <3>1. CASE IsContradiction(m.claim, claims[i].claim)
      BY <3>1 DEF ConflictWith, NoConflict
    <3>2. CASE ~IsContradiction(m.claim, claims[i].claim)
      <4>1. ~Differs(m, claims[i])
        BY <2>1, <3>2 DEF IsContradiction, Differs
      <4>2. IsSameTopic(m.claim, claims[i].claim) /\ claims[i].at > m.at
        BY <2>1, <2>2, <4>1 DEF IsSameTopic
      <4> QED
        BY <3>2, <4>2 DEF ConflictWith, NoConflict
    <3> QED
      BY <3>1, <3>2
  <2>4. PICK k \in DOMAIN claims : /\ found = ConflictWith(m, k) /\ found # NoConflict /\ k <= i
    BY <2>2, <2>3, FoundConflict
  <2>5. found.old = k /\ found.new = Len(claims) + 1
    BY <2>4, NewConflictFits
  <2> QED
    BY <1>5, <2>4, <2>5 DEF Noticed
<1> QED
  BY <1>4, <1>5

(* A conflict on record is not disturbed by another memory. *)
LEMMA OldConflictFits ==
    ASSUME ConflictsInv, NEW m \in Memory, claims' = Append(claims, m),
           NEW c, ConflictFits(c)
    PROVE  ConflictFits(c)'
<1>1. claims \in Seq(Memory)
  BY DEF ConflictsInv
<1>2. c.new \in DOMAIN claims /\ c.old \in DOMAIN claims
  BY DEF ConflictFits
<1>3. /\ c.new \in DOMAIN claims' /\ c.old \in DOMAIN claims'
      /\ claims'[c.new] = claims[c.new] /\ claims'[c.old] = claims[c.old]
  BY <1>1, <1>2
<1> QED
  BY <1>3 DEF ConflictFits

LEMMA DetectKeeps ==
    ASSUME ConflictsInv, NEW claim \in Claims, NEW time \in 1..MaxClaims, Detect(claim, time)
    PROVE  ConflictsInv'
<1> USE MemoryStoresAssumption
<1>1. PICK m \in Memory : m = [claim |-> claim, at |-> time]
  BY DEF Memory
<1>2. PICK found : found = FirstConflict(m)
  OBVIOUS
<1>3. Len(claims) < MaxClaims /\ claims' = Append(claims, m) /\ verdicts' = verdicts
  BY <1>1 DEF Detect
<1>4. claims \in Seq(Memory) /\ Len(claims) \in Nat
  BY DEF ConflictsInv
<1>5. claims' \in Seq(Memory) /\ Len(claims') <= MaxClaims
  BY <1>3, <1>4
<1>6. \A c \in detected : ConflictFits(c)'
  BY <1>3, OldConflictFits DEF ConflictsInv
<1>7. CASE found = NoConflict
  <2>1. conflicts' = conflicts /\ collided' = collided /\ detected' = detected
    BY <1>1, <1>2, <1>7 DEF Detect
  <2>2. \A v \in verdicts' : VerdictFits(v)'
    BY <1>3, <2>1 DEF ConflictsInv, VerdictFits
  <2>3. \A j \in DOMAIN claims' : \A i \in 1..(j - 1) : Conflicting(j, i)' => Noticed(j, i)'
    BY <1>2, <1>3, <1>7, <2>1, NoticedStill
  <2> QED
    BY <1>5, <1>6, <2>1, <2>2, <2>3 DEF ConflictsInv
<1>8. CASE found # NoConflict
  <2>1. PICK i \in DOMAIN claims : found = ConflictWith(m, i)
    BY <1>2, <1>8, FoundConflict
  <2>2. ConflictFits(found)' /\ found.old = i
    BY <1>3, <1>8, <2>1, NewConflictFits
  <2>3. PICK id : id = <<claim.prefix, claims[found.old].claim.prefix>>
    OBVIOUS
  <2>4. /\ conflicts' = [conflicts EXCEPT ![id] = found]
        /\ collided' = (collided \/ conflicts[id] # NoConflict)
        /\ detected' = detected \cup {found}
    BY <1>1, <1>2, <1>8, <2>3 DEF Detect
  <2>5. id \in ClaimPrefixes \X ClaimPrefixes
    <3>1. claims[i] \in Memory
      BY <1>4, <2>1
    <3>2. claims[i].claim \in Claims
      BY <3>1 DEF Memory
    <3> QED
      BY <2>2, <2>3, <3>2 DEF ClaimPrefixes
  <2>6. conflicts \in [ClaimPrefixes \X ClaimPrefixes -> detected \cup {NoConflict}]
    BY DEF ConflictsInv
  <2>7. conflicts' \in [ClaimPrefixes \X ClaimPrefixes -> detected' \cup {NoConflict}]
    BY <2>4, <2>5, <2>6
  <2>8. ~collided' => \A c \in detected' : \E k \in DOMAIN conflicts' : conflicts'[k] = c
    <3> SUFFICES ASSUME ~collided', NEW c \in detected'
                 PROVE  \E k \in DOMAIN conflicts' : conflicts'[k] = c
      OBVIOUS
    <3>1. ~collided /\ conflicts[id] = NoConflict
      BY <2>4 DEF ConflictsInv
    <3>2. DOMAIN conflicts' = ClaimPrefixes \X ClaimPrefixes /\ DOMAIN conflicts = DOMAIN conflicts'
      BY <2>6, <2>7
    <3>3. CASE c = found
      <4>1. conflicts'[id] = found
        BY <2>4, <2>5, <2>6
      <4> QED
        BY <2>5, <3>2, <3>3, <4>1
    <3>4. CASE c # found
      <4>1. c \in detected
        BY <2>4, <3>4
      <4>2. PICK k \in DOMAIN conflicts : conflicts[k] = c
        BY <3>1, <4>1 DEF ConflictsInv
      <4>3. c # NoConflict
        BY <4>1 DEF ConflictsInv, ConflictFits, NoConflict
      <4>4. k # id
        BY <3>1, <4>2, <4>3
      <4>5. conflicts'[k] = c
        BY <2>4, <4>2, <4>4
      <4> QED
        BY <3>2, <4>2, <4>5
    <3> QED
      BY <3>3, <3>4
  <2>9. \A c \in detected' : ConflictFits(c)'
    BY <1>6, <2>2, <2>4
  <2>10. \A v \in verdicts' : VerdictFits(v)'
    BY <1>3, <2>4 DEF ConflictsInv, VerdictFits
  <2>11. collided' \in BOOLEAN
    BY <2>4 DEF ConflictsInv
  <2>12. \A j \in DOMAIN claims' : \A k \in 1..(j - 1) : Conflicting(j, k)' => Noticed(j, k)'
    BY <1>2, <1>3, <2>4, NoticedStill
  <2> QED
    BY <1>5, <2>7, <2>8, <2>9, <2>10, <2>11, <2>12 DEF ConflictsInv
<1> QED
  BY <1>7, <1>8

LEMMA ResolveKeeps ==
    ASSUME ConflictsInv, NEW id \in DOMAIN conflicts, conflicts[id] # NoConflict,
           Resolve(conflicts[id])
    PROVE  ConflictsInv'
<1>1. PICK c : c = conflicts[id]
  OBVIOUS
<1>2. c \in detected
  BY <1>1 DEF ConflictsInv
<1>3. PICK action : action = IF c.type = "outdated" THEN "prefer_newer"
                             ELSE IF c.sure THEN "prefer_validated" ELSE "request_review"
  OBVIOUS
<1>4. PICK v : v = [conflict |-> c, action |-> action,
                    winner |-> IF action = "request_review" THEN 0 ELSE Winner(c)]
  OBVIOUS
<1>5. /\ verdicts' = verdicts \cup {v} /\ claims' = claims /\ conflicts' = conflicts
      /\ collided' = collided /\ detected' = detected
  BY <1>1, <1>3, <1>4 DEF Resolve
<1>6. /\ v.conflict = c /\ v.action = action
      /\ action # "request_review" => v.winner = c.new
  BY <1>4 DEF Winner
<1>7. VerdictFits(v)
  BY <1>2, <1>3, <1>6 DEF VerdictFits
<1>8. \A w \in verdicts' : VerdictFits(w)'
  BY <1>5, <1>7 DEF ConflictsInv, VerdictFits
<1>9. \A d \in detected' : ConflictFits(d)'
  BY <1>5 DEF ConflictsInv, ConflictFits
<1>10. \A j \in DOMAIN claims' : \A i \in 1..(j - 1) : Conflicting(j, i)' => Noticed(j, i)'
  BY <1>5 DEF ConflictsInv, Conflicting, Noticed
<1> QED
  BY <1>5, <1>8, <1>9, <1>10 DEF ConflictsInv

LEMMA ConflictStep == ConflictsInv /\ ConflictNext => ConflictsInv'
BY DetectKeeps, ResolveKeeps DEF ConflictNext

LEMMA ConflictsStutter == ConflictsInv /\ UNCHANGED conflictVars => ConflictsInv'
<1> SUFFICES ASSUME ConflictsInv, UNCHANGED conflictVars PROVE ConflictsInv'
  OBVIOUS
<1>1. /\ claims' = claims /\ conflicts' = conflicts /\ collided' = collided
      /\ detected' = detected /\ verdicts' = verdicts
  BY DEF conflictVars
<1> QED
  BY <1>1 DEF ConflictsInv, ConflictFits, VerdictFits, Conflicting, Noticed

LEMMA ConflictsAreRight == ConflictsInv => ConflictsAreJudged
<1> SUFFICES ASSUME ConflictsInv PROVE ConflictsAreJudged
  OBVIOUS
<1>1. \A c \in detected : ConflictFits(c)
  BY DEF ConflictsInv
<1>2. ASSUME NEW v \in verdicts
      PROVE  /\ v.conflict \in detected
             /\ v.action = "prefer_validated" =>
                  claims[v.winner].claim.sure /\ claims[v.conflict.old].claim.sure
  <2>1. VerdictFits(v)
    BY DEF ConflictsInv
  <2>2. ConflictFits(v.conflict)
    BY <1>1, <2>1 DEF VerdictFits
  <2> QED
    BY <2>1, <2>2 DEF VerdictFits, ConflictFits
<1>3. ~collided => \A c \in detected : \E id \in DOMAIN conflicts : conflicts[id] = c
  BY DEF ConflictsInv
<1>4. ASSUME NEW c \in detected
      PROVE  /\ c.old < c.new /\ claims[c.old].claim.subject = claims[c.new].claim.subject
             /\ IF c.type = "contradictory" THEN Differs(claims[c.new], claims[c.old])
                ELSE claims[c.new].at < claims[c.old].at
  BY <1>1 DEF ConflictFits
<1>5. \A j \in DOMAIN claims : \A i \in 1..(j - 1) : Conflicting(j, i) => Noticed(j, i)
  BY DEF ConflictsInv
<1> QED
  BY <1>2, <1>3, <1>4, <1>5 DEF ConflictsAreJudged, Conflicting, Noticed

-----------------------------------------------------------------------------
(* The stores together: a step of one leaves the others alone. *)

StoresInv == /\ FactsInv /\ ProjectsInv /\ ChatsInv /\ ConflictsInv
             /\ factOps \in 0..MaxFactOps

LEMMA StoresStart == StoresInit => StoresInv
<1> SUFFICES ASSUME StoresInit PROVE StoresInv
  OBVIOUS
<1>1. factOps \in 0..MaxFactOps
  BY MemoryStoresAssumption DEF StoresInit
<1> QED
  BY <1>1, FactsStart, ProjectsStart, ChatsStart, ConflictsStart DEF StoresInv

LEMMA StoresStep ==
    ASSUME StoresInv, StoresNext \/ UNCHANGED storeVars
    PROVE  StoresInv'
<1>1. CASE FactNext
  <2>1. UNCHANGED <<projectVars, chatVars, conflictVars>>
    BY <1>1 DEF FactNext
  <2>2. FactsInv' /\ factOps' \in 0..MaxFactOps
    BY <1>1, FactStep, OperationsAreBounded DEF StoresInv
  <2> QED
    BY Zenon, <2>1, <2>2, ProjectsStutter, ChatsStutter, ConflictsStutter DEF StoresInv
<1>2. CASE ProjectNext
  <2>1. UNCHANGED <<factVars, chatVars, conflictVars>>
    BY <1>2 DEF ProjectNext
  <2>2. factOps \in Nat
    BY DEF StoresInv
  <2>3. ProjectsInv' /\ factOps' \in 0..MaxFactOps
    BY <1>2, <2>2, ProjectsStep, OperationsAreBounded DEF StoresInv
  <2> QED
    BY Zenon, <2>1, <2>3, FactsStutter, ChatsStutter, ConflictsStutter DEF StoresInv
<1>3. CASE ChatNext
  <2>1. UNCHANGED <<factVars, projectVars, factOps, conflictVars>>
    BY <1>3 DEF ChatNext
  <2>2. factOps' = factOps
    BY <2>1
  <2>3. UNCHANGED factVars /\ UNCHANGED projectVars /\ UNCHANGED conflictVars
    BY <2>1
  <2>4. ChatsInv'
    BY <1>3, ChatStep DEF StoresInv
  <2> QED
    BY Zenon, <2>2, <2>3, <2>4, FactsStutter, ProjectsStutter, ConflictsStutter DEF StoresInv
<1>4. CASE ConflictNext
  <2>1. UNCHANGED <<factVars, projectVars, factOps, chatVars>>
    BY <1>4 DEF ConflictNext
  <2>2. factOps' = factOps
    BY <2>1
  <2>3. UNCHANGED factVars /\ UNCHANGED projectVars /\ UNCHANGED chatVars
    BY <2>1
  <2>4. ConflictsInv'
    BY <1>4, ConflictStep DEF StoresInv
  <2> QED
    BY Zenon, <2>2, <2>3, <2>4, FactsStutter, ProjectsStutter, ChatsStutter DEF StoresInv
<1>5. CASE UNCHANGED storeVars
  <2>1. /\ factOps' = factOps
        /\ UNCHANGED factVars /\ UNCHANGED projectVars /\ UNCHANGED chatVars /\ UNCHANGED conflictVars
    BY <1>5 DEF storeVars
  <2> QED
    BY Zenon, <2>1, FactsStutter, ProjectsStutter, ChatsStutter, ConflictsStutter DEF StoresInv
<1> QED
  BY <1>1, <1>2, <1>3, <1>4, <1>5 DEF StoresNext

LEMMA StoresTypes == StoresInv => StoresTypeOK
<1> SUFFICES ASSUME StoresInv PROVE StoresTypeOK
  OBVIOUS
<1>1. /\ facts \in [FactIds -> Nat \cup {-1}] /\ returned \in [FactIds -> Nat]
      /\ reading \in [StoreUsers -> FactIds \cup {"none"}]
      /\ copies \in [StoreUsers -> [FactIds -> Nat \cup {-1}]]
  BY DEF StoresInv, FactsInv, Counted
<1>2. /\ project \in [sessions : Nat \cup {-1}, tag : Nat]
      /\ contexts \in [StoreUsers -> [sessions : Nat \cup {-1}, tag : Nat]]
      /\ creating \subseteq StoreUsers
  BY DEF StoresInv, ProjectsInv, ProjectRow, Counted
<1>3. /\ added \in 0..MaxMessages /\ busy \in 0..MaxBusy /\ factOps \in 0..MaxFactOps
  BY DEF StoresInv, ChatsInv
<1>4. Len(claims) <= MaxClaims /\ \A i \in DOMAIN claims : claims[i].claim \in Claims
  <2>1. claims \in Seq(Memory) /\ Len(claims) <= MaxClaims
    BY DEF StoresInv, ConflictsInv
  <2>2. \A i \in DOMAIN claims : claims[i] \in Memory
    BY <2>1
  <2> QED
    BY <2>1, <2>2 DEF Memory
<1> QED
  BY Zenon, <1>1, <1>2, <1>3, <1>4, ChatsAreRight DEF StoresTypeOK, StoresInv

LEMMA StoresAreRight ==
    StoresInv => AccessesAreCounted /\ SessionsAreCounted /\ IndexFollowsTable /\ ConflictsAreJudged
<1> SUFFICES ASSUME StoresInv
             PROVE  AccessesAreCounted /\ SessionsAreCounted /\ IndexFollowsTable /\ ConflictsAreJudged
  OBVIOUS
<1>1. AccessesAreCounted
  BY DEF StoresInv, FactsInv, AccessesAreCounted
<1>2. SessionsAreCounted
  BY DEF StoresInv, ProjectsInv
<1> QED
  BY <1>1, <1>2, ChatsAreRight, ConflictsAreRight DEF StoresInv

-----------------------------------------------------------------------------
(* The skill registry (skills/registry.py): who is saving has in memory what *)
(* was registered last, but for the skills it never saw.                     *)

Versions == 0..MaxSkillEdits

RegistryInv ==
    /\ metas \in [Registries -> [SkillIds -> Versions]] /\ latest \in [SkillIds -> Versions]
    /\ metaFile = CutOff \/ metaFile \in [SkillIds -> Versions]
    /\ saving \subseteq Registries /\ unseen \subseteq SkillIds /\ edits \in Versions
    /\ RegistryFileIsLatest
    /\ \A r \in saving : \A s \in SkillIds \ unseen : metas[r][s] = latest[s]

LEMMA RegistryStart == SkillLibraryInit => RegistryInv
<1> SUFFICES ASSUME SkillLibraryInit PROVE RegistryInv
  OBVIOUS
<1>1. /\ metas = [r \in Registries |-> NoMetas] /\ metaFile = NoMetas
      /\ saving = {} /\ latest = NoMetas /\ unseen = {} /\ edits = 0
  BY DEF SkillLibraryInit
<1>2. 0 \in Versions
  BY SkillAssumption DEF Versions
<1>3. NoMetas \in [SkillIds -> Versions]
  BY <1>2 DEF NoMetas
<1> QED
  BY <1>1, <1>2, <1>3 DEF RegistryInv, RegistryFileIsLatest

LEMMA ChangeKeeps ==
    ASSUME RegistryInv, NEW r \in Registries, NEW s \in SkillIds, NEW v \in 0..(edits + 1),
           Change(r, s, v)
    PROVE  RegistryInv'
<1> USE SkillAssumption
<1>1. /\ edits < MaxSkillEdits /\ edits' = edits + 1 /\ metas' = [metas EXCEPT ![r][s] = v]
      /\ latest' = [latest EXCEPT ![s] = v] /\ saving' = {r} /\ metaFile' = CutOff
      /\ unseen' = (unseen \ {s}) \cup {t \in SkillIds \ {s} : metas[r][t] # latest[t]}
  BY DEF Change
<1>2. /\ metas \in [Registries -> [SkillIds -> Versions]] /\ latest \in [SkillIds -> Versions]
      /\ edits \in 0..MaxSkillEdits /\ unseen \subseteq SkillIds
  BY DEF RegistryInv, Versions
<1>3. v \in Versions /\ edits' \in Versions
  BY <1>1, <1>2 DEF Versions
<1>4. metas' \in [Registries -> [SkillIds -> Versions]] /\ latest' \in [SkillIds -> Versions]
  BY <1>1, <1>2, <1>3
<1>5. unseen' \subseteq SkillIds
  BY <1>1, <1>2
<1>6. ASSUME NEW t \in SkillIds \ unseen' PROVE metas'[r][t] = latest'[t]
  <2>1. CASE t = s
    BY <1>1, <1>2, <2>1
  <2>2. CASE t # s
    <3>1. metas[r][t] = latest[t]
      BY <1>1, <1>6, <2>2
    <3> QED
      BY <1>1, <1>2, <2>2, <3>1
  <2> QED
    BY <2>1, <2>2
<1>7. RegistryFileIsLatest'
  BY <1>1 DEF RegistryFileIsLatest, CutOff
<1> QED
  BY <1>1, <1>3, <1>4, <1>5, <1>6, <1>7 DEF RegistryInv, CutOff

LEMMA SkillsRegistered == RegistryInv /\ RegistryNext => RegistryInv'
<1> SUFFICES ASSUME RegistryInv, RegistryNext PROVE RegistryInv'
  OBVIOUS
<1>1. ASSUME NEW r \in Registries, EndRegistrySave(r) PROVE RegistryInv'
  <2>1. /\ r \in saving /\ metaFile' = metas[r] /\ saving' = {} /\ metas' = metas
        /\ latest' = latest /\ unseen' = unseen /\ edits' = edits
    BY <1>1 DEF EndRegistrySave
  <2>2. metas[r] \in [SkillIds -> Versions]
    BY DEF RegistryInv
  <2>3. \A s \in SkillIds \ unseen' : metaFile'[s] = latest'[s]
    BY <2>1 DEF RegistryInv
  <2> QED
    BY <2>1, <2>2, <2>3 DEF RegistryInv, RegistryFileIsLatest
<1>2. ASSUME NEW r \in Registries, LoadRegistry(r) PROVE RegistryInv'
  <2>1. /\ saving = {} /\ metaFile # CutOff /\ metas' = [metas EXCEPT ![r] = Merged(metas[r], metaFile)]
        /\ metaFile' = metaFile /\ saving' = saving /\ latest' = latest
        /\ unseen' = unseen /\ edits' = edits
    BY <1>2 DEF LoadRegistry
  <2>2. metas[r] \in [SkillIds -> Versions] /\ metaFile \in [SkillIds -> Versions]
    BY <2>1 DEF RegistryInv
  <2>3. Merged(metas[r], metaFile) \in [SkillIds -> Versions]
    BY <2>2 DEF Merged
  <2>4. metas' \in [Registries -> [SkillIds -> Versions]]
    BY <2>1, <2>3 DEF RegistryInv
  <2> QED
    BY <2>1, <2>4 DEF RegistryInv, RegistryFileIsLatest, CutOff
<1>3. ASSUME NEW r \in Registries, RegistryDies(r) PROVE RegistryInv'
  <2>1. /\ metas' = [metas EXCEPT ![r] = NoMetas] /\ saving' = saving \ {r}
        /\ metaFile' = metaFile /\ latest' = latest /\ unseen' = unseen /\ edits' = edits
    BY <1>3 DEF RegistryDies
  <2>2. NoMetas \in [SkillIds -> Versions]
    BY SkillAssumption DEF NoMetas, Versions
  <2>3. metas' \in [Registries -> [SkillIds -> Versions]]
    BY <2>1, <2>2 DEF RegistryInv
  <2>4. \A q \in saving' : metas'[q] = metas[q] /\ q \in saving
    BY <2>1 DEF RegistryInv
  <2> QED
    BY <2>1, <2>3, <2>4 DEF RegistryInv, RegistryFileIsLatest, CutOff
<1>4. ASSUME NEW r \in Registries, NEW s \in SkillIds, RegisterSkill(r, s) PROVE RegistryInv'
  <2>1. edits + 1 \in 0..(edits + 1)
    BY DEF RegistryInv, Versions
  <2> QED
    BY <1>4, <2>1, ChangeKeeps DEF RegisterSkill
<1>5. ASSUME NEW r \in Registries, NEW s \in SkillIds, UnregisterSkill(r, s) PROVE RegistryInv'
  <2>1. 0 \in 0..(edits + 1)
    BY DEF RegistryInv, Versions
  <2> QED
    BY <1>5, <2>1, ChangeKeeps DEF UnregisterSkill
<1> QED
  BY <1>1, <1>2, <1>3, <1>4, <1>5 DEF RegistryNext

LEMMA RegistryStutter == RegistryInv /\ UNCHANGED registryVars => RegistryInv'
<1> SUFFICES ASSUME RegistryInv, UNCHANGED registryVars PROVE RegistryInv'
  OBVIOUS
<1>1. /\ metas' = metas /\ metaFile' = metaFile /\ saving' = saving /\ latest' = latest
      /\ unseen' = unseen /\ edits' = edits
  BY DEF registryVars
<1> QED
  BY <1>1 DEF RegistryInv, RegistryFileIsLatest, CutOff

-----------------------------------------------------------------------------
(* The loader (skills/loader.py). *)

LoaderInv ==
    /\ sourceVersion \in 0..MaxSources /\ module \in 0..sourceVersion /\ module = loads
    /\ ran.cached \in BOOLEAN /\ ran.version \in 0..sourceVersion

LEMMA LoaderStart == SkillLibraryInit => LoaderInv
BY SkillAssumption DEF SkillLibraryInit, LoaderInv

LEMMA LoaderStep == LoaderInv /\ LoaderNext => LoaderInv'
<1> SUFFICES ASSUME LoaderInv, LoaderNext PROVE LoaderInv'
  OBVIOUS
<1> USE SkillAssumption DEF LoaderInv
<1>1. CASE WriteSource
  BY <1>1 DEF WriteSource
<1>2. CASE ExecuteSkill
  <2>1. /\ module' = Chosen /\ loads' = IF module = 0 THEN sourceVersion ELSE loads
        /\ sourceVersion' = sourceVersion
    BY <1>2 DEF ExecuteSkill
  <2>2. ran' = [version |-> Chosen, cached |-> module # 0]
    BY <1>2 DEF ExecuteSkill
  <2>3. Chosen \in 0..sourceVersion /\ Chosen = IF module = 0 THEN sourceVersion ELSE loads
    BY DEF Chosen
  <2>4. ran'.version = Chosen /\ ran'.cached \in BOOLEAN
    BY <2>2
  <2> QED
    BY <2>1, <2>3, <2>4
<1>3. ASSUME NEW ok \in BOOLEAN, LoadSkill(ok) PROVE LoaderInv'
  BY <1>3 DEF LoadSkill
<1> QED
  BY <1>1, <1>2, <1>3 DEF LoaderNext

LEMMA LoaderStutter == LoaderInv /\ UNCHANGED loaderVars => LoaderInv'
BY DEF LoaderInv, loaderVars

-----------------------------------------------------------------------------
(* The evaluator and its ledger (skills/evaluator.py). *)

Evaluation == {e \in (0..2) \X (0..2) : e[1] <= e[2]}

LedgerInv ==
    /\ entries \in Seq(Evaluation) /\ evaluated \in 0..MaxEvaluations
    /\ illegible \in BOOLEAN /\ flushing \in BOOLEAN
    /\ ledgerFile = Illegible \/ ledgerFile \in Seq(Evaluation)
    /\ flushing => ledgerFile = Illegible
    /\ ~illegible => Len(entries) = evaluated
    /\ ~illegible /\ ~flushing => ledgerFile = entries

LEMMA LedgerStart == SkillLibraryInit => LedgerInv
<1> SUFFICES ASSUME SkillLibraryInit PROVE LedgerInv
  OBVIOUS
<1>1. /\ entries = <<>> /\ ledgerFile = <<>> /\ evaluated = 0
      /\ illegible = FALSE /\ flushing = FALSE
  BY DEF SkillLibraryInit
<1>2. 0 \in 0..MaxEvaluations
  BY SkillAssumption
<1>3. entries \in Seq(Evaluation) /\ Len(entries) = 0 /\ ledgerFile = entries
  BY <1>1
<1>4. evaluated \in 0..MaxEvaluations
  BY <1>1, <1>2
<1> QED
  BY <1>1, <1>3, <1>4 DEF LedgerInv

LEMMA LedgerStep == LedgerInv /\ EvaluatorNext => LedgerInv'
<1> SUFFICES ASSUME LedgerInv, EvaluatorNext PROVE LedgerInv'
  OBVIOUS
<1>1. ASSUME NEW total \in 0..2, NEW passed \in 0..total, EvaluateSkill(passed, total)
      PROVE  LedgerInv'
  <2>1. PICK e \in Evaluation : e = <<passed, total>>
    <3>1. passed \in 0..2 /\ passed <= total
      OBVIOUS
    <3> QED
      BY <3>1 DEF Evaluation
  <2>2. /\ ~flushing /\ evaluated < MaxEvaluations /\ evaluated' = evaluated + 1
        /\ entries' = Append(entries, e) /\ flushing' = TRUE /\ ledgerFile' = Illegible
        /\ illegible' = illegible
    BY <1>1, <2>1 DEF EvaluateSkill
  <2>3. entries \in Seq(Evaluation) /\ evaluated \in 0..MaxEvaluations
    BY DEF LedgerInv
  <2>4. /\ entries' \in Seq(Evaluation) /\ Len(entries') = Len(entries) + 1
    BY <2>2, <2>3
  <2>5. evaluated' \in 0..MaxEvaluations
    BY <2>2, <2>3, SkillAssumption
  <2>6. ~illegible' => Len(entries') = evaluated'
    BY <2>2, <2>4 DEF LedgerInv
  <2> QED
    BY <2>2, <2>4, <2>5, <2>6 DEF LedgerInv, Illegible
<1>2. CASE EndFlush
  <2>1. /\ flushing' = FALSE /\ ledgerFile' = entries /\ entries' = entries
        /\ evaluated' = evaluated /\ illegible' = illegible
    BY <1>2 DEF EndFlush
  <2> QED
    BY <2>1 DEF LedgerInv
<1>3. CASE ReopenLedger
  <2>1. /\ entries' = IF ledgerFile = Illegible THEN <<>> ELSE ledgerFile
        /\ illegible' = (illegible \/ flushing) /\ flushing' = FALSE
        /\ ledgerFile' = ledgerFile /\ evaluated' = evaluated
    BY <1>3 DEF ReopenLedger
  <2>2. entries' \in Seq(Evaluation) /\ illegible' \in BOOLEAN
    BY <2>1 DEF LedgerInv
  <2>3. Illegible \notin Seq(Evaluation)
    <3>1. Illegible[1] = <<-1, 0>> /\ Len(Illegible) = 1
      BY DEF Illegible
    <3>2. <<-1, 0>> \notin Evaluation
      BY DEF Evaluation
    <3> QED
      BY <3>1, <3>2
  <2>4. ~illegible' => entries' = entries /\ ledgerFile = entries
    BY <2>1, <2>3 DEF LedgerInv
  <2> QED
    BY <2>1, <2>2, <2>4 DEF LedgerInv, Illegible
<1> QED
  BY <1>1, <1>2, <1>3 DEF EvaluatorNext

LEMMA LedgerStutter == LedgerInv /\ UNCHANGED ledgerVars => LedgerInv'
<1> SUFFICES ASSUME LedgerInv, UNCHANGED ledgerVars PROVE LedgerInv'
  OBVIOUS
<1>1. /\ entries' = entries /\ ledgerFile' = ledgerFile /\ evaluated' = evaluated
      /\ illegible' = illegible /\ flushing' = flushing
  BY DEF ledgerVars
<1> QED
  BY <1>1 DEF LedgerInv, Illegible

LEMMA LedgerIsRight == LedgerInv => LedgerIsWhole /\ entries \in Seq((0..2) \X (0..2))
<1> SUFFICES ASSUME LedgerInv PROVE LedgerIsWhole /\ entries \in Seq((0..2) \X (0..2))
  OBVIOUS
<1>1. entries \in Seq(Evaluation)
  BY DEF LedgerInv
<1>2. \A i \in DOMAIN entries : entries[i] \in Evaluation
  BY <1>1
<1>3. \A i \in DOMAIN entries : entries[i][1] <= entries[i][2] /\ entries[i] \in (0..2) \X (0..2)
  BY <1>2 DEF Evaluation
<1>4. entries \in Seq((0..2) \X (0..2))
  BY <1>1, <1>3
<1> QED
  BY <1>3, <1>4 DEF LedgerInv, LedgerIsWhole

-----------------------------------------------------------------------------
(* The curator (learning/skill_curator.py): without overlaps, a use that is  *)
(* open is the last one, the one its outcome is written to.                  *)

CuratorInv ==
    /\ usage \in Seq({"open", "ok", "failed"}) /\ Len(usage) <= MaxUsages
    /\ pending \in 0..Len(usage) /\ failed \in Nat /\ overlapped \in BOOLEAN
    /\ counts \in [uses : Nat, successes : Nat]
    /\ UsageAddsUp
    /\ ~overlapped /\ pending > 0 => usage[Len(usage)] = "open"

FailedOf(s) == {i \in DOMAIN s : s[i] = "failed"}

LEMMA FailuresAre ==
    ASSUME NEW s \in Seq({"open", "ok", "failed"})
    PROVE  IsFiniteSet(FailedOf(s)) /\ Cardinality(FailedOf(s)) \in Nat
<1>1. PICK L \in Nat : L = Len(s)
  OBVIOUS
<1>2. FailedOf(s) \subseteq 1..L
  BY <1>1 DEF FailedOf
<1>3. IsFiniteSet(1..L)
  BY FS_Interval
<1> QED
  BY <1>2, <1>3, FS_Subset, FS_CardinalityType

LEMMA CountersAre ==
    ASSUME NEW c \in [uses : Nat, successes : Nat]
    PROVE  /\ c.uses \in Nat /\ c.successes \in Nat
           /\ c = [uses |-> c.uses, successes |-> c.successes]
OBVIOUS

LEMMA CuratorStart == SkillLibraryInit => CuratorInv
<1> SUFFICES ASSUME SkillLibraryInit PROVE CuratorInv
  OBVIOUS
<1>1. /\ usage = <<>> /\ counts = [uses |-> 0, successes |-> 0]
      /\ pending = 0 /\ failed = 0 /\ overlapped = FALSE
  BY DEF SkillLibraryInit
<1>2. Failures = 0
  <2>1. {i \in DOMAIN usage : usage[i] = "failed"} = {}
    BY <1>1
  <2> QED
    BY <2>1, FS_EmptySet DEF Failures
<1>3. usage \in Seq({"open", "ok", "failed"}) /\ Len(usage) = 0 /\ 0 <= MaxUsages
  BY <1>1, SkillAssumption
<1>4. counts \in [uses : Nat, successes : Nat] /\ counts.uses = 0 /\ counts.successes = 0
  BY <1>1
<1>5. UsageAddsUp
  BY <1>1, <1>2, <1>4 DEF UsageAddsUp
<1>6. Len(usage) <= MaxUsages /\ pending \in 0..Len(usage) /\ ~(pending > 0)
  BY <1>1, <1>3
<1>7. failed \in Nat /\ overlapped \in BOOLEAN
  BY <1>1
<1> QED
  BY <1>3, <1>4, <1>5, <1>6, <1>7 DEF CuratorInv

LEMMA UseSkillKeeps ==
    ASSUME CuratorInv, UseSkill
    PROVE  CuratorInv'
<1>1. PICK u \in Nat, n \in Nat : counts = [uses |-> u, successes |-> n]
  BY CountersAre DEF CuratorInv
<1>2. /\ Len(usage) < MaxUsages /\ usage' = Append(usage, "open")
      /\ counts' = [uses |-> u + 1, successes |-> n] /\ pending' = pending + 1
      /\ failed' = failed /\ overlapped' = overlapped
  BY <1>1 DEF UseSkill
<1>3. PICK L \in Nat : L = Len(usage) /\ DOMAIN usage = 1..L /\ usage \in Seq({"open", "ok", "failed"})
  BY DEF CuratorInv
<1>4. /\ usage' \in Seq({"open", "ok", "failed"}) /\ Len(usage') = L + 1 /\ usage'[L + 1] = "open"
      /\ DOMAIN usage' = 1..(L + 1) /\ \A i \in 1..L : usage'[i] = usage[i]
  BY <1>2, <1>3
<1>5. {i \in DOMAIN usage' : usage'[i] = "failed"} = {i \in DOMAIN usage : usage[i] = "failed"}
  BY <1>3, <1>4
<1>6. Failures' = Failures
  BY <1>5 DEF Failures
<1>7. counts.uses = u /\ counts.successes = n /\ counts'.uses = u + 1 /\ counts'.successes = n
  BY <1>1, <1>2
<1>8. pending \in Nat /\ pending <= L /\ failed \in Nat
  BY <1>3 DEF CuratorInv
<1>9. pending' \in 0..Len(usage') /\ Len(usage') <= MaxUsages
  BY <1>2, <1>3, <1>4, <1>8, SkillAssumption
<1>10. n + failed + pending' = u + 1
  BY <1>2, <1>7, <1>8 DEF CuratorInv, UsageAddsUp
<1>11. UsageAddsUp'
  BY <1>2, <1>6, <1>7, <1>10 DEF CuratorInv, UsageAddsUp
<1>12. counts' \in [uses : Nat, successes : Nat]
  BY <1>2
<1> QED
  BY <1>2, <1>4, <1>9, <1>11, <1>12 DEF CuratorInv

LEMMA OutcomeKeeps ==
    ASSUME CuratorInv, NEW ok \in BOOLEAN, RecordOutcome(ok)
    PROVE  CuratorInv'
<1>1. PICK u \in Nat, n \in Nat : counts = [uses |-> u, successes |-> n]
  BY CountersAre DEF CuratorInv
<1>2. PICK o \in {"ok", "failed"} : o = IF ok THEN "ok" ELSE "failed"
  OBVIOUS
<1>3. /\ pending > 0 /\ usage' = [usage EXCEPT ![Len(usage)] = o]
      /\ counts' = CountOutcome(counts, ok)
      /\ failed' = (IF ok THEN failed ELSE failed + 1)
      /\ pending' = pending - 1 /\ overlapped' = (overlapped \/ pending > 1)
  BY <1>2 DEF RecordOutcome
<1>4. PICK L \in Nat : L = Len(usage) /\ DOMAIN usage = 1..L /\ usage \in Seq({"open", "ok", "failed"})
  BY DEF CuratorInv
<1>5. pending \in Nat /\ pending <= L /\ failed \in Nat /\ L >= 1
  BY <1>3, <1>4 DEF CuratorInv
<1>6. /\ usage' \in Seq({"open", "ok", "failed"}) /\ Len(usage') = L /\ DOMAIN usage' = 1..L
      /\ usage'[L] = o /\ \A i \in 1..L : i # L => usage'[i] = usage[i]
  BY <1>2, <1>3, <1>4, <1>5
<1>7. PICK before : before = FailedOf(usage)
  OBVIOUS
<1>8. IsFiniteSet(before) /\ Cardinality(before) \in Nat /\ Cardinality(before) = Failures
  BY <1>4, <1>7, FailuresAre DEF FailedOf, Failures
<1>9. Failures' = Cardinality(FailedOf(usage'))
  BY DEF Failures, FailedOf
<1>10. /\ Failures' \in Nat
       /\ ok => Failures' <= Failures /\ (usage[L] = "open" => Failures' = Failures)
       /\ ~ok => Failures' <= Failures + 1 /\ (usage[L] = "open" => Failures' = Failures + 1)
  <2>1. CASE ok
    <3>1. FailedOf(usage') = before \ {L}
      BY <1>2, <1>4, <1>6, <1>7, <2>1 DEF FailedOf
    <3>2. Cardinality(before \ {L}) = IF L \in before THEN Cardinality(before) - 1 ELSE Cardinality(before)
      BY <1>8, FS_RemoveElement
    <3>3. usage[L] = "open" => L \notin before
      BY <1>7 DEF FailedOf
    <3>4. Cardinality(before \ {L}) \in Nat
      BY <1>6, <3>1, FailuresAre
    <3> QED
      BY <1>8, <1>9, <2>1, <3>1, <3>2, <3>3, <3>4
  <2>2. CASE ~ok
    <3>1. FailedOf(usage') = before \cup {L}
      BY <1>2, <1>4, <1>5, <1>6, <1>7, <2>2 DEF FailedOf
    <3>2. Cardinality(before \cup {L}) = IF L \in before THEN Cardinality(before) ELSE Cardinality(before) + 1
      BY <1>8, FS_AddElement
    <3>3. usage[L] = "open" => L \notin before
      BY <1>7 DEF FailedOf
    <3> QED
      BY <1>8, <1>9, <2>2, <3>1, <3>2, <3>3
  <2> QED
    BY <2>1, <2>2
<1>11. counts.uses = u /\ counts.successes = n
  BY <1>1
<1>12. Failures <= failed /\ (~overlapped => Failures = failed) /\ n + failed + pending = u
  BY <1>11 DEF CuratorInv, UsageAddsUp
<1>13. ~overlapped' => usage[L] = "open" /\ Failures = failed
  BY <1>3, <1>4, <1>5, <1>12 DEF CuratorInv
<1>14. counts' \in [uses : Nat, successes : Nat] /\ counts'.successes + failed' + pending' = counts'.uses
  <2>1. CASE ok
    <3>1. counts' = [uses |-> u, successes |-> n + 1]
      BY <1>1, <1>3, <2>1 DEF CountOutcome
    <3>2. /\ counts' \in [uses : Nat, successes : Nat]
          /\ counts'.uses = u /\ counts'.successes = n + 1
      BY <3>1
    <3>3. (n + 1) + failed' + pending' = u
      BY <1>3, <1>5, <1>12, <2>1
    <3> QED
      BY <3>2, <3>3
  <2>2. CASE ~ok
    <3>1. counts' = [uses |-> u, successes |-> n]
      BY <1>1, <1>3, <2>2 DEF CountOutcome
    <3>2. /\ counts' \in [uses : Nat, successes : Nat]
          /\ counts'.uses = u /\ counts'.successes = n
      BY <3>1
    <3>3. n + failed' + pending' = u
      BY <1>3, <1>5, <1>12, <2>2
    <3> QED
      BY <3>2, <3>3
  <2> QED
    BY <2>1, <2>2
<1>15. failed' \in Nat /\ Failures' <= failed' /\ (~overlapped' => Failures' = failed')
  BY <1>3, <1>5, <1>8, <1>10, <1>12, <1>13
<1>16. pending' \in 0..Len(usage') /\ Len(usage') <= MaxUsages
  BY <1>3, <1>4, <1>5, <1>6 DEF CuratorInv
<1>17. overlapped' \in BOOLEAN /\ ~(~overlapped' /\ pending' > 0)
  <2>1. overlapped' \in BOOLEAN /\ (pending > 1 => overlapped')
    BY <1>3 DEF CuratorInv
  <2>2. pending' > 0 => pending > 1
    BY <1>3, <1>5
  <2> QED
    BY <2>1, <2>2
<1> QED
  BY <1>6, <1>14, <1>15, <1>16, <1>17 DEF CuratorInv, UsageAddsUp

LEMMA CuratorStep == CuratorInv /\ CuratorNext => CuratorInv'
<1> SUFFICES ASSUME CuratorInv, CuratorNext PROVE CuratorInv'
  OBVIOUS
<1>1. CASE RecreateSkill
  <2>1. /\ usage' = <<>> /\ counts' = [uses |-> 0, successes |-> 0] /\ pending = 0
        /\ failed' = 0 /\ overlapped' = FALSE /\ pending' = pending
    BY <1>1 DEF RecreateSkill
  <2>2. Failures' = 0
    <3>1. {i \in DOMAIN usage' : usage'[i] = "failed"} = {}
      BY <2>1
    <3> QED
      BY <3>1, FS_EmptySet DEF Failures
  <2>3. usage' \in Seq({"open", "ok", "failed"}) /\ Len(usage') = 0 /\ 0 <= MaxUsages
    BY <2>1, SkillAssumption
  <2>4. counts' \in [uses : Nat, successes : Nat] /\ counts'.uses = 0 /\ counts'.successes = 0
    BY <2>1
  <2>5. UsageAddsUp'
    BY <2>1, <2>2, <2>4 DEF UsageAddsUp
  <2>6. Len(usage') <= MaxUsages /\ pending' \in 0..Len(usage') /\ ~(pending' > 0)
    BY <2>1, <2>3
  <2>7. failed' \in Nat /\ overlapped' \in BOOLEAN
    BY <2>1
  <2> QED
    BY <2>3, <2>4, <2>5, <2>6, <2>7 DEF CuratorInv
<1> QED
  BY <1>1, UseSkillKeeps, OutcomeKeeps DEF CuratorNext

LEMMA CuratorStutter == CuratorInv /\ UNCHANGED curatorVars => CuratorInv'
<1> SUFFICES ASSUME CuratorInv, UNCHANGED curatorVars PROVE CuratorInv'
  OBVIOUS
<1>1. /\ usage' = usage /\ counts' = counts /\ pending' = pending
      /\ failed' = failed /\ overlapped' = overlapped
  BY DEF curatorVars
<1> QED
  BY <1>1 DEF CuratorInv, UsageAddsUp, Failures

-----------------------------------------------------------------------------
(* The skill library together. *)

SkillLibraryInv == RegistryInv /\ LoaderInv /\ LedgerInv /\ CuratorInv

LEMMA SkillLibraryStart == SkillLibraryInit => SkillLibraryInv
BY RegistryStart, LoaderStart, LedgerStart, CuratorStart DEF SkillLibraryInv

LEMMA SkillLibraryStep ==
    ASSUME SkillLibraryInv, SkillLibraryNext \/ UNCHANGED skillLibraryVars
    PROVE  SkillLibraryInv'
<1>1. CASE RegistryNext
  <2>1. UNCHANGED loaderVars /\ UNCHANGED ledgerVars /\ UNCHANGED curatorVars
    BY <1>1 DEF RegistryNext
  <2> QED
    BY Zenon, <1>1, <2>1, SkillsRegistered, LoaderStutter, LedgerStutter, CuratorStutter DEF SkillLibraryInv
<1>2. CASE LoaderNext
  <2>1. UNCHANGED registryVars /\ UNCHANGED ledgerVars /\ UNCHANGED curatorVars
    BY <1>2 DEF LoaderNext
  <2> QED
    BY Zenon, <1>2, <2>1, LoaderStep, RegistryStutter, LedgerStutter, CuratorStutter DEF SkillLibraryInv
<1>3. CASE EvaluatorNext
  <2>1. UNCHANGED registryVars /\ UNCHANGED loaderVars /\ UNCHANGED curatorVars
    BY <1>3 DEF EvaluatorNext
  <2> QED
    BY Zenon, <1>3, <2>1, LedgerStep, RegistryStutter, LoaderStutter, CuratorStutter DEF SkillLibraryInv
<1>4. CASE CuratorNext
  <2>1. UNCHANGED registryVars /\ UNCHANGED loaderVars /\ UNCHANGED ledgerVars
    BY <1>4 DEF CuratorNext
  <2> QED
    BY Zenon, <1>4, <2>1, CuratorStep, RegistryStutter, LoaderStutter, LedgerStutter DEF SkillLibraryInv
<1>5. CASE UNCHANGED skillLibraryVars
  <2>1. UNCHANGED registryVars /\ UNCHANGED loaderVars /\ UNCHANGED ledgerVars /\ UNCHANGED curatorVars
    BY <1>5 DEF skillLibraryVars
  <2> QED
    BY Zenon, <2>1, RegistryStutter, LoaderStutter, LedgerStutter, CuratorStutter DEF SkillLibraryInv
<1> QED
  BY <1>1, <1>2, <1>3, <1>4, <1>5 DEF SkillLibraryNext

LEMMA SkillLibraryTypes == SkillLibraryInv => SkillLibraryTypeOK
<1> SUFFICES ASSUME SkillLibraryInv PROVE SkillLibraryTypeOK
  OBVIOUS
<1>1. /\ metas \in [Registries -> [SkillIds -> 0..MaxSkillEdits]]
      /\ latest \in [SkillIds -> 0..MaxSkillEdits] /\ saving \subseteq Registries /\ unseen \subseteq SkillIds
  BY DEF SkillLibraryInv, RegistryInv, Versions
<1>2. metaFile \in [SkillIds -> -1..MaxSkillEdits]
  <2>1. CASE metaFile = CutOff
    <3>1. -1 \in -1..MaxSkillEdits
      BY SkillAssumption
    <3> QED
      BY <2>1, <3>1 DEF CutOff
  <2>2. CASE metaFile \in [SkillIds -> 0..MaxSkillEdits]
    <3>1. 0..MaxSkillEdits \subseteq -1..MaxSkillEdits
      BY SkillAssumption
    <3> QED
      BY <2>2, <3>1
  <2> QED
    BY <2>1, <2>2 DEF SkillLibraryInv, RegistryInv, Versions
<1>3. {sourceVersion, module, loads} \subseteq 0..MaxSources
  BY SkillAssumption DEF SkillLibraryInv, LoaderInv
<1>4. entries \in Seq((0..2) \X (0..2)) /\ evaluated \in 0..MaxEvaluations
  BY LedgerIsRight DEF SkillLibraryInv, LedgerInv
<1>5. usage \in Seq({"open", "ok", "failed"}) /\ pending \in 0..MaxUsages
  BY SkillAssumption DEF SkillLibraryInv, CuratorInv
<1>6. {counts.uses, counts.successes, failed} \subseteq Nat
  BY DEF SkillLibraryInv, CuratorInv
<1> QED
  BY <1>1, <1>2, <1>3, <1>4, <1>5, <1>6 DEF SkillLibraryTypeOK

LEMMA SkillLibraryIsRight ==
    SkillLibraryInv => RegistryFileIsLatest /\ RunsWhatWasLoaded /\ LedgerIsWhole /\ UsageAddsUp
<1> SUFFICES ASSUME SkillLibraryInv
             PROVE  RegistryFileIsLatest /\ RunsWhatWasLoaded /\ LedgerIsWhole /\ UsageAddsUp
  OBVIOUS
<1>1. RegistryFileIsLatest
  BY DEF SkillLibraryInv, RegistryInv
<1>2. RunsWhatWasLoaded
  BY DEF SkillLibraryInv, LoaderInv, RunsWhatWasLoaded
<1>3. UsageAddsUp
  BY DEF SkillLibraryInv, CuratorInv
<1> QED
  BY <1>1, <1>2, <1>3, LedgerIsRight DEF SkillLibraryInv

-----------------------------------------------------------------------------
(* Progress (planning/progress.py): what is kept of the history is its end,  *)
(* and the counts are those of all of it.                                    *)

WithAction(s, a) == {i \in DOMAIN s : s[i].action = a}
WithErrors(s, a) == {i \in DOMAIN s : s[i].action = a /\ s[i].bad}
IsEndOf(t, s) == Len(t) <= Len(s) /\ \A i \in 1..Len(t) : t[i] = s[Len(s) - Len(t) + i]

ProgressInv ==
    /\ past \in Seq(Outcomes) /\ Len(past) <= MaxIterations
    /\ iterations \in Seq(Outcomes) /\ IsEndOf(iterations, past)
    /\ Len(iterations) = IF Len(past) > MaxHistory THEN MaxHistory ELSE Len(past)
    /\ DOMAIN actionCounts = Actions /\ DOMAIN errorCounts = Actions
    /\ actionCounts = [a \in Actions |-> Cardinality(WithAction(past, a))]
    /\ errorCounts = [a \in Actions |-> Cardinality(WithErrors(past, a))]

LEMMA CountsAreFinite ==
    ASSUME NEW s \in Seq(Outcomes), NEW a
    PROVE  /\ IsFiniteSet(WithAction(s, a)) /\ Cardinality(WithAction(s, a)) \in 0..Len(s)
           /\ IsFiniteSet(WithErrors(s, a)) /\ Cardinality(WithErrors(s, a)) \in 0..Len(s)
<1>1. PICK L \in Nat : L = Len(s)
  OBVIOUS
<1>2. WithAction(s, a) \in SUBSET (1..L) /\ WithErrors(s, a) \in SUBSET (1..L)
  BY <1>1 DEF WithAction, WithErrors
<1>3. IsFiniteSet(1..L) /\ Cardinality(1..L) = L
  BY FS_Interval
<1>4. /\ IsFiniteSet(WithAction(s, a)) /\ Cardinality(WithAction(s, a)) <= L
      /\ IsFiniteSet(WithErrors(s, a)) /\ Cardinality(WithErrors(s, a)) <= L
  BY <1>2, <1>3, FS_Subset
<1>5. Cardinality(WithAction(s, a)) \in Nat /\ Cardinality(WithErrors(s, a)) \in Nat
  BY <1>4, FS_CardinalityType
<1> QED
  BY <1>1, <1>4, <1>5

LEMMA OneMoreCounted ==
    ASSUME NEW s \in Seq(Outcomes), NEW o \in Outcomes, NEW a
    PROVE  /\ Cardinality(WithAction(Append(s, o), a))
                = IF o.action = a THEN Cardinality(WithAction(s, a)) + 1 ELSE Cardinality(WithAction(s, a))
           /\ Cardinality(WithErrors(Append(s, o), a))
                = IF o.action = a /\ o.bad THEN Cardinality(WithErrors(s, a)) + 1
                  ELSE Cardinality(WithErrors(s, a))
<1>1. PICK L \in Nat : L = Len(s) /\ DOMAIN s = 1..L
  OBVIOUS
<1>2. PICK t : t = Append(s, o)
  OBVIOUS
<1>3. DOMAIN t = 1..(L + 1) /\ t[L + 1] = o /\ \A i \in 1..L : t[i] = s[i]
  BY <1>1, <1>2
<1>4. WithAction(t, a) = IF o.action = a THEN WithAction(s, a) \cup {L + 1} ELSE WithAction(s, a)
  BY <1>1, <1>3 DEF WithAction
<1>5. WithErrors(t, a) = IF o.action = a /\ o.bad THEN WithErrors(s, a) \cup {L + 1} ELSE WithErrors(s, a)
  BY <1>1, <1>3 DEF WithErrors
<1>6. L + 1 \notin WithAction(s, a) /\ L + 1 \notin WithErrors(s, a)
  BY <1>1 DEF WithAction, WithErrors
<1>7. IsFiniteSet(WithAction(s, a)) /\ IsFiniteSet(WithErrors(s, a))
  BY CountsAreFinite
<1>8. /\ Cardinality(WithAction(s, a) \cup {L + 1}) = Cardinality(WithAction(s, a)) + 1
      /\ Cardinality(WithErrors(s, a) \cup {L + 1}) = Cardinality(WithErrors(s, a)) + 1
  BY <1>6, <1>7, FS_AddElement
<1> QED
  BY <1>2, <1>4, <1>5, <1>8

LEMMA ProgressStart == PlanningInit => ProgressInv
<1> SUFFICES ASSUME PlanningInit PROVE ProgressInv
  OBVIOUS
<1>1. /\ iterations = <<>> /\ past = <<>>
      /\ actionCounts = [a \in Actions |-> 0] /\ errorCounts = [a \in Actions |-> 0]
  BY DEF PlanningInit
<1>2. \A a \in Actions : WithAction(past, a) = {} /\ WithErrors(past, a) = {}
  BY <1>1 DEF WithAction, WithErrors
<1>3. \A a \in Actions : Cardinality(WithAction(past, a)) = 0 /\ Cardinality(WithErrors(past, a)) = 0
  BY <1>2, FS_EmptySet
<1>4. past \in Seq(Outcomes) /\ iterations \in Seq(Outcomes) /\ Len(past) = 0 /\ Len(iterations) = 0
  BY <1>1
<1>5. /\ 0 <= MaxIterations /\ ~(0 > MaxHistory) /\ IsEndOf(iterations, past)
  BY <1>4, PlanningAssumption DEF IsEndOf
<1> QED
  BY <1>1, <1>3, <1>4, <1>5 DEF ProgressInv

(* The end of a history, cut to its bound, stays the end of it. *)
LEMMA TrimmedHistory ==
    ASSUME NEW s \in Seq(Outcomes), NEW t \in Seq(Outcomes), IsEndOf(t, s), NEW o \in Outcomes,
           Len(t) = IF Len(s) > MaxHistory THEN MaxHistory ELSE Len(s)
    PROVE  LET u == Trimmed(Append(t, o))
               w == Append(s, o)
           IN  /\ u \in Seq(Outcomes) /\ IsEndOf(u, w)
               /\ Len(u) = IF Len(w) > MaxHistory THEN MaxHistory ELSE Len(w)
<1> USE PlanningAssumption
<1>1. PICK n \in Nat, m \in Nat, h \in Nat : n = Len(s) /\ m = Len(t) /\ h = MaxHistory
  OBVIOUS
<1>2. PICK w : w = Append(s, o)
  OBVIOUS
<1>3. PICK v : v = Append(t, o)
  OBVIOUS
<1>4. w \in Seq(Outcomes) /\ Len(w) = n + 1 /\ w[n + 1] = o /\ \A i \in 1..n : w[i] = s[i]
  BY <1>1, <1>2
<1>5. v \in Seq(Outcomes) /\ Len(v) = m + 1 /\ v[m + 1] = o /\ \A i \in 1..m : v[i] = t[i]
  BY <1>1, <1>3
<1>6. m <= n /\ \A i \in 1..m : t[i] = s[n - m + i]
  BY <1>1 DEF IsEndOf
<1>7. \A i \in 1..(m + 1) : v[i] = w[n - m + i]
  <2> SUFFICES ASSUME NEW i \in 1..(m + 1) PROVE v[i] = w[n - m + i]
    OBVIOUS
  <2>1. CASE i = m + 1
    BY <1>4, <1>5, <1>6, <2>1
  <2>2. CASE i # m + 1
    <3>1. PICK j \in 1..n : j = n - m + i /\ i \in 1..m
      BY <1>6, <2>2
    <3> QED
      BY <1>4, <1>5, <1>6, <3>1
  <2> QED
    BY <2>1, <2>2
<1>8. m = IF n > h THEN h ELSE n
  BY <1>1
<1>9. CASE m + 1 <= h
  <2>1. Trimmed(v) = v
    BY <1>1, <1>5, <1>9 DEF Trimmed
  <2>2. m = n
    BY <1>8, <1>9
  <2>3. IsEndOf(v, w)
    BY <1>4, <1>5, <1>7, <2>2 DEF IsEndOf
  <2>4. Len(v) = IF Len(w) > h THEN h ELSE Len(w)
    BY <1>4, <1>5, <1>9, <2>2
  <2> QED
    BY <1>1, <1>2, <1>3, <1>5, <2>1, <2>3, <2>4
<1>10. CASE m + 1 > h
  <2>1. m = h /\ n >= h
    BY <1>6, <1>8, <1>10
  <2>2. PICK u : u = SubSeq(v, 2, h + 1)
    OBVIOUS
  <2>3. Trimmed(v) = u
    <3>1. Len(v) > MaxHistory /\ Len(v) - MaxHistory + 1 = 2 /\ Len(v) = h + 1
      BY <1>1, <1>5, <2>1
    <3> QED
      BY <2>2, <3>1 DEF Trimmed
  <2>4. u \in Seq(Outcomes) /\ Len(u) = h /\ \A i \in 1..h : u[i] = v[i + 1]
    BY <1>5, <2>1, <2>2
  <2>5. IsEndOf(u, w)
    <3>1. \A i \in 1..h : u[i] = w[(n + 1) - h + i]
      <4> TAKE i \in 1..h
      <4>1. PICK j \in 1..(m + 1) : j = i + 1
        BY <2>1
      <4>2. n - m + j = (n + 1) - h + i
        BY <2>1, <4>1
      <4> QED
        BY <1>7, <2>4, <4>1, <4>2
    <3> QED
      BY <1>4, <2>1, <2>4, <3>1 DEF IsEndOf
  <2>6. Len(u) = IF Len(w) > h THEN h ELSE Len(w)
    BY <1>4, <2>1, <2>4
  <2> QED
    BY <1>1, <1>2, <1>3, <2>3, <2>4, <2>5, <2>6
<1> QED
  BY <1>9, <1>10

LEMMA ProgressStep == ProgressInv /\ ProgressNext => ProgressInv'
<1> SUFFICES ASSUME ProgressInv, ProgressNext PROVE ProgressInv'
  OBVIOUS
<1> USE PlanningAssumption
<1>1. PICK o \in Outcomes : RecordIteration(o)
  BY DEF ProgressNext
<1>2. /\ Len(past) < MaxIterations /\ past' = Append(past, o)
      /\ iterations' = Trimmed(Append(iterations, o))
      /\ actionCounts' = [actionCounts EXCEPT ![o.action] = actionCounts[o.action] + 1]
      /\ errorCounts' = IF o.bad THEN [errorCounts EXCEPT ![o.action] = errorCounts[o.action] + 1]
                        ELSE errorCounts
  BY <1>1 DEF RecordIteration
<1>3. past \in Seq(Outcomes)
  BY DEF ProgressInv
<1>4. past' \in Seq(Outcomes) /\ Len(past') <= MaxIterations
  BY <1>2, <1>3
<1>5. /\ iterations' \in Seq(Outcomes) /\ IsEndOf(iterations', past')
      /\ Len(iterations') = IF Len(past') > MaxHistory THEN MaxHistory ELSE Len(past')
  BY <1>2, TrimmedHistory DEF ProgressInv
<1>6. \A a : /\ Cardinality(WithAction(past', a))
                  = IF o.action = a THEN Cardinality(WithAction(past, a)) + 1 ELSE Cardinality(WithAction(past, a))
             /\ Cardinality(WithErrors(past', a))
                  = IF o.action = a /\ o.bad THEN Cardinality(WithErrors(past, a)) + 1
                    ELSE Cardinality(WithErrors(past, a))
  BY <1>2, <1>3, OneMoreCounted
<1>7. o.action \in Actions
  BY DEF Actions
<1>8. /\ actionCounts = [a \in Actions |-> Cardinality(WithAction(past, a))]
      /\ errorCounts = [a \in Actions |-> Cardinality(WithErrors(past, a))]
  BY DEF ProgressInv
<1>9. actionCounts' = [a \in Actions |-> Cardinality(WithAction(past', a))]
  BY <1>2, <1>6, <1>7, <1>8
<1>10. errorCounts' = [a \in Actions |-> Cardinality(WithErrors(past', a))]
  BY <1>2, <1>6, <1>7, <1>8
<1> QED
  BY <1>4, <1>5, <1>9, <1>10 DEF ProgressInv

LEMMA ProgressStutter == ProgressInv /\ UNCHANGED progressVars => ProgressInv'
<1> SUFFICES ASSUME ProgressInv, UNCHANGED progressVars PROVE ProgressInv'
  OBVIOUS
<1>1. /\ iterations' = iterations /\ actionCounts' = actionCounts
      /\ errorCounts' = errorCounts /\ past' = past
  BY DEF progressVars
<1> QED
  BY <1>1 DEF ProgressInv

(* The last five of the history are those of what is kept of it. *)
LEMMA RecentIs ==
    ASSUME ProgressInv, NEW n \in Nat, n = Len(past), NEW last,
           last = SubSeq(past, IF n > 5 THEN n - 4 ELSE 1, n)
    PROVE  /\ last \in Seq(Outcomes) /\ Recent = last /\ IsEndOf(last, past)
           /\ Len(last) = IF n > 5 THEN 5 ELSE n
<1>1. PICK m \in Nat, h \in Nat : m = Len(iterations) /\ h = MaxHistory /\ h >= 5
  <2>1. MaxHistory \in Nat /\ MaxHistory >= 5
    BY PlanningAssumption
  <2> QED
    BY <2>1 DEF ProgressInv
<1>2. past \in Seq(Outcomes) /\ iterations \in Seq(Outcomes) /\ m = IF n > h THEN h ELSE n
  BY <1>1 DEF ProgressInv
<1>3. m <= n /\ \A i \in 1..m : iterations[i] = past[n - m + i]
  BY <1>1 DEF ProgressInv, IsEndOf
<1>4. CASE n > 5
  <2>1. /\ last \in Seq(Outcomes) /\ Len(last) = 5
        /\ \A i \in 1..5 : last[i] = past[n - 5 + i]
    BY <1>2, <1>4
  <2>2. m >= 5
    BY <1>1, <1>2, <1>4
  <2>3. Recent \in Seq(Outcomes) /\ Len(Recent) = 5 /\ \A i \in 1..5 : Recent[i] = iterations[m - 5 + i]
    <3>1. CASE m > 5
      <4>1. Recent = SubSeq(iterations, m - 4, m)
        BY <1>1, <3>1 DEF Recent
      <4>2. Len(iterations) = m /\ iterations \in Seq(Outcomes)
        BY <1>1, <1>2
      <4>3. /\ SubSeq(iterations, m - 4, m) \in Seq(Outcomes) /\ Len(SubSeq(iterations, m - 4, m)) = 5
            /\ \A i \in 1..5 : SubSeq(iterations, m - 4, m)[i] = iterations[m - 5 + i]
        BY <3>1, <4>2
      <4> QED
        BY <4>1, <4>3
    <3>2. CASE m = 5
      <4>1. Recent = iterations
        BY <1>1, <3>2 DEF Recent
      <4>2. Len(iterations) = 5 /\ iterations \in Seq(Outcomes)
        BY <1>1, <1>2, <3>2
      <4>3. \A i \in 1..5 : m - 5 + i = i
        BY <3>2
      <4> QED
        BY <4>1, <4>2, <4>3
    <3> QED
      BY <2>2, <3>1, <3>2
  <2>4. \A i \in 1..5 : Recent[i] = last[i]
    <3> TAKE i \in 1..5
    <3>1. PICK j \in 1..m : j = m - 5 + i
      BY <2>2
    <3>2. n - m + j = n - 5 + i
      BY <3>1
    <3>3. Recent[i] = iterations[j]
      BY <2>3, <3>1
    <3>4. last[i] = past[n - m + j]
      BY <2>1, <3>2
    <3>5. iterations[j] = past[n - m + j]
      BY <1>3
    <3> QED
      BY <3>3, <3>4, <3>5
  <2>5. Recent = last
    BY <2>1, <2>3, <2>4, SameSequence
  <2> QED
    BY <1>4, <2>1, <2>5 DEF IsEndOf
<1>5. CASE n <= 5
  <2>1. m = n
    BY <1>1, <1>2, <1>5
  <2>2. Recent = iterations
    BY <1>1, <1>5, <2>1 DEF Recent
  <2>3. last \in Seq(Outcomes) /\ Len(last) = n /\ \A i \in 1..n : last[i] = past[i]
    BY <1>2, <1>5
  <2>4. \A i \in 1..n : iterations[i] = last[i]
    BY <1>3, <2>1, <2>3
  <2>5. iterations = last
    BY <1>1, <1>2, <2>1, <2>3, <2>4, SameSequence
  <2>6. IsEndOf(last, past)
    <3>1. \A i \in 1..n : n - n + i = i
      OBVIOUS
    <3>2. \A i \in 1..n : last[i] = past[n - n + i]
      BY <2>3, <3>1
    <3>3. Len(last) = n /\ Len(past) = n /\ n <= n
      BY <2>3
    <3> QED
      BY <3>2, <3>3 DEF IsEndOf
  <2>7. Recent = last
    BY <2>2, <2>5
  <2>8. Len(last) = IF n > 5 THEN 5 ELSE n
    <3>1. ~(n > 5)
      BY <1>5
    <3>2. Len(last) = n
      BY <2>3
    <3> QED
      BY <3>1, <3>2
  <2> QED
    BY <2>3, <2>6, <2>7, <2>8
<1>6. n > 5 \/ n <= 5
  OBVIOUS
<1> QED
  BY <1>4, <1>5, <1>6

(* What happens in the end of a history happens in it as often, or more. *)
LEMMA EndCountsLess ==
    ASSUME NEW s \in Seq(Outcomes), NEW t \in Seq(Outcomes), IsEndOf(t, s), NEW a
    PROVE  Cardinality(WithAction(t, a)) <= Cardinality(WithAction(s, a))
<1>1. PICK n \in Nat, m \in Nat : n = Len(s) /\ m = Len(t) /\ DOMAIN s = 1..n /\ DOMAIN t = 1..m
  OBVIOUS
<1>2. m <= n /\ \A i \in 1..m : t[i] = s[n - m + i]
  BY <1>1 DEF IsEndOf
<1>3. PICK f : f = [i \in WithAction(t, a) |-> n - m + i]
  OBVIOUS
<1>4. \A i \in WithAction(t, a) : i \in 1..m /\ t[i].action = a
  BY <1>1 DEF WithAction
<1>5. \A i \in WithAction(t, a) : n - m + i \in WithAction(s, a)
  <2> TAKE i \in WithAction(t, a)
  <2>1. PICK j \in 1..n : j = n - m + i
    BY <1>2, <1>4
  <2>2. s[j].action = a
    BY <1>2, <1>4, <2>1
  <2> QED
    BY <1>1, <2>1, <2>2 DEF WithAction
<1>6. f \in [WithAction(t, a) -> WithAction(s, a)]
  BY <1>3, <1>5
<1>7. \A i, j \in WithAction(t, a) : f[i] = f[j] => i = j
  BY <1>3, <1>4
<1>8. f \in Injection(WithAction(t, a), WithAction(s, a))
  BY <1>6, <1>7 DEF Injection, IsInjective
<1>9. IsFiniteSet(WithAction(s, a))
  BY CountsAreFinite
<1> QED
  BY <1>8, <1>9, FS_Injection

LEMMA ProgressIsSeen == ProgressInv => StallsAreSeen
<1> SUFFICES ASSUME ProgressInv PROVE StallsAreSeen
  OBVIOUS
<1>1. PICK n \in Nat : n = Len(past)
  BY DEF ProgressInv
<1>2. PICK last : last = SubSeq(past, IF n > 5 THEN n - 4 ELSE 1, n)
  OBVIOUS
<1>3. /\ last \in Seq(Outcomes) /\ Recent = last /\ IsEndOf(last, past)
      /\ Len(last) = IF n > 5 THEN 5 ELSE n
  BY <1>1, <1>2, RecentIs
<1>4. past \in Seq(Outcomes) /\ Len(iterations) = IF n > MaxHistory THEN MaxHistory ELSE n
  BY <1>1 DEF ProgressInv
<1>5. \A a : TimesIn(last, a) = Cardinality(WithAction(last, a))
  BY DEF TimesIn, WithAction
<1>6. \A a : /\ TimesIn(last, a) \in 0..Len(last)
             /\ TimesIn(last, a) <= Cardinality(WithAction(past, a))
  BY <1>3, <1>4, <1>5, CountsAreFinite, EndCountsLess
<1>7. n >= 3 <=> Len(iterations) >= 3
  BY <1>4, PlanningAssumption
<1>8. (\E a \in Actions : TimesIn(last, a) >= 3) => DetectStall = "repeated_command"
  <2> SUFFICES ASSUME NEW a \in Actions, TimesIn(last, a) >= 3 PROVE DetectStall = "repeated_command"
    OBVIOUS
  <2>1. n >= 3
    BY <1>3, <1>6
  <2>2. actionCounts[a] = Cardinality(WithAction(past, a))
    BY DEF ProgressInv
  <2>3. Cardinality(WithAction(past, a)) \in Nat
    BY <1>4, CountsAreFinite
  <2>4. actionCounts[a] >= 3
    BY <1>6, <2>2, <2>3
  <2>5. Repeated
    BY <1>3, <2>4 DEF Repeated
  <2>6. ~(Len(iterations) < 3)
    BY <1>4, <1>7, <2>1, PlanningAssumption
  <2> QED
    BY <2>5, <2>6 DEF DetectStall
<1>9. DetectStall = "repeated_command" => \E a \in Actions : TimesIn(last, a) >= 3
  <2> SUFFICES ASSUME DetectStall = "repeated_command" PROVE \E a \in Actions : TimesIn(last, a) >= 3
    OBVIOUS
  <2>1. Repeated
    BY DEF DetectStall
  <2> QED
    BY <1>3, <2>1 DEF Repeated
<1>10. (n >= 3 /\ \A i \in DOMAIN last : last[i].delta = 0) =>
          DetectStall \in {"repeated_command", "zero_progress"}
  <2> SUFFICES ASSUME n >= 3, \A i \in DOMAIN last : last[i].delta = 0
               PROVE  DetectStall \in {"repeated_command", "zero_progress"}
    OBVIOUS
  <2>1. NoProgress
    BY <1>3 DEF NoProgress
  <2>2. ~(Len(iterations) < 3)
    BY <1>4, <1>7, PlanningAssumption
  <2> QED
    BY <2>1, <2>2 DEF DetectStall
<1>11. DetectStall = "repeated_error" =>
          \E a \in Actions : Cardinality({i \in DOMAIN past : past[i].action = a /\ past[i].bad}) >= 3
  <2> SUFFICES ASSUME DetectStall = "repeated_error"
               PROVE  \E a \in Actions : Cardinality({i \in DOMAIN past : past[i].action = a /\ past[i].bad}) >= 3
    OBVIOUS
  <2>1. ErrorsRepeat
    BY DEF DetectStall
  <2>2. PICK a \in Actions : errorCounts[a] >= 3
    BY <2>1 DEF ErrorsRepeat
  <2>3. errorCounts[a] = Cardinality(WithErrors(past, a))
    BY DEF ProgressInv
  <2> QED
    BY <2>2, <2>3 DEF WithErrors
<1> QED
  BY <1>1, <1>2, <1>8, <1>9, <1>10, <1>11 DEF StallsAreSeen

LEMMA ProgressTypes ==
    ASSUME ProgressInv
    PROVE  /\ iterations \in Seq(Outcomes) /\ Len(iterations) <= MaxHistory
           /\ actionCounts \in [Actions -> 0..MaxIterations]
           /\ errorCounts \in [Actions -> 0..MaxIterations]
<1> USE PlanningAssumption
<1>1. past \in Seq(Outcomes) /\ Len(past) <= MaxIterations /\ iterations \in Seq(Outcomes)
  BY DEF ProgressInv
<1>2. Len(iterations) <= MaxHistory
  BY <1>1 DEF ProgressInv
<1>3. \A a : /\ Cardinality(WithAction(past, a)) \in 0..MaxIterations
             /\ Cardinality(WithErrors(past, a)) \in 0..MaxIterations
  <2> TAKE a
  <2>1. /\ Cardinality(WithAction(past, a)) \in 0..Len(past)
        /\ Cardinality(WithErrors(past, a)) \in 0..Len(past)
    BY <1>1, CountsAreFinite
  <2> QED
    BY <1>1, <2>1
<1> QED
  BY <1>1, <1>2, <1>3 DEF ProgressInv

-----------------------------------------------------------------------------
(* Plans and failures (planning/planner.py, planning/recovery.py). *)

PlanInv ==
    /\ plan.risk \in {"none", "low", "medium", "high", "critical"}
    /\ plan # NoPlan => {"actions", "results"} \subseteq plan.issues
    /\ recovery \in {"none yet", "none", "exhausted"}
    /\ recovery # "none yet" => failure # NoFailure
    /\ recovery = "exhausted" => failure.type \in DOMAIN Strategies

LEMMA PlanStart == PlanningInit => PlanInv
<1> SUFFICES ASSUME PlanningInit PROVE PlanInv
  OBVIOUS
<1>1. plan = NoPlan /\ recovery = "none yet"
  BY DEF PlanningInit
<1>2. NoPlan.risk = "none"
  BY DEF NoPlan
<1> QED
  BY <1>1, <1>2 DEF PlanInv

LEMMA PlanStep == PlanInv /\ PlanNext => PlanInv'
<1> SUFFICES ASSUME PlanInv, PlanNext PROVE PlanInv'
  OBVIOUS
<1>1. ASSUME NEW objective \in BOOLEAN, NEW risk \in {"low", "medium", "high", "critical"},
             MakePlan(objective, risk)
      PROVE  PlanInv'
  <2>1. PICK issues : issues = GateIssues(PlanOf(objective, risk))
    OBVIOUS
  <2>2. /\ plan' = [objective |-> objective, risk |-> risk, issues |-> issues]
        /\ failure' = failure /\ recovery' = recovery
    BY <1>1, <2>1 DEF MakePlan
  <2>3. {"actions", "results"} \subseteq issues
    BY <2>1 DEF GateIssues, PlanOf
  <2>4. plan'.risk = risk /\ plan'.issues = issues
    BY <2>2
  <2> QED
    BY <2>2, <2>3, <2>4 DEF PlanInv, NoFailure, Strategies
<1>2. ASSUME NEW w, NEW v, Analyze({w, v}) PROVE PlanInv'
  <2>1. failure = NoFailure /\ plan' = plan /\ recovery' = recovery
    BY <1>2 DEF Analyze
  <2>2. recovery = "none yet"
    BY <2>1 DEF PlanInv
  <2> QED
    BY <2>1, <2>2 DEF PlanInv, NoPlan
<1>3. CASE Recover
  <2>1. /\ failure # NoFailure /\ plan' = plan /\ failure' = failure
        /\ recovery' = IF failure.type \in DOMAIN Strategies THEN "exhausted" ELSE "none"
    BY <1>3 DEF Recover
  <2> QED
    BY <2>1 DEF PlanInv, NoPlan, NoFailure, Strategies
<1> QED
  BY <1>1, <1>2, <1>3 DEF PlanNext

LEMMA PlanStutter == PlanInv /\ UNCHANGED planVars => PlanInv'
<1> SUFFICES ASSUME PlanInv, UNCHANGED planVars PROVE PlanInv'
  OBVIOUS
<1>1. plan' = plan /\ failure' = failure /\ recovery' = recovery
  BY DEF planVars
<1> QED
  BY <1>1 DEF PlanInv, NoPlan, NoFailure, Strategies

LEMMA PlanIsRight == PlanInv => PlansAreNotReady
BY DEF PlanInv, PlansAreNotReady, Strategies

-----------------------------------------------------------------------------
(* The rubric (cognition/evaluator.py): what was rated was rated with the    *)
(* weights there are, which add up to one.                                   *)

WeightsAddUp ==
    /\ weights \in Weightings
    /\ weights.correctness + weights.efficiency + weights.style + weights.safety = 100

RatingInv ==
    /\ weights # NoWeights => WeightsAddUp
    /\ rated.output \in Outputs
    /\ rated # Unrated =>
         /\ weights # NoWeights /\ rated.score = Score(rated.output, weights)
         /\ rated.passed => rated.score >= PassThreshold

LEMMA UnratedIs == Unrated.output \in Outputs
<1>1. PICK o : o = [kind |-> "none", covers |-> FALSE, slow |-> FALSE, untidy |-> FALSE, risks |-> 0]
  OBVIOUS
<1>2. o \in [kind : {"none", "error", "short", "long"}, covers : BOOLEAN,
             slow : BOOLEAN, untidy : BOOLEAN, risks : 0..5]
  BY <1>1
<1>3. o.kind = "none" /\ ~o.slow /\ ~o.untidy /\ o.risks = 0 /\ ~o.covers
  BY <1>1
<1>4. o \in Outputs /\ o.kind = "none"
  BY <1>2, <1>3 DEF Outputs
<1>5. (CHOOSE q \in Outputs : q.kind = "none") \in Outputs
  BY <1>4
<1> QED
  BY <1>5 DEF Unrated

LEMMA RatingStart == PlanningInit => RatingInv
BY UnratedIs DEF PlanningInit, RatingInv

LEMMA RatingStep == RatingInv /\ RatingNext => RatingInv'
<1> SUFFICES ASSUME RatingInv, RatingNext PROVE RatingInv'
  OBVIOUS
<1>1. ASSUME NEW w \in Weightings, MakeEvaluator(w) PROVE RatingInv'
  <2>1. /\ weights = NoWeights /\ weights' = w /\ rated' = rated
        /\ w.correctness + w.efficiency + w.style + w.safety = 100
    BY <1>1 DEF MakeEvaluator
  <2>2. rated = Unrated
    BY <2>1 DEF RatingInv
  <2>3. WeightsAddUp'
    BY <2>1 DEF WeightsAddUp
  <2> QED
    BY <2>1, <2>2, <2>3, UnratedIs DEF RatingInv, Unrated, Outputs
<1>2. ASSUME NEW o \in Outputs, Evaluate(o) PROVE RatingInv'
  <2>1. PICK score : score = Score(o, weights)
    OBVIOUS
  <2>2. /\ weights # NoWeights /\ weights' = weights
        /\ rated' = [output |-> o, score |-> score, passed |-> score >= PassThreshold]
    BY <1>2, <2>1 DEF Evaluate
  <2>3. rated'.output = o /\ rated'.score = score /\ rated'.passed = (score >= PassThreshold)
    BY <2>2
  <2>4. WeightsAddUp'
    BY <2>2 DEF RatingInv, WeightsAddUp
  <2>5. rated'.score = Score(rated'.output, weights')
    BY <2>1, <2>2, <2>3
  <2>6. rated'.passed => rated'.score >= PassThreshold
    BY <2>3
  <2>7. weights' # NoWeights
    BY <2>2 DEF NoWeights
  <2> QED
    BY <2>3, <2>4, <2>5, <2>6, <2>7 DEF RatingInv, Outputs, PassThreshold, Score, NoWeights
<1> QED
  BY <1>1, <1>2 DEF RatingNext

LEMMA RatingStutter == RatingInv /\ UNCHANGED ratingVars => RatingInv'
<1> SUFFICES ASSUME RatingInv, UNCHANGED ratingVars PROVE RatingInv'
  OBVIOUS
<1>1. weights' = weights /\ rated' = rated
  BY DEF ratingVars
<1> QED
  BY <1>1 DEF RatingInv, WeightsAddUp, NoWeights, Unrated, Outputs, PassThreshold, Score

(* What a rubric gives for one output, and for one with an issue more. *)
Grades == {0, 10, 20, 40, 50, 60, 70, 75, 80, 100}

LEMMA MarkTimes ==
    ASSUME NEW x \in Grades, NEW w \in 0..100
    PROVE  x * w \in Nat /\ x * w <= 100 * w
<1>1. CASE x \in {0, 10, 20}
  BY <1>1
<1>2. CASE x \in {40, 50, 60, 70}
  BY <1>2
<1>3. CASE x \in {75, 80, 100}
  BY <1>3
<1> QED
  BY <1>1, <1>2, <1>3 DEF Grades

LEMMA LessTimes ==
    ASSUME NEW x \in Nat, NEW y \in Nat, x <= y, NEW w \in Nat
    PROVE  x * w <= y * w
<1>1. PICK d \in Nat : y = x + d
  <2>1. y - x \in Nat /\ y = x + (y - x)
    OBVIOUS
  <2> QED
    BY <2>1
<1>2. d * w \in Nat /\ x * w \in Nat
  OBVIOUS
<1>3. (x + d) * w = x * w + d * w
  OBVIOUS
<1> QED
  BY <1>1, <1>2, <1>3

LEMMA OutputIs ==
    ASSUME NEW o \in Outputs
    PROVE  /\ o.kind \in {"none", "error", "short", "long"} /\ o.covers \in BOOLEAN
           /\ o.slow \in BOOLEAN /\ o.untidy \in BOOLEAN /\ o.risks \in 0..5
           /\ o = [kind |-> o.kind, covers |-> o.covers, slow |-> o.slow,
                   untidy |-> o.untidy, risks |-> o.risks]
<1>1. o \in [kind : {"none", "error", "short", "long"}, covers : BOOLEAN,
             slow : BOOLEAN, untidy : BOOLEAN, risks : 0..5]
  BY DEF Outputs
<1> QED
  BY <1>1

(* p is o, or o with one issue more. *)
NoBetter(p, o) ==
    /\ p.kind = o.kind
    /\ p.covers = o.covers \/ p.covers = FALSE
    /\ p.slow = o.slow \/ p.slow = TRUE
    /\ p.untidy = o.untidy \/ p.untidy = TRUE
    /\ p.risks = o.risks \/ p.risks = o.risks + 1

LEMMA WorseOutputs ==
    ASSUME NEW o \in Outputs,
           NEW p \in {[o EXCEPT !.slow = TRUE], [o EXCEPT !.untidy = TRUE],
                      [o EXCEPT !.covers = FALSE], [o EXCEPT !.risks = @ + 1]}
    PROVE  NoBetter(p, o)
<1>1. PICK k, c, s, u, r : o = [kind |-> k, covers |-> c, slow |-> s, untidy |-> u, risks |-> r]
  BY OutputIs
<1>2. o.kind = k /\ o.covers = c /\ o.slow = s /\ o.untidy = u /\ o.risks = r
  BY <1>1
<1>3. \/ p = [kind |-> k, covers |-> c, slow |-> TRUE, untidy |-> u, risks |-> r]
      \/ p = [kind |-> k, covers |-> c, slow |-> s, untidy |-> TRUE, risks |-> r]
      \/ p = [kind |-> k, covers |-> FALSE, slow |-> s, untidy |-> u, risks |-> r]
      \/ p = [kind |-> k, covers |-> c, slow |-> s, untidy |-> u, risks |-> r + 1]
  BY <1>1
<1> QED
  BY <1>2, <1>3 DEF NoBetter

LEMMA SameIsNoBetter == \A o : NoBetter(o, o)
BY DEF NoBetter

LEMMA MarksAre ==
    ASSUME NEW o \in Outputs, NEW p, NoBetter(p, o)
    PROVE  /\ Correctness(p) \in Grades /\ Correctness(o) \in Grades /\ Correctness(p) <= Correctness(o)
           /\ Efficiency(p) \in Grades /\ Efficiency(o) \in Grades /\ Efficiency(p) <= Efficiency(o)
           /\ Style(p) \in Grades /\ Style(o) \in Grades /\ Style(p) <= Style(o)
           /\ Safety(p) \in Grades /\ Safety(o) \in Grades /\ Safety(p) <= Safety(o)
<1>1. /\ o.kind \in {"none", "error", "short", "long"} /\ o.covers \in BOOLEAN
      /\ o.slow \in BOOLEAN /\ o.untidy \in BOOLEAN /\ o.risks \in 0..5
  BY OutputIs
<1>2. /\ p.kind = o.kind /\ (p.covers => o.covers) /\ (o.slow => p.slow) /\ (o.untidy => p.untidy)
      /\ p.risks \in {o.risks, o.risks + 1}
  BY <1>1 DEF NoBetter
<1>3. Correctness(p) \in Grades /\ Correctness(o) \in Grades /\ Correctness(p) <= Correctness(o)
  <2>1. CASE o.kind = "none"
    BY <1>2, <2>1 DEF Correctness, Grades
  <2>2. CASE o.kind = "error"
    BY <1>2, <2>2 DEF Correctness, Grades
  <2>3. CASE o.kind = "short"
    BY <1>2, <2>3 DEF Correctness, Grades
  <2>4. CASE o.kind = "long"
    <3>1. /\ Correctness(p) = IF p.covers THEN 75 ELSE 50
          /\ Correctness(o) = IF o.covers THEN 75 ELSE 50
      BY <1>2, <2>4 DEF Correctness
    <3> QED
      BY <1>2, <3>1 DEF Grades
  <2> QED
    BY <1>1, <2>1, <2>2, <2>3, <2>4
<1>4. /\ Efficiency(p) \in Grades /\ Efficiency(o) \in Grades /\ Efficiency(p) <= Efficiency(o)
      /\ Style(p) \in Grades /\ Style(o) \in Grades /\ Style(p) <= Style(o)
  BY <1>2 DEF Efficiency, Style, Grades
<1>5. Safety(p) \in Grades /\ Safety(o) \in Grades /\ Safety(p) <= Safety(o)
  <2>1. PICK r \in 0..5, q \in 0..6 : r = o.risks /\ q = p.risks /\ (q = r \/ q = r + 1)
    BY <1>1, <1>2
  <2>2. /\ Safety(o) = IF r > 3 THEN 10 ELSE 100 - 30 * r
        /\ Safety(p) = IF q > 3 THEN 10 ELSE 100 - 30 * q
    BY <2>1 DEF Safety
  <2> QED
    BY <2>1, <2>2 DEF Grades
<1> QED
  BY <1>3, <1>4, <1>5

LEMMA WeightIs ==
    ASSUME WeightsAddUp
    PROVE  /\ weights.correctness \in 0..100 /\ weights.efficiency \in 0..100
           /\ weights.style \in 0..100 /\ weights.safety \in 0..100
BY PlanningAssumption DEF WeightsAddUp

(* A score is the sum of its four products. *)
LEMMA ScoreIs ==
    ASSUME WeightsAddUp, NEW o \in Outputs, NEW p, NoBetter(p, o)
    PROVE  /\ Score(o, weights) \in Scores
           /\ Score(p, weights) \in Nat /\ Score(p, weights) <= Score(o, weights)
<1>a. PICK c \in 0..100 : c = weights.correctness
  BY WeightIs
<1>b. PICK e \in 0..100 : e = weights.efficiency
  BY WeightIs
<1>c. PICK t \in 0..100 : t = weights.style
  BY WeightIs
<1>d. PICK a \in 0..100 : a = weights.safety
  BY WeightIs
<1>1. /\ c = weights.correctness /\ e = weights.efficiency /\ t = weights.style /\ a = weights.safety
      /\ c + e + t + a = 100
  BY <1>a, <1>b, <1>c, <1>d DEF WeightsAddUp
<1>2. PICK x \in Grades, y \in Grades : x = Correctness(p) /\ y = Correctness(o) /\ x <= y
  BY MarksAre
<1>3. PICK x2 \in Grades, y2 \in Grades : x2 = Efficiency(p) /\ y2 = Efficiency(o) /\ x2 <= y2
  BY MarksAre
<1>4. PICK x3 \in Grades, y3 \in Grades : x3 = Style(p) /\ y3 = Style(o) /\ x3 <= y3
  BY MarksAre
<1>5. PICK x4 \in Grades, y4 \in Grades : x4 = Safety(p) /\ y4 = Safety(o) /\ x4 <= y4
  BY MarksAre
<1>6. Grades \subseteq Nat
  BY DEF Grades
<1>7. PICK m \in Nat, n \in Nat : m = x * c /\ n = y * c /\ m <= n /\ n <= 100 * c
  BY <1>2, <1>6, MarkTimes, LessTimes
<1>8. PICK m2 \in Nat, n2 \in Nat : m2 = x2 * e /\ n2 = y2 * e /\ m2 <= n2 /\ n2 <= 100 * e
  BY <1>3, <1>6, MarkTimes, LessTimes
<1>9. PICK m3 \in Nat, n3 \in Nat : m3 = x3 * t /\ n3 = y3 * t /\ m3 <= n3 /\ n3 <= 100 * t
  BY <1>4, <1>6, MarkTimes, LessTimes
<1>10. PICK m4 \in Nat, n4 \in Nat : m4 = x4 * a /\ n4 = y4 * a /\ m4 <= n4 /\ n4 <= 100 * a
  BY <1>5, <1>6, MarkTimes, LessTimes
<1>11. Score(p, weights) = m + m2 + m3 + m4
  BY <1>1, <1>2, <1>3, <1>4, <1>5, <1>7, <1>8, <1>9, <1>10 DEF Score
<1>12. Score(o, weights) = n + n2 + n3 + n4
  BY <1>1, <1>2, <1>3, <1>4, <1>5, <1>7, <1>8, <1>9, <1>10 DEF Score
<1>13. /\ m <= n /\ m2 <= n2 /\ m3 <= n3 /\ m4 <= n4
       /\ n <= 100 * c /\ n2 <= 100 * e /\ n3 <= 100 * t /\ n4 <= 100 * a
  BY <1>7, <1>8, <1>9, <1>10
<1>14. c + e + t + a = 100
  BY <1>1
<1>15. PICK lo \in Nat, hi \in Nat :
          lo = m + m2 /\ hi = n + n2 /\ lo <= hi /\ hi <= 100 * (c + e)
  BY <1>13
<1>16. PICK lo2 \in Nat, hi2 \in Nat :
          lo2 = m3 + m4 /\ hi2 = n3 + n4 /\ lo2 <= hi2 /\ hi2 <= 100 * (t + a)
  BY <1>13
<1>17. lo + lo2 \in Nat /\ lo + lo2 <= hi + hi2
  BY <1>15, <1>16
<1>18. hi + hi2 \in Scores
  <2>1. PICK k \in Nat : k = hi + hi2
    OBVIOUS
  <2>2. k <= 100 * (c + e) + 100 * (t + a)
    BY <1>15, <1>16, <2>1
  <2>3. k <= 10000
    BY <1>14, <2>2
  <2>4. k \in Scores
    BY ONLY k \in Nat, <2>3 DEF Scores
  <2> QED
    BY Zenon, <2>1, <2>4
<1>19. Score(p, weights) = lo + lo2 /\ Score(o, weights) = hi + hi2
  BY <1>11, <1>12, <1>15, <1>16
<1> QED
  BY Zenon, <1>17, <1>18, <1>19

(* With c hundredths for correctness and a mark of x for it, there is at most *)
(* x * c + 100 * (100 - c).                                                   *)
LEMMA PoorAnswersFail ==
    ASSUME WeightsAddUp, NEW o \in Outputs, weights.correctness >= 40, o.kind \in {"none", "error"}
    PROVE  Score(o, weights) < PassThreshold
<1>a. PICK c \in 0..100 : c = weights.correctness
  BY WeightIs
<1>b. PICK e \in 0..100 : e = weights.efficiency
  BY WeightIs
<1>c. PICK t \in 0..100 : t = weights.style
  BY WeightIs
<1>d. PICK a \in 0..100 : a = weights.safety
  BY WeightIs
<1>1. /\ c = weights.correctness /\ e = weights.efficiency /\ t = weights.style /\ a = weights.safety
      /\ c + e + t + a = 100
  BY <1>a, <1>b, <1>c, <1>d DEF WeightsAddUp
<1>2. NoBetter(o, o)
  BY SameIsNoBetter
<1>3. PICK y2 \in Grades, y3 \in Grades, y4 \in Grades : y2 = Efficiency(o) /\ y3 = Style(o) /\ y4 = Safety(o)
  BY <1>2, MarksAre
<1>4. PICK n2 \in Nat : n2 = y2 * e /\ n2 <= 100 * e
  BY MarkTimes
<1>5. PICK n3 \in Nat : n3 = y3 * t /\ n3 <= 100 * t
  BY MarkTimes
<1>6. PICK n4 \in Nat : n4 = y4 * a /\ n4 <= 100 * a
  BY MarkTimes
<1>7. Correctness(o) \in {0, 20}
  BY DEF Correctness
<1>8. PICK n \in Nat : n = Correctness(o) * c /\ n <= 20 * c
  BY <1>7
<1>9. Score(o, weights) = n + n2 + n3 + n4
  BY <1>1, <1>3, <1>4, <1>5, <1>6, <1>8 DEF Score
<1>10. c >= 40
  BY <1>1
<1> QED
  BY <1>1, <1>4, <1>5, <1>6, <1>8, <1>9, <1>10 DEF PassThreshold

LEMMA ShortAnswersFail ==
    ASSUME WeightsAddUp, NEW o \in Outputs, weights = DefaultWeights, o.kind = "short"
    PROVE  Score(o, weights) < PassThreshold
<1>1. /\ weights.correctness = 40 /\ weights.efficiency = 25 /\ weights.style = 15 /\ weights.safety = 20
  BY DEF DefaultWeights
<1>2. Correctness(o) = 40
  BY DEF Correctness
<1>3. Efficiency(o) \in {60, 80} /\ Style(o) \in {60, 80}
  BY DEF Efficiency, Style
<1>4. Safety(o) \in Grades
  BY SameIsNoBetter, MarksAre
<1>5. Score(o, weights) = Correctness(o) * 40 + Efficiency(o) * 25 + Style(o) * 15 + Safety(o) * 20
  BY <1>1 DEF Score
<1> QED
  BY <1>2, <1>3, <1>4, <1>5 DEF Grades, PassThreshold

LEMMA RatingIsRight == RatingInv => RubricsHold
<1> SUFFICES ASSUME RatingInv, rated # Unrated PROVE RubricsHold
  BY Zenon DEF RubricsHold
<1>1. PICK o \in Outputs : o = rated.output
  BY DEF RatingInv
<1>2. WeightsAddUp /\ rated.score = Score(o, weights) /\ (rated.passed => rated.score >= PassThreshold)
  BY <1>1 DEF RatingInv
<1>3. rated.score \in Scores
  BY Zenon, <1>2, SameIsNoBetter, ScoreIs
<1>4. ASSUME NEW p \in {[o EXCEPT !.slow = TRUE], [o EXCEPT !.untidy = TRUE],
                        [o EXCEPT !.covers = FALSE], [o EXCEPT !.risks = @ + 1]}
      PROVE  Score(p, weights) <= rated.score
  <2>1. NoBetter(p, o)
    BY WorseOutputs
  <2> QED
    BY <1>2, <2>1, ScoreIs
<1>5. weights.correctness \in 0..100
  BY <1>2, WeightIs
<1>6. rated.passed => ~(rated.score < PassThreshold)
  <2>1. PICK score \in Nat, bar \in Nat : score = rated.score /\ bar = PassThreshold
    <3>1. \A x \in Scores : x \in Nat
      BY DEF Scores
    <3>2. PassThreshold \in Nat
      BY DEF PassThreshold
    <3> QED
      BY Zenon, <1>3, <3>1, <3>2
  <2>2. score >= bar => ~(score < bar)
    OBVIOUS
  <2>3. rated.passed => score >= bar
    BY Zenon, <1>2, <2>1
  <2> QED
    BY Zenon, <2>1, <2>2, <2>3
<1>7. ASSUME rated.passed, o.kind \in {"none", "error"}
      PROVE  weights.correctness < DefaultWeights.correctness
  <2>1. ~(weights.correctness >= 40)
    BY <1>2, <1>6, <1>7, PoorAnswersFail
  <2>2. weights.correctness < 40
    BY <1>5, <2>1
  <2> QED
    BY <2>2 DEF DefaultWeights
<1>8. ASSUME rated.passed, o.kind = "short" PROVE weights # DefaultWeights
  BY <1>2, <1>6, <1>8, ShortAnswersFail
<1> QED
  BY Zenon, <1>1, <1>3, <1>4, <1>7, <1>8 DEF RubricsHold

-----------------------------------------------------------------------------
(* Planning together. *)

PlanningInv == ProgressInv /\ PlanInv /\ RatingInv

LEMMA PlanningStart == PlanningInit => PlanningInv
BY ProgressStart, PlanStart, RatingStart DEF PlanningInv

LEMMA PlanningStep ==
    ASSUME PlanningInv, PlanningNext \/ UNCHANGED planningVars
    PROVE  PlanningInv'
<1>1. CASE ProgressNext
  <2>1. UNCHANGED planVars /\ UNCHANGED ratingVars
    BY <1>1 DEF ProgressNext
  <2> QED
    BY Zenon, <1>1, <2>1, ProgressStep, PlanStutter, RatingStutter DEF PlanningInv
<1>2. CASE PlanNext
  <2>1. UNCHANGED progressVars /\ UNCHANGED ratingVars
    BY <1>2 DEF PlanNext
  <2> QED
    BY Zenon, <1>2, <2>1, PlanStep, ProgressStutter, RatingStutter DEF PlanningInv
<1>3. CASE RatingNext
  <2>1. UNCHANGED progressVars /\ UNCHANGED planVars
    BY <1>3 DEF RatingNext
  <2> QED
    BY Zenon, <1>3, <2>1, RatingStep, ProgressStutter, PlanStutter DEF PlanningInv
<1>4. CASE UNCHANGED planningVars
  <2>1. UNCHANGED progressVars /\ UNCHANGED planVars /\ UNCHANGED ratingVars
    BY <1>4 DEF planningVars
  <2> QED
    BY Zenon, <2>1, ProgressStutter, PlanStutter, RatingStutter DEF PlanningInv
<1> QED
  BY <1>1, <1>2, <1>3, <1>4 DEF PlanningNext

LEMMA PlanningTypes == PlanningInv => PlanningTypeOK
<1> SUFFICES ASSUME PlanningInv PROVE PlanningTypeOK
  OBVIOUS
<1>1. /\ iterations \in Seq(Outcomes) /\ Len(iterations) <= MaxHistory
      /\ actionCounts \in [Actions -> 0..MaxIterations]
      /\ errorCounts \in [Actions -> 0..MaxIterations]
  BY ProgressTypes DEF PlanningInv
<1>2. weights \in Weightings \cup {NoWeights} /\ rated.output \in Outputs
  BY DEF PlanningInv, RatingInv, WeightsAddUp
<1>3. /\ plan.risk \in {"none", "low", "medium", "high", "critical"}
      /\ recovery \in {"none yet", "none", "exhausted"}
  BY DEF PlanningInv, PlanInv
<1> QED
  BY Zenon, <1>1, <1>2, <1>3 DEF PlanningTypeOK

LEMMA PlanningIsRight == PlanningInv => StallsAreSeen /\ PlansAreNotReady /\ RubricsHold
BY ProgressIsSeen, PlanIsRight, RatingIsRight DEF PlanningInv

-----------------------------------------------------------------------------
(* The choice of a strategy (cognition/strategy.py), step by step. *)

LEMMA StrategyNamesAre ==
    /\ StrategyNames = {"direct", "planner", "multi_agent", "research"}
    /\ DOMAIN StrategyTypes = {1, 2, 3, 4}
    /\ StrategyTypes[1] = "direct" /\ StrategyTypes[2] = "planner"
    /\ StrategyTypes[3] = "multi_agent" /\ StrategyTypes[4] = "research"
<1>1. /\ StrategyTypes[1] = "direct" /\ StrategyTypes[2] = "planner"
      /\ StrategyTypes[3] = "multi_agent" /\ StrategyTypes[4] = "research"
  BY DEF StrategyTypes
<1>2. DOMAIN StrategyTypes = 1..4
  BY DEF StrategyTypes
<1>3. 1..4 = {1, 2, 3, 4}
  OBVIOUS
<1>4. StrategyNames = {"direct", "planner", "multi_agent", "research"}
  BY <1>1, <1>2, <1>3 DEF StrategyNames
<1> QED
  BY <1>1, <1>2, <1>3, <1>4

(* The highest is the first of those with the highest score. *)
IsHighest(s, i) ==
    \A j \in DOMAIN StrategyTypes :
        /\ s[StrategyTypes[i]] >= s[StrategyTypes[j]]
        /\ j < i => s[StrategyTypes[i]] > s[StrategyTypes[j]]

LEMMA SomeIsHighest ==
    ASSUME NEW s \in [StrategyNames -> Nat]
    PROVE  \E i \in DOMAIN StrategyTypes : IsHighest(s, i)
<1>1. /\ DOMAIN StrategyTypes = {1, 2, 3, 4}
      /\ StrategyTypes[1] = "direct" /\ StrategyTypes[2] = "planner"
      /\ StrategyTypes[3] = "multi_agent" /\ StrategyTypes[4] = "research"
  BY StrategyNamesAre
<1>2. PICK d \in Nat, p \in Nat, m \in Nat, r \in Nat :
          s["direct"] = d /\ s["planner"] = p /\ s["multi_agent"] = m /\ s["research"] = r
  BY StrategyNamesAre
<1>3. CASE d >= p /\ d >= m /\ d >= r
  <2>1. IsHighest(s, 1)
    BY <1>1, <1>2, <1>3 DEF IsHighest
  <2> QED
    BY <1>1, <2>1
<1>4. CASE p > d /\ p >= m /\ p >= r
  <2>1. IsHighest(s, 2)
    BY <1>1, <1>2, <1>4 DEF IsHighest
  <2> QED
    BY <1>1, <2>1
<1>5. CASE m > d /\ m > p /\ m >= r
  <2>1. IsHighest(s, 3)
    BY <1>1, <1>2, <1>5 DEF IsHighest
  <2> QED
    BY <1>1, <2>1
<1>6. CASE r > d /\ r > p /\ r > m
  <2>1. IsHighest(s, 4)
    BY <1>1, <1>2, <1>6 DEF IsHighest
  <2> QED
    BY <1>1, <2>1
<1>7. \/ d >= p /\ d >= m /\ d >= r
      \/ p > d /\ p >= m /\ p >= r
      \/ m > d /\ m > p /\ m >= r
      \/ r > d /\ r > p /\ r > m
  OBVIOUS
<1> QED
  BY <1>3, <1>4, <1>5, <1>6, <1>7

LEMMA HighestIs ==
    ASSUME NEW s \in [StrategyNames -> Nat], NEW t, t = Highest(s)
    PROVE  /\ t \in StrategyNames /\ \A u \in StrategyNames : s[t] >= s[u]
           /\ t # "direct" => s[t] > s["direct"]
           /\ t \in {"multi_agent", "research"} => s[t] > s["planner"]
<1>1. PICK i : i = CHOOSE k \in DOMAIN StrategyTypes : IsHighest(s, k)
  OBVIOUS
<1>2. i \in DOMAIN StrategyTypes /\ IsHighest(s, i)
  BY <1>1, SomeIsHighest
<1>3. t = StrategyTypes[i]
  BY <1>1 DEF Highest, IsHighest
<1>4. /\ DOMAIN StrategyTypes = {1, 2, 3, 4}
      /\ StrategyTypes[1] = "direct" /\ StrategyTypes[2] = "planner"
      /\ StrategyTypes[3] = "multi_agent" /\ StrategyTypes[4] = "research"
      /\ StrategyNames = {"direct", "planner", "multi_agent", "research"}
  BY StrategyNamesAre
<1>5. /\ s[t] >= s["direct"] /\ s[t] >= s["planner"] /\ s[t] >= s["multi_agent"] /\ s[t] >= s["research"]
      /\ 1 < i => s[t] > s["direct"]
      /\ 2 < i => s[t] > s["planner"]
  BY <1>2, <1>3, <1>4 DEF IsHighest
<1>6. i \in {1, 2, 3, 4}
  BY <1>2, <1>4
<1>7. t # "direct" => 1 < i
  BY <1>3, <1>4, <1>6
<1>8. t \in {"multi_agent", "research"} => 2 < i
  BY <1>3, <1>4, <1>6
<1>9. t \in StrategyNames
  BY <1>3, <1>4, <1>6
<1> QED
  BY <1>4, <1>5, <1>7, <1>8, <1>9

-----------------------------------------------------------------------------
(* What the keywords give. *)
LEMMA HitsScore ==
    ASSUME NEW hits \in [StrategyNames -> KeywordCounts], NEW s, s = ScoreStrategies(hits)
    PROVE  /\ s \in [StrategyNames -> 0..900]
           /\ \A t \in StrategyNames :
                 /\ hits[t] \in Nat
                 /\ s[t] > 750 => hits[t] >= 4
                 /\ s[t] > 500 => hits[t] >= 3
                 /\ hits[t] >= 3 => s[t] >= 750
                 /\ hits[t] >= 2 => s[t] >= 500
           /\ (\A t \in StrategyNames : hits[t] = 0) =>
                 s["direct"] = 500 /\ \A t \in StrategyNames \ {"direct"} : s[t] = 0
<1>1. \A t \in StrategyNames : hits[t] \in Nat
  <2>1. KeywordCounts \subseteq Nat
    BY JudgementAssumption
  <2> QED
    BY <2>1
<1>2. s = [t \in StrategyNames |->
              IF hits[t] > 0 THEN (IF hits[t] * 250 > 900 THEN 900 ELSE hits[t] * 250)
              ELSE IF t = "direct" /\ \A u \in StrategyNames : hits[u] = 0 THEN 500 ELSE 0]
  BY DEF ScoreStrategies
<1>3. ASSUME NEW t \in StrategyNames
      PROVE  /\ s[t] \in 0..900
             /\ s[t] > 750 => hits[t] >= 4
             /\ s[t] > 500 => hits[t] >= 3
             /\ hits[t] >= 3 => s[t] >= 750
             /\ hits[t] >= 2 => s[t] >= 500
  <2>1. PICK n \in Nat : n = hits[t]
    BY <1>1
  <2>2. CASE n > 0
    <3>1. s[t] = IF n * 250 > 900 THEN 900 ELSE n * 250
      BY <1>2, <2>1, <2>2
    <3> QED
      BY <2>1, <2>2, <3>1
  <2>3. CASE ~(n > 0)
    <3>1. s[t] \in {0, 500}
      BY <1>2, <2>1, <2>3
    <3> QED
      BY <2>1, <2>3, <3>1
  <2> QED
    BY <2>2, <2>3
<1>4. s \in [StrategyNames -> 0..900]
  BY <1>2, <1>3
<1>5. ASSUME \A t \in StrategyNames : hits[t] = 0
      PROVE  s["direct"] = 500 /\ \A t \in StrategyNames \ {"direct"} : s[t] = 0
  <2>1. "direct" \in StrategyNames
    BY StrategyNamesAre
  <2>2. \A t \in StrategyNames : ~(hits[t] > 0)
    BY <1>5
  <2> QED
    BY <1>2, <1>5, <2>1, <2>2
<1> QED
  BY <1>1, <1>3, <1>4, <1>5

LEMMA Tenths ==
    ASSUME NEW n \in Nat
    PROVE  /\ (n * 5) \div 10 \in Nat /\ (n * 7) \div 10 \in Nat /\ (n * 6) \div 10 \in Nat
           /\ (n * 5) \div 10 <= n /\ (n * 7) \div 10 <= n /\ (n * 6) \div 10 <= n
           /\ n <= 900 => (n * 5) \div 10 <= 450
OBVIOUS

LEMMA ContextIs ==
    ASSUME NEW c \in Contexts
    PROVE  /\ c.given \in BOOLEAN /\ c.poor \in BOOLEAN /\ c.fewTools \in BOOLEAN
           /\ c.preferred \in StrategyNames \cup {"none"}
           /\ ~c.given => c.preferred = "none" /\ ~c.poor /\ ~c.fewTools
BY DEF Contexts

(* Scores before the last adjustment are thousandths below 900. *)
Scale == 0..900

LEMMA OnScale == \A x \in Scale : x \in Nat /\ x <= 900
BY DEF Scale

LEMMA ScaleIs ==
    ASSUME NEW x \in Scale
    PROVE  /\ AtLeast(x, 800) \in Scale /\ AtLeast(x, 700) \in Scale
           /\ (x * 5) \div 10 \in Scale /\ (x * 5) \div 10 <= x /\ (x * 5) \div 10 <= 450
           /\ (x * 7) \div 10 \in Scale /\ (x * 7) \div 10 <= x
           /\ (x * 6) \div 10 \in Scale /\ (x * 6) \div 10 <= x
<1>1. x \in Nat /\ x <= 900
  BY DEF Scale
<1>2. AtLeast(x, 800) \in Scale /\ AtLeast(x, 700) \in Scale
  BY <1>1 DEF AtLeast, Scale
<1>3. /\ (x * 5) \div 10 \in Nat /\ (x * 7) \div 10 \in Nat /\ (x * 6) \div 10 \in Nat
      /\ (x * 5) \div 10 <= x /\ (x * 7) \div 10 <= x /\ (x * 6) \div 10 <= x
      /\ (x * 5) \div 10 <= 450
  BY <1>1, Tenths
<1>4. \A y \in Nat : y <= x => y \in Scale
  BY <1>1 DEF Scale
<1> QED
  BY <1>2, <1>3, <1>4

(* What the context changes of the scores. *)
LEMMA ContextApplied ==
    ASSUME NEW s \in [StrategyNames -> Scale], NEW c \in Contexts, NEW together \in BOOLEAN,
           NEW t, t = ApplyContext(s, c, together)
    PROVE  /\ t \in [StrategyNames -> Scale]
           /\ t["direct"] = IF c.preferred = "direct" THEN AtLeast(s["direct"], 800) ELSE s["direct"]
           /\ t["planner"] = IF c.preferred = "planner" THEN AtLeast(s["planner"], 800) ELSE s["planner"]
           /\ c.preferred # "research" => t["research"] <= s["research"]
           /\ c.preferred # "multi_agent" =>
                 t["multi_agent"] <= (IF together THEN AtLeast(s["multi_agent"], 700) ELSE s["multi_agent"])
           /\ c.poor /\ ~together => t["multi_agent"] <= 450
           /\ ~c.given => t = s
<1>1. StrategyNames = {"direct", "planner", "multi_agent", "research"}
  BY StrategyNamesAre
<1>2. PICK d \in Scale, p \in Scale, m \in Scale, r \in Scale :
          s["direct"] = d /\ s["planner"] = p /\ s["multi_agent"] = m /\ s["research"] = r
  BY <1>1
<1>3. /\ c.given \in BOOLEAN /\ c.poor \in BOOLEAN /\ c.fewTools \in BOOLEAN
      /\ ~c.given => c.preferred = "none" /\ ~c.poor /\ ~c.fewTools
  BY ContextIs
<1>4. CASE ~c.given
  <2>1. t = s
    BY <1>4 DEF ApplyContext
  <2>2. c.preferred = "none" /\ ~c.poor
    BY <1>3, <1>4
  <2>3. t["research"] <= s["research"]
    BY <1>2, <2>1 DEF Scale
  <2>4. t["multi_agent"] <= (IF together THEN AtLeast(s["multi_agent"], 700) ELSE s["multi_agent"])
    BY <1>2, <2>1 DEF Scale, AtLeast
  <2> QED
    BY <2>1, <2>2, <2>3, <2>4
<1>5. CASE c.given
  <2> DEFINE a == [u \in StrategyNames |-> IF u = c.preferred THEN AtLeast(s[u], 800) ELSE s[u]]
             b == IF ~c.poor THEN a
                  ELSE [a EXCEPT !["multi_agent"] = (@ * 5) \div 10,
                                 !["research"] = (@ * 7) \div 10]
             e == IF c.fewTools THEN [b EXCEPT !["multi_agent"] = (@ * 6) \div 10] ELSE b
  <2>16. ApplyContext(s, c, together) =
            IF ~c.given THEN s
            ELSE IF together THEN [e EXCEPT !["multi_agent"] = AtLeast(@, 700)] ELSE e
    BY DEF ApplyContext
  <2>1. a = [u \in StrategyNames |-> IF u = c.preferred THEN AtLeast(s[u], 800) ELSE s[u]]
    OBVIOUS
  <2>4. b = IF ~c.poor THEN a
            ELSE [a EXCEPT !["multi_agent"] = (@ * 5) \div 10,
                           !["research"] = (@ * 7) \div 10]
    OBVIOUS
  <2>7. e = IF c.fewTools THEN [b EXCEPT !["multi_agent"] = (@ * 6) \div 10] ELSE b
    OBVIOUS
  <2> HIDE DEF a, b, e
  <2>11. t = IF together THEN [e EXCEPT !["multi_agent"] = AtLeast(@, 700)] ELSE e
    BY <1>5, <2>16
  <2>2. PICK d1 \in Scale, p1 \in Scale, m1 \in Scale, r1 \in Scale :
            /\ d1 = IF c.preferred = "direct" THEN AtLeast(d, 800) ELSE d
            /\ p1 = IF c.preferred = "planner" THEN AtLeast(p, 800) ELSE p
            /\ m1 = IF c.preferred = "multi_agent" THEN AtLeast(m, 800) ELSE m
            /\ r1 = IF c.preferred = "research" THEN AtLeast(r, 800) ELSE r
    <3>1. \A x \in Scale : AtLeast(x, 800) \in Scale
      BY ScaleIs
    <3> QED
      BY <3>1
  <2>3. /\ a \in [StrategyNames -> Scale]
        /\ a["direct"] = d1 /\ a["planner"] = p1 /\ a["multi_agent"] = m1 /\ a["research"] = r1
    BY <1>1, <1>2, <2>1, <2>2
  <2>5. PICK m2 \in Scale, r2 \in Scale :
            /\ m2 = IF c.poor THEN (m1 * 5) \div 10 ELSE m1
            /\ r2 = IF c.poor THEN (r1 * 7) \div 10 ELSE r1
            /\ m2 <= m1 /\ r2 <= r1 /\ (c.poor => m2 <= 450)
    <3>1. PICK x \in Scale, y \in Scale :
              x = (m1 * 5) \div 10 /\ y = (r1 * 7) \div 10 /\ x <= m1 /\ y <= r1 /\ x <= 450
      BY ScaleIs
    <3>2. m1 <= m1 /\ r1 <= r1
      BY DEF Scale
    <3>3. CASE c.poor
      BY <3>1, <3>3
    <3>4. CASE ~c.poor
      BY <3>2, <3>4
    <3> QED
      BY <3>3, <3>4
  <2>6. /\ b \in [StrategyNames -> Scale]
        /\ b["direct"] = d1 /\ b["planner"] = p1 /\ b["multi_agent"] = m2 /\ b["research"] = r2
    <3>1. CASE c.poor
      <4>1. b = [a EXCEPT !["multi_agent"] = m2, !["research"] = r2]
        BY <2>3, <2>4, <2>5, <3>1
      <4> QED
        BY <1>1, <2>3, <4>1
    <3>2. CASE ~c.poor
      BY <2>3, <2>4, <2>5, <3>2
    <3> QED
      BY <3>1, <3>2
  <2>8. PICK m3 \in Scale : m3 = (IF c.fewTools THEN (m2 * 6) \div 10 ELSE m2) /\ m3 <= m2
    <3>1. PICK x \in Scale : x = (m2 * 6) \div 10 /\ x <= m2
      BY ScaleIs
    <3>2. m2 <= m2
      BY DEF Scale
    <3> QED
      BY <3>1, <3>2
  <2>9. /\ e \in [StrategyNames -> Scale]
        /\ e["direct"] = d1 /\ e["planner"] = p1 /\ e["multi_agent"] = m3 /\ e["research"] = r2
    <3>1. CASE c.fewTools
      <4>1. e = [b EXCEPT !["multi_agent"] = m3]
        BY <2>6, <2>7, <2>8, <3>1
      <4> QED
        BY <1>1, <2>6, <4>1
    <3>2. CASE ~c.fewTools
      BY <2>6, <2>7, <2>8, <3>2
    <3> QED
      BY <3>1, <3>2
  <2>a. m3 \in Nat /\ m2 \in Nat /\ m1 \in Nat /\ m \in Nat /\ m3 <= m2 /\ m2 <= m1
    BY <2>5, <2>8, OnScale
  <2>b. PICK h \in Scale : h = AtLeast(m3, 700)
    BY ScaleIs
  <2>10. PICK m4 \in Scale : (together => m4 = h) /\ (~together => m4 = m3)
    <3>1. CASE together
      BY <3>1
    <3>2. CASE ~together
      BY <3>2
    <3> QED
      BY Zenon, <3>1, <3>2
  <2>12. /\ t \in [StrategyNames -> Scale]
         /\ t["direct"] = d1 /\ t["planner"] = p1 /\ t["multi_agent"] = m4 /\ t["research"] = r2
    <3>1. CASE together
      <4>1. t = [e EXCEPT !["multi_agent"] = m4]
        BY <2>9, <2>b, <2>10, <2>11, <3>1
      <4> QED
        BY <1>1, <2>9, <4>1
    <3>2. CASE ~together
      <4>1. t = e /\ m4 = m3
        BY <2>10, <2>11, <3>2
      <4> QED
        BY <2>9, <4>1
    <3> QED
      BY <3>1, <3>2
  <2>13. c.preferred # "multi_agent" => m4 <= (IF together THEN AtLeast(m, 700) ELSE m)
    <3> SUFFICES ASSUME c.preferred # "multi_agent"
                 PROVE  m4 <= (IF together THEN AtLeast(m, 700) ELSE m)
      OBVIOUS
    <3>1. m1 = m
      BY <2>2
    <3>2. m3 <= m /\ AtLeast(m3, 700) <= AtLeast(m, 700)
      BY <2>a, <3>1 DEF AtLeast
    <3>3. CASE together
      BY <2>b, <2>10, <3>2, <3>3
    <3>4. CASE ~together
      BY <2>10, <3>2, <3>4
    <3> QED
      BY <3>3, <3>4
  <2>14. c.poor /\ ~together => m4 <= 450
    <3> SUFFICES ASSUME c.poor, ~together PROVE m4 <= 450
      OBVIOUS
    <3>1. m2 <= 450 /\ m4 = m3
      BY <2>5, <2>10
    <3> QED
      BY <2>a, <3>1
  <2>15. c.preferred # "research" => r2 <= r
    <3>1. r2 <= r1
      BY <2>5
    <3>2. c.preferred # "research" => r1 = r
      BY <2>2
    <3> QED
      BY <3>1, <3>2
  <2> QED
    BY <1>2, <1>5, <2>2, <2>12, <2>13, <2>14, <2>15
<1> QED
  BY <1>4, <1>5

LEMMA BoostedIs ==
    ASSUME NEW s \in [StrategyNames -> Scale], NEW n \in Nat, NEW t, t = Boosted(s, n)
    PROVE  /\ t \in [StrategyNames -> Nat]
           /\ t["direct"] = s["direct"] /\ t["research"] = s["research"]
           /\ t["planner"] = (IF n >= Threshold /\ s["planner"] < 700 THEN s["planner"] + 200 ELSE s["planner"])
           /\ t["multi_agent"] = (IF n >= Threshold + 1 THEN s["multi_agent"] + 150 ELSE s["multi_agent"])
<1>1. StrategyNames = {"direct", "planner", "multi_agent", "research"}
  BY StrategyNamesAre
<1>2. PICK p \in Nat : p = IF n >= Threshold /\ s["planner"] < 700 THEN s["planner"] + 200 ELSE s["planner"]
  <2>1. s["planner"] \in Nat
    BY <1>1 DEF Scale
  <2> QED
    BY <2>1
<1>3. PICK m \in Nat : m = IF n >= Threshold + 1 THEN s["multi_agent"] + 150 ELSE s["multi_agent"]
  <2>1. s["multi_agent"] \in Nat
    BY <1>1 DEF Scale
  <2> QED
    BY <2>1
<1>4. t = [s EXCEPT !["planner"] = p, !["multi_agent"] = m]
  BY <1>2, <1>3 DEF Boosted
<1>5. \A u \in StrategyNames : s[u] \in Nat
  BY DEF Scale
<1> QED
  BY <1>1, <1>2, <1>3, <1>4, <1>5

-----------------------------------------------------------------------------
(* The strategy chosen for a goal fits it. *)

Choice(g, c) ==
    Highest(Boosted(ApplyContext(ScoreStrategies(g.hits), c, g.parallel), g.complexity))

(* The scores the choice is made of: of the keywords, in the context, in all. *)
LEMMA ChoiceIs ==
    ASSUME NEW g \in Goal, NEW c \in Contexts, NEW choice, choice = Choice(g, c)
    PROVE  \E s, a, b \in [StrategyNames -> Nat] :
              /\ s = ScoreStrategies(g.hits) /\ s \in [StrategyNames -> Scale]
              /\ a = ApplyContext(s, c, g.parallel) /\ a \in [StrategyNames -> Scale]
              /\ b = Boosted(a, g.complexity)
              /\ choice = Highest(b)
<1>1. /\ g.hits \in [StrategyNames -> KeywordCounts] /\ g.complexity \in SignCounts
      /\ g.parallel \in BOOLEAN
  BY DEF Goal
<1>2. g.complexity \in Nat
  <2>1. SignCounts \subseteq Nat
    BY JudgementAssumption
  <2> QED
    BY <1>1, <2>1
<1>3. Scale \subseteq Nat
  BY DEF Scale
<1>4. PICK s \in [StrategyNames -> Scale] : s = ScoreStrategies(g.hits)
  BY <1>1, HitsScore DEF Scale
<1>5. PICK a \in [StrategyNames -> Scale] : a = ApplyContext(s, c, g.parallel)
  <2>1. s \in [StrategyNames -> 0..900]
    BY DEF Scale
  <2> QED
    BY <1>1, ContextApplied
<1>6. PICK b \in [StrategyNames -> Nat] : b = Boosted(a, g.complexity)
  BY <1>2, BoostedIs
<1>7. choice = Highest(b)
  BY <1>4, <1>5, <1>6 DEF Choice
<1>8. s \in [StrategyNames -> Nat] /\ a \in [StrategyNames -> Nat]
  BY <1>3
<1> QED
  BY <1>4, <1>5, <1>6, <1>7, <1>8

LEMMA ChoiceFits ==
    ASSUME NEW g \in Goal, NEW c \in Contexts, NEW choice, choice = Choice(g, c)
    PROVE  /\ choice \in StrategyNames
           /\ (\A t \in StrategyNames : g.hits[t] = 0) /\ ~c.given /\ g.complexity <= Threshold
                 => choice = "direct"
           /\ c.preferred \in {"direct", "planner"} =>
                 \/ choice = c.preferred \/ g.hits[choice] >= 4
                 \/ choice = "multi_agent" /\ g.complexity > Threshold
                      /\ (g.parallel \/ g.hits[choice] >= 3)
           /\ c.poor /\ ~g.parallel /\ choice = "multi_agent" =>
                 g.hits["planner"] <= 1 /\ g.hits["direct"] <= 2
<1>1. PICK s \in [StrategyNames -> Scale], a \in [StrategyNames -> Scale], b \in [StrategyNames -> Nat] :
          /\ s = ScoreStrategies(g.hits)
          /\ a = ApplyContext(s, c, g.parallel) /\ b = Boosted(a, g.complexity)
          /\ choice = Highest(b)
  BY ChoiceIs
<1>2. g.hits \in [StrategyNames -> KeywordCounts] /\ g.complexity \in SignCounts /\ g.parallel \in BOOLEAN
  BY DEF Goal
<1>3. PICK n \in Nat, bound \in Nat : n = g.complexity /\ bound = Threshold
  <2>1. SignCounts \subseteq Nat /\ Threshold \in Nat
    BY JudgementAssumption
  <2> QED
    BY <1>2, <2>1
<1>4. StrategyNames = {"direct", "planner", "multi_agent", "research"}
  BY StrategyNamesAre
<1>5. /\ \A t \in StrategyNames :
            /\ g.hits[t] \in Nat
            /\ s[t] > 750 => g.hits[t] >= 4
            /\ s[t] > 500 => g.hits[t] >= 3
            /\ g.hits[t] >= 3 => s[t] >= 750
            /\ g.hits[t] >= 2 => s[t] >= 500
      /\ (\A t \in StrategyNames : g.hits[t] = 0) =>
            s["direct"] = 500 /\ \A t \in StrategyNames \ {"direct"} : s[t] = 0
  BY <1>1, <1>2, HitsScore
<1>6. /\ a["direct"] = IF c.preferred = "direct" THEN AtLeast(s["direct"], 800) ELSE s["direct"]
      /\ a["planner"] = IF c.preferred = "planner" THEN AtLeast(s["planner"], 800) ELSE s["planner"]
      /\ c.preferred # "research" => a["research"] <= s["research"]
      /\ c.preferred # "multi_agent" =>
            a["multi_agent"] <= (IF g.parallel THEN AtLeast(s["multi_agent"], 700) ELSE s["multi_agent"])
      /\ c.poor /\ ~g.parallel => a["multi_agent"] <= 450
      /\ ~c.given => a = s
  BY <1>1, <1>2, ContextApplied
<1>7. /\ b["direct"] = a["direct"] /\ b["research"] = a["research"]
      /\ b["planner"] = (IF n >= bound /\ a["planner"] < 700 THEN a["planner"] + 200 ELSE a["planner"])
      /\ b["multi_agent"] = (IF n >= bound + 1 THEN a["multi_agent"] + 150 ELSE a["multi_agent"])
  <2>1. b = Boosted(a, n)
    BY <1>1, <1>3
  <2>2. /\ b["direct"] = a["direct"] /\ b["research"] = a["research"]
        /\ b["planner"] = (IF n >= Threshold /\ a["planner"] < 700 THEN a["planner"] + 200 ELSE a["planner"])
        /\ b["multi_agent"] = (IF n >= Threshold + 1 THEN a["multi_agent"] + 150 ELSE a["multi_agent"])
    BY <2>1, BoostedIs
  <2> QED
    BY <2>2, <1>3
<1>8. /\ choice \in StrategyNames /\ \A u \in StrategyNames : b[choice] >= b[u]
      /\ choice # "direct" => b[choice] > b["direct"]
      /\ choice \in {"multi_agent", "research"} => b[choice] > b["planner"]
  BY <1>1, HighestIs
<1>0. /\ s["direct"] \in Scale /\ s["planner"] \in Scale
      /\ s["multi_agent"] \in Scale /\ s["research"] \in Scale
      /\ a["multi_agent"] \in Scale /\ a["research"] \in Scale
  BY <1>4
<1>a. PICK d \in Nat : d = s["direct"] /\ d <= 900
  BY <1>0, OnScale
<1>b. PICK p \in Nat : p = s["planner"] /\ p <= 900
  BY <1>0, OnScale
<1>c. PICK m \in Nat : m = s["multi_agent"] /\ m <= 900
  BY <1>0, OnScale
<1>d. PICK r \in Nat : r = s["research"] /\ r <= 900
  BY <1>0, OnScale
<1>e. PICK m1 \in Nat : m1 = a["multi_agent"] /\ m1 <= 900
  BY <1>0, OnScale
<1>f. PICK r1 \in Nat : r1 = a["research"] /\ r1 <= 900
  BY <1>0, OnScale
<1>9. ASSUME \A t \in StrategyNames : g.hits[t] = 0, ~c.given, g.complexity <= Threshold
      PROVE  choice = "direct"
  <2>1. d = 500 /\ p = 0 /\ m = 0 /\ r = 0
    BY <1>4, <1>5, <1>9, <1>a, <1>b, <1>c, <1>d
  <2>2. a["direct"] = 500 /\ a["planner"] = 0 /\ a["multi_agent"] = 0 /\ a["research"] = 0
    BY <1>6, <1>9, <2>1, <1>a, <1>b, <1>c, <1>d
  <2>3. ~(n >= bound + 1)
    BY <1>3, <1>9
  <2>4. b["direct"] = 500 /\ b["planner"] \in {0, 200} /\ b["multi_agent"] = 0 /\ b["research"] = 0
    BY <1>7, <2>2, <2>3
  <2>5. choice \in {"direct", "planner", "multi_agent", "research"} /\ (choice # "direct" => b[choice] > 500)
    BY <1>4, <1>8, <2>4
  <2> QED
    BY <2>4, <2>5
<1>10. ASSUME c.preferred \in {"direct", "planner"}
       PROVE  \/ choice = c.preferred \/ g.hits[choice] >= 4
              \/ choice = "multi_agent" /\ g.complexity > Threshold
                   /\ (g.parallel \/ g.hits[choice] >= 3)
  <2>1. m1 <= (IF g.parallel THEN AtLeast(m, 700) ELSE m) /\ r1 <= r
    BY <1>6, <1>10, <1>c, <1>d, <1>e, <1>f
  <2>2. c.preferred = "direct" => b["direct"] >= 800 /\ a["planner"] = p
    BY <1>6, <1>7, <1>a, <1>b DEF AtLeast
  <2>3. c.preferred = "planner" => b["planner"] >= 800 /\ a["direct"] = d
    <3> SUFFICES ASSUME c.preferred = "planner" PROVE b["planner"] >= 800 /\ a["direct"] = d
      OBVIOUS
    <3>1. PICK q \in Nat : q = AtLeast(p, 800) /\ q >= 800
      BY DEF AtLeast
    <3>2. a["planner"] = q /\ a["direct"] = d
      BY <1>6, <1>a, <1>b, <3>1
    <3>3. b["planner"] = q
      BY <1>7, <3>1, <3>2
    <3> QED
      BY <3>1, <3>2, <3>3
  <2>4. CASE choice = "direct" /\ c.preferred = "planner"
    <3>1. b["direct"] >= b["planner"]
      BY <1>4, <1>8, <2>4
    <3>2. b["direct"] = d
      BY <1>7, <2>3, <2>4
    <3>3. d > 750
      <4>1. b["planner"] \in Nat
        BY <1>4
      <4> QED
        BY <2>3, <2>4, <3>1, <3>2, <4>1
    <3> QED
      BY <1>4, <1>5, <1>a, <2>4, <3>3
  <2>5. CASE choice = "planner" /\ c.preferred = "direct"
    <3>1. b["planner"] > b["direct"]
      BY <1>8, <2>5
    <3>2. b["planner"] > 800
      <4>1. b["planner"] \in Nat /\ b["direct"] \in Nat
        BY <1>4
      <4> QED
        BY <2>2, <2>5, <3>1, <4>1
    <3>3. b["planner"] = IF n >= bound /\ p < 700 THEN p + 200 ELSE p
      BY <1>7, <2>2, <2>5
    <3>4. p > 600
      BY <3>2, <3>3
    <3>5. p > 750
      <4>1. g.hits["planner"] >= 3
        BY <1>4, <1>5, <1>b, <3>4
      <4>2. p >= 750
        BY <1>4, <1>5, <1>b, <4>1
      <4> QED
        BY <3>2, <3>3, <4>2
    <3> QED
      BY <1>4, <1>5, <1>b, <2>5, <3>5
  <2>6. CASE choice = "research"
    <3>1. b["research"] = r1 /\ b["research"] >= b["direct"] /\ b["research"] >= b["planner"]
      BY <1>4, <1>7, <1>8, <1>f, <2>6
    <3>2. r1 >= 800
      <4>1. b["planner"] \in Nat /\ b["direct"] \in Nat
        BY <1>4
      <4> QED
        BY <1>10, <2>2, <2>3, <3>1, <4>1
    <3>3. r > 750
      BY <2>1, <3>2
    <3> QED
      BY <1>4, <1>5, <1>d, <2>6, <3>3
  <2>7. CASE choice = "multi_agent"
    <3>1. b["multi_agent"] > b["direct"] /\ b["multi_agent"] > b["planner"]
      BY <1>8, <2>7
    <3>2. b["multi_agent"] > 800
      <4>1. b["planner"] \in Nat /\ b["direct"] \in Nat /\ b["multi_agent"] \in Nat
        BY <1>4
      <4> QED
        BY <1>10, <2>2, <2>3, <3>1, <4>1
    <3>3. b["multi_agent"] = IF n >= bound + 1 THEN m1 + 150 ELSE m1
      BY <1>7, <1>e
    <3>4. CASE n >= bound + 1
      <4>1. m1 > 650 /\ n > bound
        BY <3>2, <3>3, <3>4
      <4>2. CASE g.parallel
        BY <1>3, <2>7, <4>1, <4>2
      <4>3. CASE ~g.parallel
        <5>1. m > 500
          BY <2>1, <4>1, <4>3
        <5>2. g.hits[choice] >= 3
          BY <1>4, <1>5, <1>c, <2>7, <5>1
        <5> QED
          BY <1>3, <2>7, <4>1, <5>2
      <4> QED
        BY <4>2, <4>3
    <3>5. CASE ~(n >= bound + 1)
      <4>1. m1 > 800
        BY <3>2, <3>3, <3>5
      <4>2. m > 750
        BY <2>1, <4>1 DEF AtLeast
      <4> QED
        BY <1>4, <1>5, <1>c, <2>7, <4>2
    <3> QED
      BY <3>4, <3>5
  <2> QED
    BY <1>4, <1>8, <1>10, <2>4, <2>5, <2>6, <2>7
<1>11. ASSUME c.poor, ~g.parallel, choice = "multi_agent"
       PROVE  g.hits["planner"] <= 1 /\ g.hits["direct"] <= 2
  <2>1. m1 <= 450
    BY <1>6, <1>11, <1>e
  <2>2. PICK bm \in Nat : bm = b["multi_agent"] /\ bm <= (IF n >= bound + 1 THEN 600 ELSE 450)
    BY <1>7, <1>e, <2>1
  <2>3. PICK bd \in Nat : bd = b["direct"] /\ bd >= d
    BY <1>6, <1>7, <1>a DEF AtLeast
  <2>4. PICK ap \in Nat : ap = a["planner"] /\ ap >= p
    BY <1>6, <1>b DEF AtLeast
  <2>5. PICK bp \in Nat : bp = b["planner"] /\ bp = IF n >= bound /\ ap < 700 THEN ap + 200 ELSE ap
    BY <1>7, <2>4
  <2>6. bm > bd /\ bm > bp
    BY <1>8, <1>11, <2>2, <2>3, <2>5
  <2>7. d < 750
    BY <2>2, <2>3, <2>6
  <2>8. p < 500
    BY <2>2, <2>4, <2>5, <2>6
  <2>9. ~(g.hits["direct"] >= 3) /\ ~(g.hits["planner"] >= 2)
    BY <1>4, <1>5, <1>a, <1>b, <2>7, <2>8
  <2>10. g.hits["direct"] \in Nat /\ g.hits["planner"] \in Nat
    BY <1>4, <1>5
  <2> QED
    BY <2>9, <2>10
<1> QED
  BY <1>8, <1>9, <1>10, <1>11

-----------------------------------------------------------------------------
(* What was selected is the choice for its goal, and what was compared has  *)
(* the impact of its two contents.                                          *)

StrategyInv ==
    \/ selected = Unselected
    \/ \E g \in Goal, c \in Contexts :
          selected = [goal |-> g, context |-> c, strategy |-> Choice(g, c)]

LEMMA StrategyStart == JudgementInit => StrategyInv
BY DEF JudgementInit, StrategyInv

LEMMA StrategyStep == StrategyInv /\ StrategyNext => StrategyInv'
<1> SUFFICES ASSUME StrategyNext PROVE StrategyInv'
  OBVIOUS
<1>1. PICK g \in Goal, c \in Contexts : SelectStrategy(g, c)
  BY DEF StrategyNext
<1>2. selected' = [goal |-> g, context |-> c, strategy |-> Choice(g, c)]
  BY <1>1 DEF SelectStrategy, Choice
<1> QED
  BY <1>2 DEF StrategyInv

LEMMA StrategyStutter == StrategyInv /\ selected' = selected => StrategyInv'
BY DEF StrategyInv

LEMMA UnselectedIs == Unselected.strategy = "none"
BY DEF Unselected

LEMMA SelectedTypes == StrategyInv => selected.strategy \in StrategyNames \cup {"none"}
<1> SUFFICES ASSUME StrategyInv PROVE selected.strategy \in StrategyNames \cup {"none"}
  OBVIOUS
<1>1. CASE selected = Unselected
  BY <1>1, UnselectedIs
<1>2. ASSUME NEW g \in Goal, NEW c \in Contexts,
             selected = [goal |-> g, context |-> c, strategy |-> Choice(g, c)]
      PROVE  selected.strategy \in StrategyNames \cup {"none"}
  <2>1. PICK choice : choice = Choice(g, c)
    OBVIOUS
  <2>2. choice \in StrategyNames
    BY <2>1, ChoiceFits
  <2>3. selected.strategy = choice
    BY <1>2, <2>1
  <2> QED
    BY <2>2, <2>3
<1> QED
  BY <1>1, <1>2 DEF StrategyInv

LEMMA StrategyFits == StrategyInv => StrategiesFit
<1> SUFFICES ASSUME StrategyInv, selected # Unselected PROVE StrategiesFit
  BY DEF StrategiesFit
<1>1. PICK g \in Goal, c \in Contexts :
         selected = [goal |-> g, context |-> c, strategy |-> Choice(g, c)]
  BY DEF StrategyInv
<1>2. PICK choice : choice = Choice(g, c)
  OBVIOUS
<1>3. selected.goal = g /\ selected.context = c /\ selected.strategy = choice
  BY <1>1, <1>2
<1>4. /\ (\A t \in StrategyNames : g.hits[t] = 0) /\ ~c.given /\ g.complexity <= Threshold
           => choice = "direct"
      /\ c.preferred \in {"direct", "planner"} =>
            \/ choice = c.preferred \/ g.hits[choice] >= 4
            \/ choice = "multi_agent" /\ g.complexity > Threshold
                 /\ (g.parallel \/ g.hits[choice] >= 3)
      /\ c.poor /\ ~g.parallel /\ choice = "multi_agent" =>
            g.hits["planner"] <= 1 /\ g.hits["direct"] <= 2
  BY <1>2, ChoiceFits
<1> QED
  BY Zenon, <1>3, <1>4 DEF StrategiesFit

(* A name that is a function's is found: of its definitions there is a last. *)
LEMMA FoundFunctions ==
    ASSUME NEW f \in Files, NEW n \in FunctionsIn(f)
    PROVE  \E i \in DOMAIN f : FunctionIn(f, n) = f[i]
<1>1. PICK len \in Nat : DOMAIN f = 1..len
  BY JudgementAssumption
<1> DEFINE I == {i \in Functional(f) : f[i].name = n}
<1>2. I \in SUBSET (0..len) /\ I \subseteq DOMAIN f
  BY <1>1 DEF Functional
<1>3. I # {}
  BY DEF FunctionsIn
<1>4. \E x \in I : \A i \in I : i <= x
  <2> HIDE DEF I
  <2> QED
    BY <1>2, <1>3, GreatestOf
<1>5. \E i \in Functional(f) :
         f[i].name = n /\ \A j \in Functional(f) : f[j].name = n => j <= i
  BY <1>4
<1>6. PICK k : k = CHOOSE i \in Functional(f) :
                  f[i].name = n /\ \A j \in Functional(f) : f[j].name = n => j <= i
  OBVIOUS
<1>7. k \in Functional(f)
  BY Zenon, <1>5, <1>6
<1>8. FunctionIn(f, n) = f[k]
  BY <1>6 DEF FunctionIn
<1> QED
  BY <1>7, <1>8 DEF Functional

DiffInv ==
    \/ compared = Uncompared
    \/ \E before \in Files, after \in Files, callers \in BOOLEAN :
          compared = [before |-> before, after |-> after,
             impact |-> ImpactOf(DiffFunctions(before, after), DiffClasses(before, after), callers)]

LEMMA DiffStart == JudgementInit => DiffInv
BY DEF JudgementInit, DiffInv

LEMMA DiffStep == DiffInv /\ DiffNext => DiffInv'
<1> SUFFICES ASSUME DiffNext PROVE DiffInv'
  OBVIOUS
<1>1. PICK before \in Files, after \in Files, callers \in BOOLEAN : CompareFiles(before, after, callers)
  BY DEF DiffNext
<1> QED
  BY Zenon, <1>1 DEF DiffInv, CompareFiles

LEMMA DiffStutter == DiffInv /\ compared' = compared => DiffInv'
BY Zenon DEF DiffInv

LEMMA ImpactIs ==
    ASSUME NEW functions, NEW classes, NEW callers, NEW impact, impact = ImpactOf(functions, classes, callers)
    PROVE  /\ impact \in {"low", "medium", "high", "critical"}
           /\ impact = "low" => DOMAIN functions = {} /\ DOMAIN classes = {}
           /\ impact \in {"high", "critical"} => HasBreakingChanges(functions, classes)
BY DEF ImpactOf

LEMMA UncomparedIs == Uncompared.impact = "none"
BY DEF Uncompared

LEMMA DiffTypes == DiffInv => compared.impact \in {"none", "low", "medium", "high", "critical"}
<1> SUFFICES ASSUME DiffInv PROVE compared.impact \in {"none", "low", "medium", "high", "critical"}
  OBVIOUS
<1>1. CASE compared = Uncompared
  BY <1>1, UncomparedIs
<1>2. ASSUME NEW before \in Files, NEW after \in Files, NEW callers \in BOOLEAN,
             compared = [before |-> before, after |-> after,
                impact |-> ImpactOf(DiffFunctions(before, after), DiffClasses(before, after), callers)]
      PROVE  compared.impact \in {"none", "low", "medium", "high", "critical"}
  <2>1. PICK impact : impact = ImpactOf(DiffFunctions(before, after), DiffClasses(before, after), callers)
    OBVIOUS
  <2>2. impact \in {"low", "medium", "high", "critical"}
    BY <2>1, ImpactIs
  <2>3. compared.impact = impact
    BY <1>2, <2>1
  <2> QED
    BY <2>2, <2>3
<1> QED
  BY <1>1, <1>2 DEF DiffInv

(* What the difference of two contents names. *)
Differences(before, after, functions, classes) ==
    /\ DOMAIN classes = ClassesIn(before) \cup ClassesIn(after)
    /\ DOMAIN functions = {} =>
         /\ FunctionsIn(before) = FunctionsIn(after)
         /\ \A n \in FunctionsIn(before) : FunctionIn(before, n).body = FunctionIn(after, n).body
    /\ \A n \in DOMAIN functions : functions[n] # "added" =>
         /\ n \in FunctionsIn(before)
         /\ n \in FunctionsIn(after) =>
              \/ SignatureChanged(FunctionIn(before, n), FunctionIn(after, n))
              \/ FunctionIn(before, n).body # FunctionIn(after, n).body

LEMMA DifferencesAre ==
    ASSUME NEW before \in Files, NEW after \in Files,
           NEW functions, functions = DiffFunctions(before, after),
           NEW classes, classes = DiffClasses(before, after)
    PROVE  Differences(before, after, functions, classes)
<1> DEFINE D == {n \in FunctionsIn(before) \cup FunctionsIn(after) :
                   n \in FunctionsIn(before) \cap FunctionsIn(after) =>
                     \/ SignatureChanged(FunctionIn(before, n), FunctionIn(after, n))
                     \/ FunctionIn(before, n).body # FunctionIn(after, n).body}
<1>1. functions = [n \in D |-> IF n \notin FunctionsIn(after) THEN "removed"
                               ELSE IF n \notin FunctionsIn(before) THEN "added" ELSE "modified"]
  BY Zenon DEF DiffFunctions
<1>2. DOMAIN functions = D
  BY <1>1
<1>3. DOMAIN classes = ClassesIn(before) \cup ClassesIn(after)
  BY DEF DiffClasses
<1>4. ASSUME DOMAIN functions = {}
      PROVE  /\ FunctionsIn(before) = FunctionsIn(after)
             /\ \A n \in FunctionsIn(before) : FunctionIn(before, n).body = FunctionIn(after, n).body
  <2>1. D = {}
    BY <1>2, <1>4
  <2> QED
    BY <2>1
<1>5. ASSUME NEW n \in DOMAIN functions, functions[n] # "added"
      PROVE  /\ n \in FunctionsIn(before)
             /\ n \in FunctionsIn(after) =>
                  \/ SignatureChanged(FunctionIn(before, n), FunctionIn(after, n))
                  \/ FunctionIn(before, n).body # FunctionIn(after, n).body
  <2>1. n \in D
    BY <1>2, <1>5
  <2>2. functions[n] = IF n \notin FunctionsIn(after) THEN "removed"
                       ELSE IF n \notin FunctionsIn(before) THEN "added" ELSE "modified"
    BY <1>1, <2>1
  <2> QED
    BY <1>5, <2>1, <2>2
<1> QED
  BY <1>3, <1>4, <1>5 DEF Differences

LEMMA DiffIsSafe == DiffInv => SafeChangesAreSafe
<1> SUFFICES ASSUME DiffInv, compared # Uncompared PROVE SafeChangesAreSafe
  BY DEF SafeChangesAreSafe
<1>1. PICK before \in Files, after \in Files, callers \in BOOLEAN :
         compared = [before |-> before, after |-> after,
            impact |-> ImpactOf(DiffFunctions(before, after), DiffClasses(before, after), callers)]
  BY DEF DiffInv
<1>2. PICK functions : functions = DiffFunctions(before, after)
  OBVIOUS
<1>3. PICK classes : classes = DiffClasses(before, after)
  OBVIOUS
<1>4. PICK impact : impact = ImpactOf(functions, classes, callers)
  OBVIOUS
<1>5. compared.before = before /\ compared.after = after /\ compared.impact = impact
  BY <1>1, <1>2, <1>3, <1>4
<1>6. /\ impact = "low" => DOMAIN functions = {} /\ DOMAIN classes = {}
      /\ impact \in {"high", "critical"} => HasBreakingChanges(functions, classes)
  BY <1>4, ImpactIs
<1>7. /\ DOMAIN classes = ClassesIn(before) \cup ClassesIn(after)
      /\ DOMAIN functions = {} =>
           /\ FunctionsIn(before) = FunctionsIn(after)
           /\ \A n \in FunctionsIn(before) : FunctionIn(before, n).body = FunctionIn(after, n).body
      /\ \A n \in DOMAIN functions : functions[n] # "added" =>
           /\ n \in FunctionsIn(before)
           /\ n \in FunctionsIn(after) =>
                \/ SignatureChanged(FunctionIn(before, n), FunctionIn(after, n))
                \/ FunctionIn(before, n).body # FunctionIn(after, n).body
  <2>1. Differences(before, after, functions, classes)
    BY <1>2, <1>3, DifferencesAre
  <2> QED
    BY <2>1 DEF Differences
<1>8. ASSUME ClassesIn(before) \cup ClassesIn(after) = {},
             \A f \in {before, after} : \A i \in DOMAIN f : ~f[i].typed,
             impact \in {"high", "critical"}
      PROVE  \E n \in FunctionsIn(before) :
                n \in FunctionsIn(after) => FunctionIn(before, n).body # FunctionIn(after, n).body
  <2>1. HasBreakingChanges(functions, classes)
    BY <1>6, <1>8
  <2>2. DOMAIN classes = {}
    BY <1>7, <1>8
  <2>3. PICK n \in DOMAIN functions : functions[n] # "added"
    BY <2>1, <2>2 DEF HasBreakingChanges
  <2>4. /\ n \in FunctionsIn(before)
        /\ n \in FunctionsIn(after) =>
             \/ SignatureChanged(FunctionIn(before, n), FunctionIn(after, n))
             \/ FunctionIn(before, n).body # FunctionIn(after, n).body
    BY <1>7, <2>3
  <2>5. ASSUME n \in FunctionsIn(after)
        PROVE  ~SignatureChanged(FunctionIn(before, n), FunctionIn(after, n))
    <3>1. ~FunctionIn(before, n).typed
      BY <1>8, <2>4, FoundFunctions
    <3>2. ~FunctionIn(after, n).typed
      BY <1>8, <2>5, FoundFunctions
    <3> QED
      BY <3>1, <3>2 DEF SignatureChanged
  <2> QED
    BY <2>4, <2>5
<1> QED
  BY Zenon, <1>5, <1>6, <1>7, <1>8 DEF SafeChangesAreSafe

-----------------------------------------------------------------------------
(* Both judgements. *)

JudgementInv == StrategyInv /\ DiffInv

LEMMA JudgementStart == JudgementInit => JudgementInv
BY StrategyStart, DiffStart DEF JudgementInv

LEMMA JudgementStep ==
    ASSUME JudgementInv, StrategyNext \/ DiffNext \/ UNCHANGED judgementVars
    PROVE  JudgementInv'
<1>1. CASE StrategyNext
  <2>1. compared' = compared
    BY <1>1 DEF StrategyNext, SelectStrategy
  <2> QED
    BY <1>1, <2>1, StrategyStep, DiffStutter DEF JudgementInv
<1>2. CASE DiffNext
  <2>1. selected' = selected
    BY <1>2 DEF DiffNext, CompareFiles
  <2> QED
    BY <1>2, <2>1, DiffStep, StrategyStutter DEF JudgementInv
<1>3. CASE UNCHANGED judgementVars
  <2>1. selected' = selected /\ compared' = compared
    BY <1>3 DEF judgementVars
  <2> QED
    BY <2>1, StrategyStutter, DiffStutter DEF JudgementInv
<1> QED
  BY <1>1, <1>2, <1>3

LEMMA JudgementTypes == JudgementInv => JudgementTypeOK
BY SelectedTypes, DiffTypes DEF JudgementInv, JudgementTypeOK

LEMMA JudgementIsRight == JudgementInv => StrategiesFit /\ SafeChangesAreSafe
BY StrategyFits, DiffIsSafe DEF JudgementInv

-----------------------------------------------------------------------------
(* What is remembered, learned and planned, side by side.                   *)

LearningInv ==
    /\ part \in {"working", "skill", "user"} => MemoryInv
    /\ part = "trim" => TrimInv
    /\ part \in {"facts", "projects", "chats", "conflicts"} => StoresInv
    /\ part \in {"registry", "loader", "evaluator", "curator"} => SkillLibraryInv
    /\ part \in {"progress", "plan", "rating"} => PlanningInv
    /\ part \in {"strategy", "diff"} => JudgementInv

LEMMA LearningMoves ==
    ASSUME [MCNext]_<<part, allVars>>
    PROVE  /\ part' = part
           /\ part \in {"working", "skill", "user"} =>
                WorkingNext \/ SkillNext \/ UserNext \/ UNCHANGED memoryVars
           /\ part = "trim" => TrimNext \/ UNCHANGED trimVars
           /\ part \in {"facts", "projects", "chats", "conflicts"} => StoresNext \/ UNCHANGED storeVars
           /\ part \in {"registry", "loader", "evaluator", "curator"} =>
                SkillLibraryNext \/ UNCHANGED skillLibraryVars
           /\ part \in {"progress", "plan", "rating"} => PlanningNext \/ UNCHANGED planningVars
           /\ part \in {"strategy", "diff"} => StrategyNext \/ DiffNext \/ UNCHANGED judgementVars
<1>1. part' = part /\ (LearningStep \/ UNCHANGED learningParts)
  BY OneGroupMoves
<1>2. CASE UNCHANGED learningParts
  BY Zenon, <1>1, <1>2 DEF learningParts
<1>3. CASE LearningStep
  <2>1. part \in {"working", "skill", "user"} =>
          WorkingNext \/ SkillNext \/ UserNext \/ UNCHANGED memoryVars
    BY <1>3 DEF LearningStep
  <2>2. part = "trim" => TrimNext \/ UNCHANGED trimVars
    BY <1>3 DEF LearningStep
  <2>3. part \in {"facts", "projects", "chats", "conflicts"} => StoresNext \/ UNCHANGED storeVars
    BY <1>3 DEF LearningStep, StoresNext
  <2>4. part \in {"registry", "loader", "evaluator", "curator"} =>
          SkillLibraryNext \/ UNCHANGED skillLibraryVars
    BY <1>3 DEF LearningStep, SkillLibraryNext
  <2>5. part \in {"progress", "plan", "rating"} => PlanningNext \/ UNCHANGED planningVars
    BY <1>3 DEF LearningStep, PlanningNext
  <2>6. part \in {"strategy", "diff"} => StrategyNext \/ DiffNext \/ UNCHANGED judgementVars
    BY <1>3 DEF LearningStep
  <2> QED
    BY Zenon, <1>1, <2>1, <2>2, <2>3, <2>4, <2>5, <2>6
<1> QED
  BY <1>1, <1>2, <1>3

LEMMA LearningStart == MCInit => LearningInv
<1>1. MCInit => MemoryInit /\ TrimInit /\ StoresInit /\ SkillLibraryInit /\ PlanningInit /\ JudgementInit
  BY Zenon DEF MCInit
<1> QED
  BY Zenon, <1>1, MemoryStart, TrimStart, StoresStart, SkillLibraryStart, PlanningStart, JudgementStart
     DEF LearningInv

LEMMA LearningKeeps == LearningInv /\ [MCNext]_<<part, allVars>> => LearningInv'
<1> SUFFICES ASSUME LearningInv, [MCNext]_<<part, allVars>> PROVE LearningInv'
  OBVIOUS
<1>1. part' = part
  BY LearningMoves
<1>2. part \in {"working", "skill", "user"} => MemoryInv'
  BY LearningMoves, MemoryStep DEF LearningInv
<1>3. part = "trim" => TrimInv'
  BY LearningMoves, TrimStep, TrimStutter DEF LearningInv
<1>4. part \in {"facts", "projects", "chats", "conflicts"} => StoresInv'
  BY LearningMoves, StoresStep DEF LearningInv
<1>5. part \in {"registry", "loader", "evaluator", "curator"} => SkillLibraryInv'
  BY LearningMoves, SkillLibraryStep DEF LearningInv
<1>6. part \in {"progress", "plan", "rating"} => PlanningInv'
  BY LearningMoves, PlanningStep DEF LearningInv
<1>7. part \in {"strategy", "diff"} => JudgementInv'
  BY LearningMoves, JudgementStep DEF LearningInv
<1> QED
  BY Zenon, <1>1, <1>2, <1>3, <1>4, <1>5, <1>6, <1>7 DEF LearningInv

LEMMA LearningInvariant == MCSpec => []LearningInv
<1> QED
  BY LearningStart, LearningKeeps, PTL DEF MCSpec

(* What is remembered, learned and planned is what happened, whatever the
   messages, facts, projects, claims, skills, steps, weights, goals and files:
   what was used last is kept in the working memory; a stored skill has its file;
   a profile adds up what was heard; a trimmed talk fits or nothing more could go;
   every access and session is counted; the index of the chats follows its table;
   a claim that negates with a word an earlier one lacks, or is older, conflicts;
   the registry's file, the loader, the ledger
   of the evaluator and the counts of the curator agree with what was done; a
   stall is reported when the last steps show it; no plan of the planner's passes
   its own gate; a score keeps its scale and never rises with one more issue; a
   goal's strategy fits it; and a change that is called safe is one that changed
   no function and met no class (memory/, skills/, planning/, cognition/). *)
THEOREM LearningHold == MCSpec => []LearningIsSound
<1>1. MemoryInv => LastTouchedIsKept /\ SkillFilesAreStored /\ ProfilesAddUp
  BY MemoryIsRight
<1>2. TrimInv => TrimmedTalkFits
  BY TrimIsRight
<1>3. StoresInv => AccessesAreCounted /\ SessionsAreCounted /\ IndexFollowsTable /\ ConflictsAreJudged
  BY StoresAreRight
<1>4. SkillLibraryInv => RegistryFileIsLatest /\ RunsWhatWasLoaded /\ LedgerIsWhole /\ UsageAddsUp
  BY SkillLibraryIsRight
<1>5. LearningInv => LearningIsSound
  BY Zenon, <1>1, <1>2, <1>3, <1>4, PlanningIsRight, JudgementIsRight DEF LearningInv, LearningIsSound
<1> QED
  BY <1>5, LearningInvariant, PTL

-----------------------------------------------------------------------------
(* Types and bounds of what is stored.                                      *)

(* Who waits for a path has room for one more block. *)
LockBounds == \A u \in LockUsers : Len(blocks[u]) <= MaxNesting
                 /\ (blocked[u] # 0 => Len(blocks[u]) < MaxNesting)

LEMMA OneShorter ==
    ASSUME NEW S, NEW s \in Seq(S), s # <<>>
    PROVE  Len(SubSeq(s, 1, Len(s) - 1)) = Len(s) - 1
<1>1. PICK n \in Nat : n = Len(s)
  OBVIOUS
<1>2. n # 0
  BY <1>1, LengthIs
<1>3. n - 1 \in Nat /\ n - 1 <= n
  BY <1>2
<1>4. Len(SubSeq(s, 1, n - 1)) = n - 1
  BY <1>1, <1>3
<1> QED
  BY <1>1, <1>4

LEMMA OneLonger ==
    ASSUME NEW S, NEW s \in Seq(S), NEW x \in S
    PROVE  Len(Append(s, x)) = Len(s) + 1 /\ Len(s) \in Nat
  OBVIOUS

LEMMA AsLong ==
    ASSUME NEW S, NEW s \in Seq(S), NEW t \in Seq(S), DOMAIN t = DOMAIN s
    PROVE  Len(t) = Len(s)
<1>1. PICK m \in Nat : m = Len(s) /\ DOMAIN s = 1..m
  OBVIOUS
<1>2. PICK n \in Nat : n = Len(t) /\ DOMAIN t = 1..n
  OBVIOUS
<1>3. 1..m = 1..n
  BY <1>1, <1>2
<1>4. m = n
  <2>1. m > n => m \in 1..m /\ m \notin 1..n
    OBVIOUS
  <2>2. n > m => n \in 1..n /\ n \notin 1..m
    OBVIOUS
  <2> QED
    BY <1>3, <2>1, <2>2
<1> QED
  BY <1>1, <1>2, <1>4

LEMMA LockBoundsStart == LocksInit => LockBounds
  BY LockAssumption DEF LocksInit, LockBounds

LEMMA LockBoundsStep ==
    ASSUME LockTypes, LockBounds, LocksNext \/ UNCHANGED lockVars
    PROVE  LockBounds'
<1>1. /\ blocks \in [LockUsers -> Seq(LockPaths)] /\ blocked \in [LockUsers -> LockPaths \cup {0}]
      /\ MaxNesting \in Nat
  BY LockAssumption DEF LockTypes
<1>2. \A u \in LockUsers : Len(blocks[u]) \in Nat
  BY <1>1
<1>3. ASSUME NEW u \in LockUsers,
             \A v \in LockUsers \ {u} : blocks'[v] = blocks[v] /\ blocked'[v] = blocked[v],
             Len(blocks'[u]) <= MaxNesting, blocked'[u] # 0 => Len(blocks'[u]) < MaxNesting
      PROVE  LockBounds'
  BY <1>3 DEF LockBounds
<1>4. ASSUME NEW u \in LockUsers, NEW p \in LockPaths, Take(u, p), Len(blocks[u]) < MaxNesting
      PROVE  /\ \A v \in LockUsers \ {u} : blocks'[v] = blocks[v]
             /\ Len(blocks'[u]) <= MaxNesting
  <2>1. blocks' = [blocks EXCEPT ![u] = Append(blocks[u], p)]
    BY <1>4 DEF Take
  <2>2. Len(Append(blocks[u], p)) = Len(blocks[u]) + 1
    BY <1>1
  <2>3. \A v \in LockUsers \ {u} : blocks'[v] = blocks[v]
    BY <2>1
  <2>4. blocks'[u] = Append(blocks[u], p)
    BY <1>1, <2>1
  <2> QED
    BY <1>1, <1>2, <1>4, <2>2, <2>3, <2>4
<1>5. CASE UNCHANGED lockVars
  BY <1>5 DEF LockBounds, lockVars
<1>6. ASSUME NEW u \in LockUsers, NEW p \in LockPaths, EnterBlock(u, p) PROVE LockBounds'
  <2>1. CASE Take(u, p) /\ UNCHANGED blocked
    BY <1>1, <1>3, <1>4, <1>6, <2>1 DEF EnterBlock
  <2>2. CASE blocked' = [blocked EXCEPT ![u] = p] /\ UNCHANGED <<kernel, blocks>>
    <3>1. \A v \in LockUsers \ {u} : blocks'[v] = blocks[v] /\ blocked'[v] = blocked[v]
      BY <1>1, <2>2
    <3>2. Len(blocks'[u]) < MaxNesting
      BY <1>6, <2>2 DEF EnterBlock
    <3> QED
      BY <1>1, <1>2, <1>3, <2>2, <3>1, <3>2
  <2> QED
    BY <1>6, <2>1, <2>2 DEF EnterBlock
<1>7. ASSUME NEW u \in LockUsers, NEW p \in LockPaths, TryEnter(u, p) PROVE LockBounds'
  BY <1>1, <1>3, <1>4, <1>7 DEF TryEnter
<1>8. ASSUME NEW u \in LockUsers, NEW p \in LockPaths, Probe(u, p) PROVE LockBounds'
  BY <1>8 DEF Probe, LockBounds
<1>9. ASSUME NEW u \in LockUsers, Granted(u) PROVE LockBounds'
  <2>1. PICK p \in LockPaths : p = blocked[u]
    BY <1>1, <1>9 DEF Granted
  <2>2. Take(u, p) /\ Len(blocks[u]) < MaxNesting /\ blocked' = [blocked EXCEPT ![u] = 0]
    BY <1>9, <2>1 DEF Granted, LockBounds
  <2>3. /\ \A v \in LockUsers \ {u} : blocks'[v] = blocks[v]
        /\ Len(blocks'[u]) <= MaxNesting
    BY <1>4, <2>2
  <2>4. blocked'[u] = 0 /\ \A v \in LockUsers \ {u} : blocked'[v] = blocked[v]
    BY <1>1, <2>2
  <2> QED
    BY <1>3, <2>3, <2>4
<1>10. ASSUME NEW u \in LockUsers, LeaveBlock(u) PROVE LockBounds'
  <2>1. /\ blocks' = [blocks EXCEPT ![u] = SubSeq(blocks[u], 1, Len(blocks[u]) - 1)]
        /\ blocked' = blocked /\ blocked[u] = 0 /\ blocks[u] # <<>>
    BY <1>10 DEF LeaveBlock
  <2>2. Len(SubSeq(blocks[u], 1, Len(blocks[u]) - 1)) = Len(blocks[u]) - 1
    BY <1>1, <2>1, OneShorter
  <2>3. blocks'[u] = SubSeq(blocks[u], 1, Len(blocks[u]) - 1)
        /\ \A v \in LockUsers \ {u} : blocks'[v] = blocks[v]
    BY <1>1, <2>1
  <2>4. Len(blocks'[u]) <= MaxNesting
    BY <1>1, <1>2, <2>2, <2>3 DEF LockBounds
  <2> QED
    BY <1>3, <2>1, <2>3, <2>4
<1>11. ASSUME NEW u \in LockUsers, ProcessEnds(u) PROVE LockBounds'
  <2>1. /\ blocks'[u] = <<>> /\ blocked'[u] = 0
        /\ \A v \in LockUsers \ {u} : blocks'[v] = blocks[v] /\ blocked'[v] = blocked[v]
    BY <1>1, <1>11 DEF ProcessEnds
  <2>2. Len(<<>>) <= MaxNesting
    BY <1>1
  <2> QED
    BY <1>3, <2>1, <2>2
<1> QED
  BY <1>5, <1>6, <1>7, <1>8, <1>9, <1>10, <1>11 DEF LocksNext

LEMMA LockTypesHold == LocksInv /\ LockBounds => LockTypeOK
  BY DEF LocksInv, LockTypes, LockBounds, LockTypeOK

(* No connection is beyond those that could be created. *)
PoolBounds == created <= MaxConnections /\ closedConns \subseteq 1..created

LEMMA PoolBoundsStart == PoolInit => PoolBounds
  BY PoolAssumption DEF PoolInit, PoolBounds

LEMMA PoolBoundsStep ==
    ASSUME PoolInv, PoolBounds, PoolNext \/ UNCHANGED poolVars
    PROVE  PoolBounds'
<1>1. /\ created \in Nat /\ created <= MaxConnections /\ closedConns \subseteq 1..created
      /\ lent \in [PoolUsers -> 0..created] /\ MaxConnections \in Nat
      /\ idle \in Seq(1..created)
  BY PoolAssumption DEF PoolInv, PoolBounds, QueueOf
<1>2. ASSUME NEW queue, NEW c, Replaced(queue, c)
      PROVE  created' \in Nat /\ created' <= MaxConnections /\ 1..created \subseteq 1..created'
  BY <1>1, <1>2 DEF Replaced
<1>3. CASE UNCHANGED poolVars
  BY <1>3 DEF PoolBounds, poolVars
<1>4. CASE Drain
  <2>1. /\ created' = created
        /\ closedConns' = closedConns \cup {idle[i] : i \in DOMAIN idle}
    BY <1>4 DEF Drain
  <2>2. {idle[i] : i \in DOMAIN idle} \subseteq 1..created
    BY <1>1
  <2> QED
    BY <1>1, <2>1, <2>2 DEF PoolBounds
<1>5. CASE ClearFlag
  BY <1>5 DEF ClearFlag, PoolBounds
<1>6. ASSUME NEW u \in PoolUsers, Initialize(u) PROVE PoolBounds'
  <2>1. closedConns' = closedConns /\ (created' = created \/ \E n \in 0..PoolSize :
            created + n <= MaxConnections /\ created' = created + n)
    BY <1>6 DEF Initialize
  <2>2. created' \in Nat /\ created' >= created /\ created' <= MaxConnections
    BY <1>1, <2>1
  <2> QED
    BY <1>1, <2>1, <2>2 DEF PoolBounds
<1>7. ASSUME NEW u \in PoolUsers, TakeConnection(u) PROVE PoolBounds'
  <2>1. closedConns' = closedConns
        /\ (created' = created \/ Replaced(Tail(idle), Head(idle)))
    BY <1>7 DEF TakeConnection
  <2> QED
    BY <1>1, <1>2, <2>1 DEF PoolBounds
<1>8. ASSUME NEW u \in PoolUsers, GetTimesOut(u) \/ BodyEnds(u) PROVE PoolBounds'
  BY <1>8 DEF GetTimesOut, BodyEnds, PoolBounds
<1>9. ASSUME NEW u \in PoolUsers, BodyFails(u) PROVE PoolBounds'
  <2>1. closedConns' = closedConns \cup {lent[u]} /\ Replaced(idle, lent[u]) /\ lent[u] # 0
    BY <1>9 DEF BodyFails
  <2>2. lent[u] \in 1..created
    BY <1>1, <2>1
  <2>3. created' \in Nat /\ created' <= MaxConnections /\ 1..created \subseteq 1..created'
    BY <1>2, <2>1
  <2> QED
    BY <1>1, <2>1, <2>2, <2>3 DEF PoolBounds
<1> QED
  BY <1>3, <1>4, <1>5, <1>6, <1>7, <1>8, <1>9 DEF PoolNext

LEMMA PoolTypesHold == PoolInv /\ PoolBounds => PoolTypeOK
<1> SUFFICES ASSUME PoolInv, PoolBounds PROVE PoolTypeOK
  OBVIOUS
<1>1. /\ created \in Nat /\ created <= MaxConnections /\ MaxConnections \in Nat
      /\ idle \in Seq(1..created) /\ Len(idle) <= PoolSize
      /\ lent \in [PoolUsers -> 0..created]
      /\ closedConns \subseteq 1..created
  BY PoolAssumption DEF PoolInv, PoolBounds, QueueOf
<1>2. 1..created \subseteq Connections /\ 0..created \subseteq Connections \cup {0}
  BY <1>1 DEF Connections
<1>3. idle \in Seq(Connections)
  BY <1>1, <1>2
<1>4. lent \in [PoolUsers -> Connections \cup {0}]
  BY <1>1, <1>2
<1>5. /\ asking \subseteq PoolUsers
      /\ initialized \in BOOLEAN /\ closing \in BOOLEAN /\ disturbed \in BOOLEAN
  BY DEF PoolInv
<1> QED
  BY <1>1, <1>2, <1>3, <1>4, <1>5 DEF PoolTypeOK

(* A run and the schema share their variables; each has the other's at rest. *)
LEMMA StorageTypesStart == StorageInit => StorageTypeOK
<1> SUFFICES ASSUME StorageInit PROVE StorageTypeOK
  OBVIOUS
<1>1. /\ tables \subseteq Tables /\ columns \subseteq NewColumns
      /\ object \in [Openers -> {"absent", "building", "raised", "ready"}]
      /\ at \in [Openers -> 1..(TableCount + ColumnCount + 1)] /\ overlooked \in BOOLEAN
  BY SchemaStart DEF SchemaInv
<1>2. calls = <<>> /\ process = "running" /\ advice = "none" /\ lapses = 0
  BY DEF StorageInit
<1>3. <<>> \in Seq(Call) /\ Len(<<>>) = 0
  OBVIOUS
<1> QED
  BY <1>1, <1>2, <1>3, StorageAssumption DEF StorageTypeOK, Advice

LEMMA SchemaTypesStep ==
    ASSUME StorageTypeOK, SchemaInv', SchemaNext \/ UNCHANGED storageVars
    PROVE  StorageTypeOK'
<1>1. /\ lapses \in 0..MaxFailures /\ MaxFailures \in Nat
      /\ calls \in Seq(Call) /\ Len(calls) <= MaxCalls
      /\ process \in {"running", "ended", "crashed", "resumed", "rolled back"} /\ advice \in Advice
  BY StorageAssumption DEF StorageTypeOK
<1>a. lapses \in Nat /\ lapses <= MaxFailures /\ MaxFailures \in Nat
  <2>1. MaxFailures \in Nat
    BY StorageAssumption
  <2>2. lapses \in 0..MaxFailures
    BY DEF StorageTypeOK
  <2> QED
    BY <2>1, <2>2
<1>2. UNCHANGED <<calls, process, advice>>
  BY DEF SchemaNext, Construct, EnsureSchema, OpenerDies, storageVars
<1>3. lapses' \in 0..MaxFailures
  <2>1. ASSUME NEW o \in Openers, EnsureSchema(o) PROVE lapses' \in 0..MaxFailures
    <3>1. lapses' = lapses \/ (lapses < MaxFailures /\ lapses' = lapses + 1)
      <4>1. CASE at[o] <= TableCount
        <5>1. ~(at[o] \in TableCount + 1 .. TableCount + ColumnCount)
          BY <4>1, SchemaNumbers
        <5>2. CreateTable(o) \/ ScriptRaises(o)
          BY <2>1, <4>1, <5>1 DEF EnsureSchema
        <5> QED
          BY <5>2 DEF CreateTable, ScriptRaises
      <4>2. CASE ~(at[o] <= TableCount) /\ at[o] \in TableCount + 1 .. TableCount + ColumnCount
        <5>1. AddColumn(o)
          BY <2>1, <4>2 DEF EnsureSchema
        <5> QED
          BY <5>1 DEF AddColumn
      <4>3. CASE ~(at[o] <= TableCount) /\ at[o] \notin TableCount + 1 .. TableCount + ColumnCount
        BY <2>1, <4>3 DEF EnsureSchema
      <4> QED
        BY <4>1, <4>2, <4>3
    <3> QED
      BY <1>a, <3>1
  <2> QED
    BY <1>1, <2>1 DEF SchemaNext, Construct, OpenerDies, storageVars
<1>4. /\ tables' \subseteq Tables /\ columns' \subseteq NewColumns
      /\ object' \in [Openers -> {"absent", "building", "raised", "ready"}]
      /\ at' \in [Openers -> 1..(TableCount + ColumnCount + 1)] /\ overlooked' \in BOOLEAN
  BY DEF SchemaInv
<1> QED
  BY Zenon, <1>1, <1>2, <1>3, <1>4 DEF StorageTypeOK

LEMMA RecoveryTypesStep ==
    ASSUME StorageTypeOK, RecoveryInv', RecoveryNext \/ UNCHANGED storageVars
    PROVE  StorageTypeOK'
<1>1. /\ calls \in Seq(Call) /\ Len(calls) <= MaxCalls /\ MaxCalls \in Nat
      /\ process \in {"running", "ended", "crashed", "resumed", "rolled back"} /\ advice \in Advice
  BY StorageAssumption DEF StorageTypeOK
<1>2. UNCHANGED runVars
  BY DEF RecoveryNext, RecordCall, RecordResult, RunEnds, RunCrashes, OnStartup, ResumeRun,
         RollBackRun, storageVars, runVars
<1>3. calls' \in Seq(Call)
  BY DEF RecoveryInv
<1>4. Len(calls') <= MaxCalls
  <2>1. ASSUME NEW k \in {"reads", "changes"}, RecordCall(k) PROVE Len(calls') <= MaxCalls
    <3>1. calls' = Append(calls, [kind |-> k, success |-> "unknown"]) /\ Len(calls) < MaxCalls
      BY <2>1 DEF RecordCall
    <3>2. [kind |-> k, success |-> "unknown"] \in Call
      BY DEF Call
    <3>3. Len(calls') = Len(calls) + 1 /\ Len(calls) \in Nat
      BY <1>1, <3>1, <3>2, OneLonger
    <3>4. Len(calls) < MaxCalls /\ MaxCalls \in Nat
      BY <1>1, <3>1
    <3> QED
      BY <3>3, <3>4
  <2>2. ASSUME NEW s \in {"yes", "no"}, RecordResult(s) PROVE Len(calls') <= MaxCalls
    <3>1. calls' = [calls EXCEPT ![Len(calls)].success = s]
      BY <2>2 DEF RecordResult
    <3>2. DOMAIN calls' = DOMAIN calls
      BY <3>1
    <3>3. Len(calls') = Len(calls)
      BY <1>1, <1>3, <3>2, AsLong
    <3> QED
      BY <1>1, <3>3
  <2>3. CASE calls' = calls
    BY <1>1, <2>3
  <2> QED
    BY <2>1, <2>2, <2>3 DEF RecoveryNext, RunEnds, RunCrashes, OnStartup, ResumeRun, RollBackRun, storageVars
<1>5. process' \in {"running", "ended", "crashed", "resumed", "rolled back"}
  BY <1>1 DEF RecoveryNext, RecordCall, RecordResult, RunEnds, RunCrashes, OnStartup, ResumeRun,
              RollBackRun, storageVars
<1>6. advice' \in Advice
  BY <1>1 DEF RecoveryNext, RecordCall, RecordResult, RunEnds, RunCrashes, OnStartup, ResumeRun,
              RollBackRun, storageVars, Advice, Reconcile
<1>7. /\ tables' = tables /\ columns' = columns /\ object' = object /\ at' = at
      /\ lapses' = lapses /\ overlooked' = overlooked
  BY <1>2 DEF runVars
<1> QED
  BY Zenon, <1>3, <1>4, <1>5, <1>6, <1>7 DEF StorageTypeOK

(* No content is beyond those that were made. *)
Made(c) == c \in -1..versions
FileBounds ==
    /\ versions <= MaxVersions
    /\ Made(file) /\ Made(backup) /\ Made(lastWhole)

LEMMA FileBoundsStart == SafeFilesInit => FileBounds
  BY SafeFilesAssumption DEF SafeFilesInit, FileBounds, Made, NoFile

LEMMA FileBoundsStep ==
    ASSUME SafeFilesInv, FileBounds, SafeFilesNext \/ UNCHANGED fileVars
    PROVE  FileBounds'
<1>1. /\ versions \in Nat \ {0} /\ versions <= MaxVersions /\ MaxVersions \in Nat
      /\ file \in -1..versions /\ backup \in -1..versions /\ lastWhole \in -1..versions
      /\ Torn \in -1..versions /\ NoFile \in -1..versions /\ 1..versions \subseteq -1..versions
  BY FilesAre, SafeFilesAssumption DEF FileBounds, Made
<1>2. ASSUME versions' = versions,
             file' \in -1..versions, backup' \in -1..versions, lastWhole' \in -1..versions
      PROVE  FileBounds'
  BY <1>1, <1>2 DEF FileBounds, Made
<1>3. ASSUME NEW e \in Engines, op[e].at # "none"
      PROVE  op[e].at \in {"move", "copying"} => op[e].content \in -1..versions
  <2>1. op[e].content \in Nat /\ op[e].content <= versions
    BY <1>3, OpIs
  <2> QED
    BY <1>1, <2>1
<1>4. ASSUME NEW e \in Engines, NEW kind \in FileOps, BeginFileOp(e, kind) PROVE FileBounds'
  <2>1. /\ versions' = versions \/ (versions < MaxVersions /\ versions' = versions + 1)
        /\ UNCHANGED <<file, backup, lastWhole>>
    BY <1>4 DEF BeginFileOp
  <2> QED
    BY <1>1, <2>1 DEF FileBounds, Made
<1>5. ASSUME NEW e \in Engines, NEW ok \in BOOLEAN,
             \/ ReadForPatch(e) \/ WriteTemp(e, ok) \/ RemoveTemp(e)
             \/ StepRaises(e) \/ EngineDies(e)
      PROVE  FileBounds'
  <2>1. UNCHANGED <<file, backup, lastWhole, versions>>
    BY <1>5 DEF ReadForPatch, WriteTemp, RemoveTemp, StepRaises, EngineDies
  <2> QED
    BY <1>1, <1>2, <2>1
<1>6. ASSUME NEW e \in Engines, BeginBackup(e) PROVE FileBounds'
  <2>1. UNCHANGED <<file, lastWhole, versions>> /\ backup' \in {backup, Torn}
    BY <1>6 DEF BeginBackup
  <2> QED
    BY <1>1, <1>2, <2>1
<1>7. ASSUME NEW e \in Engines, EndBackup(e) PROVE FileBounds'
  <2>1. UNCHANGED <<file, lastWhole, versions>> /\ (backup' = file \/ backup' \in 1..versions \cup {Torn})
    BY <1>7 DEF EndBackup
  <2> QED
    BY <1>1, <1>2, <2>1
<1>8. ASSUME NEW e \in Engines, MoveByCopy(e) \/ BeginCopy(e) \/ Unlink(e) PROVE FileBounds'
  <2>1. UNCHANGED <<backup, lastWhole, versions>> /\ file' \in {Torn, NoFile}
    BY <1>8 DEF MoveByCopy, BeginCopy, Unlink
  <2> QED
    BY <1>1, <1>2, <2>1
<1>9. ASSUME NEW e \in Engines, MoveTemp(e) \/ EndCopy(e) PROVE FileBounds'
  <2>1. /\ op[e].at \in {"move", "copying"} /\ UNCHANGED <<backup, versions>>
        /\ file' \in {op[e].content, file, Torn}
        /\ lastWhole' \in {lastWhole, op[e].content}
    BY <1>9 DEF MoveTemp, EndCopy
  <2>2. op[e].content \in -1..versions
    BY <1>3, <2>1
  <2> QED
    BY <1>1, <1>2, <2>1, <2>2
<1>10. CASE UNCHANGED fileVars
  BY <1>10 DEF FileBounds, Made, fileVars
<1> QED
  BY <1>4, <1>5, <1>6, <1>7, <1>8, <1>9, <1>10 DEF SafeFilesNext

LEMMA SafeFilesTypesHold == SafeFilesInv /\ FileBounds => SafeFilesTypeOK
<1> SUFFICES ASSUME SafeFilesInv, FileBounds PROVE SafeFilesTypeOK
  OBVIOUS
<1>1. /\ versions \in Nat \ {0} /\ versions <= MaxVersions /\ MaxVersions \in Nat
      /\ file \in -1..versions /\ backup \in -1..versions /\ lastWhole \in 0..versions
      /\ temps \subseteq 2..versions
  BY FilesAre, SafeFilesAssumption DEF FileBounds, Made
<1>2. /\ versions \in 1..MaxVersions /\ temps \subseteq Contents
      /\ lastWhole \in Contents \cup {NoFile}
  BY <1>1 DEF Contents, NoFile
<1>3. file \in Contents \cup {NoFile, Torn} /\ backup \in Contents \cup {NoFile, Torn}
  BY <1>1 DEF Contents, NoFile, Torn
<1>4. ASSUME NEW e \in Engines
      PROVE  /\ op[e].kind \in FileOps \cup {"none"}
             /\ op[e].at \in {"none", "read", "backup", "backing", "temp", "move", "copy",
                              "copying", "tidy", "unlink"}
             /\ op[e].content \in Contents \cup {NoFile}
  <2>1. CASE op[e] = NoOp
    BY <2>1 DEF NoOp
  <2>2. CASE op[e] # NoOp
    <3>1. op[e] \in [kind : FileOps, at : Steps, content : Nat]
      BY <2>2 DEF SafeFilesInv, OpsFit, OpFits
    <3>2. op[e].at # "none"
      BY <3>1 DEF Steps
    <3>3. op[e].content \in Nat /\ op[e].content <= versions
      BY <3>2, OpIs
    <3>4. op[e].content \in Contents \cup {NoFile}
      BY <1>1, <3>3 DEF Contents, NoFile
    <3> QED
      BY <3>1, <3>4 DEF Steps
  <2> QED
    BY <2>1, <2>2
<1> QED
  BY <1>2, <1>3, <1>4 DEF SafeFilesTypeOK

(* A server that is not about to write holds no content. *)
Unburdened(rs) == \A s \in Servers : rs[s].does # "write" => rs[s].content = 0

ProjectBounds == projectRow \in BOOLEAN /\ contentsMade <= MaxContents /\ Unburdened(routes)

LEMMA ProjectBoundsStart == FilesInit => ProjectBounds
<1> SUFFICES ASSUME FilesInit PROVE ProjectBounds
  OBVIOUS
<1>1. contentsMade = 0 /\ MaxContents \in Nat
  BY FilesAssumption DEF FilesInit
<1>2. contentsMade <= MaxContents
  BY <1>1
<1>3. \A s \in Servers : routes[s].content = 0
  BY DEF FilesInit, NoRequest
<1> QED
  BY <1>2, <1>3 DEF FilesInit, ProjectBounds, Unburdened

LEMMA ProjectBoundsStep ==
    ASSUME ProjectInv, ProjectBounds, FilesNext \/ UNCHANGED filesVars
    PROVE  ProjectBounds'
<1>1. /\ routes \in [Servers -> RouteState] /\ contentsMade \in Nat /\ MaxContents \in Nat
      /\ projectRow \in BOOLEAN /\ contentsMade <= MaxContents /\ Unburdened(routes)
  BY ProjectIs, FilesAssumption DEF ProjectBounds
<1>2. \A s \in Servers : Unburdened(Disturb(s))
  <2> TAKE s \in Servers
  <2>1. PICK d : d = Disturb(s)
    OBVIOUS
  <2>2. /\ d[s] = NoRequest
        /\ \A q \in Servers \ {s} : d[q].does = routes[q].does /\ d[q].content = routes[q].content
    BY <2>1, DisturbIs
  <2>3. NoRequest.content = 0
    BY DEF NoRequest
  <2>4. Unburdened(d)
    BY <1>1, <2>2, <2>3 DEF Unburdened
  <2> QED
    BY <2>1, <2>4
<1>3. ASSUME NEW s \in Servers, routes' = Disturb(s), UNCHANGED <<projectRow, contentsMade>>
      PROVE  ProjectBounds'
  <2>1. PICK d : d = Disturb(s)
    OBVIOUS
  <2>2. routes' = d /\ Unburdened(d)
    BY <1>2, <1>3, <2>1
  <2> QED
    BY <1>1, <1>3, <2>2 DEF ProjectBounds, Unburdened
<1>4. ASSUME NEW s \in Servers, NEW r, r.content = 0, routes' = [routes EXCEPT ![s] = r],
             UNCHANGED <<projectRow, contentsMade>>
      PROVE  ProjectBounds'
  BY <1>1, <1>4 DEF ProjectBounds, Unburdened
<1>5. CASE CreateProject \/ DeleteProject
  BY <1>1, <1>5 DEF CreateProject, DeleteProject, ProjectBounds, Unburdened
<1>6. ASSUME NEW s \in Servers, NEW p \in FilePaths, BeginWriteFile(s, p) PROVE ProjectBounds'
  <2>1. PICK d : d = Disturb(s)
    OBVIOUS
  <2>2. PICK r : r = [NoRequest EXCEPT !.does = "write", !.to = p, !.content = contentsMade + 1]
    OBVIOUS
  <2>3. /\ contentsMade < MaxContents /\ contentsMade' = contentsMade + 1
        /\ routes' = [d EXCEPT ![s] = r] /\ projectRow' = projectRow
    BY <1>6, <2>1, <2>2 DEF BeginWriteFile
  <2>4. d \in [Servers -> RouteState] /\ Unburdened(d)
    BY <1>2, <2>1, DisturbIs
  <2>5. r.does = "write"
    BY <2>2 DEF NoRequest
  <2>6. Unburdened(routes')
    BY <2>3, <2>4, <2>5 DEF Unburdened
  <2>7. contentsMade' <= MaxContents
    BY <1>1, <2>3
  <2> QED
    BY <1>1, <2>3, <2>6, <2>7 DEF ProjectBounds
<1>7. ASSUME NEW s \in Servers, EndWriteFile(s) PROVE ProjectBounds'
  BY <1>3, <1>7 DEF EndWriteFile
<1>8. ASSUME NEW s \in Servers, EndRename(s) PROVE ProjectBounds'
  BY <1>3, <1>4, <1>8 DEF EndRename, NoRequest
<1>9. ASSUME NEW s \in Servers, ServerDies(s) PROVE ProjectBounds'
  BY <1>4, <1>9 DEF ServerDies, NoRequest
<1>10. ASSUME NEW s \in Servers, NEW p \in AllPaths, NEW dir \in BOOLEAN, CreateEmpty(s, p, dir)
       PROVE  ProjectBounds'
  BY <1>3, <1>10 DEF CreateEmpty
<1>11. ASSUME NEW s \in Servers, NEW p \in AllPaths, NEW q \in AllPaths, BeginRename(s, p, q)
       PROVE  ProjectBounds'
  BY <1>4, <1>11 DEF BeginRename
<1>12. ASSUME NEW s \in Servers, NEW p \in AllPaths, DeletePath(s, p) PROVE ProjectBounds'
  BY <1>3, <1>12 DEF DeletePath
<1>13. CASE UNCHANGED filesVars
  BY <1>1, <1>13 DEF ProjectBounds, Unburdened, filesVars
<1> QED
  BY <1>5, <1>6, <1>7, <1>8, <1>9, <1>10, <1>11, <1>12, <1>13 DEF FilesNext

LEMMA FilesTypesHold == ProjectInv /\ ProjectBounds => FilesTypeOK
<1> SUFFICES ASSUME ProjectInv, ProjectBounds PROVE FilesTypeOK
  OBVIOUS
<1>1. /\ tree \in [AllPaths -> Node] /\ routes \in [Servers -> RouteState] /\ contentsMade \in Nat
      /\ wanted \subseteq 1..contentsMade /\ usurped \subseteq 1..contentsMade
      /\ Holds(tree, wanted \ usurped) /\ Reserved(routes, contentsMade, wanted \cup usurped)
      /\ MaxContents \in Nat /\ projectRow \in BOOLEAN /\ contentsMade <= MaxContents
      /\ Unburdened(routes)
  BY ProjectIs, FilesAssumption DEF ProjectBounds
<1>2. 1..contentsMade \subseteq 1..MaxContents /\ 1..contentsMade \subseteq 0..MaxContents
      /\ 0 \in 0..MaxContents
  BY <1>1
<1>3. \A p \in AllPaths : tree[p].content \in 0..MaxContents
  BY <1>1, <1>2 DEF Holds
<1>4. \A p \in AllPaths : tree[p] \in {Nowhere, Directory} \cup
          [is : {"file"}, content : 0..MaxContents, writers : SUBSET Servers]
  <2> TAKE p \in AllPaths
  <2>1. tree[p] \in Node /\ tree[p].content \in 0..MaxContents
    BY <1>1, <1>3
  <2>2. PICK n : n = 0..MaxContents
    OBVIOUS
  <2>3. tree[p].content \in n
    BY <2>1, <2>2
  <2>4. tree[p] \in {Nowhere, Directory} \cup [is : {"file"}, content : n, writers : SUBSET Servers]
    BY <2>1, <2>3 DEF Node
  <2> QED
    BY <2>2, <2>4
<1>5. \A s \in Servers : routes[s].content \in 0..MaxContents
  BY <1>1, <1>2 DEF Reserved, Unburdened
<1>6. \A s \in Servers : routes[s] \in [does : {"nothing", "write", "rename"}, from : AllPaths,
          to : AllPaths, content : 0..MaxContents, disturbed : BOOLEAN]
  <2> TAKE s \in Servers
  <2>1. routes[s] \in RouteState /\ routes[s].content \in 0..MaxContents
    BY <1>1, <1>5
  <2>2. PICK n : n = 0..MaxContents
    OBVIOUS
  <2>3. routes[s].content \in n
    BY <2>1, <2>2
  <2>4. routes[s] \in [does : {"nothing", "write", "rename"}, from : AllPaths,
          to : AllPaths, content : n, disturbed : BOOLEAN]
    BY <2>1, <2>3 DEF RouteState
  <2> QED
    BY <2>2, <2>4
<1>7. contentsMade \in 0..MaxContents /\ wanted \subseteq 1..MaxContents /\ usurped \subseteq 1..MaxContents
  BY <1>1, <1>2
<1>8. /\ tree \in [AllPaths -> {Nowhere, Directory} \cup
          [is : {"file"}, content : 0..MaxContents, writers : SUBSET Servers]]
      /\ routes \in [Servers -> [does : {"nothing", "write", "rename"}, from : AllPaths,
          to : AllPaths, content : 0..MaxContents, disturbed : BOOLEAN]]
  BY <1>1, <1>4, <1>6
<1> QED
  BY <1>1, <1>7, <1>8 DEF FilesTypeOK

(* The file takes what the registry holds or stays as it was. *)
LEMMA CatalogTypesStart == CatalogInit => CatalogTypeOK
<1> SUFFICES ASSUME CatalogInit PROVE CatalogTypeOK
  OBVIOUS
<1>1. /\ catalog \in [ToolNames -> [status : ToolStatuses, calls : Nat, failures : Nat]]
      /\ catalogFile \in [ToolNames -> [status : ToolStatuses, calls : Nat, failures : Nat]]
  BY DEF CatalogInit, NoTool, ToolStatuses
<1>2. /\ using \in [ToolUsers -> ToolNames \cup {"none"}] /\ minute \in Minutes
      /\ succeeded \in [ToolNames -> [Minutes -> Nat]]
  BY ExecutorStart DEF ExecutorInv
<1>3. \A k \in DOMAIN history : history[k] \in ToolNames
  BY DEF CatalogInit
<1> QED
  BY <1>1, <1>2, <1>3 DEF CatalogTypeOK

LEMMA RegistryTypesStep ==
    ASSUME CatalogTypeOK, CatalogInv', RegistryStep
    PROVE  CatalogTypeOK'
<1>1. catalog' \in [ToolNames -> [status : ToolStatuses, calls : Nat, failures : Nat]]
  BY DEF CatalogInv
<1>2. ASSUME NEW new, NEW ok \in BOOLEAN, Saves(new, ok) PROVE CatalogTypeOK'
  <2>1. catalogFile' \in {catalog', catalogFile} /\ UNCHANGED <<minute, using, succeeded, history>>
    BY <1>2 DEF Saves
  <2> QED
    BY <1>1, <2>1 DEF CatalogTypeOK
<1>3. ASSUME LoadCatalog PROVE CatalogTypeOK'
  <2>1. /\ UNCHANGED <<catalogFile, minute>> /\ history' = <<>>
        /\ using' \in [ToolUsers -> ToolNames \cup {"none"}]
        /\ succeeded' \in [ToolNames -> [Minutes -> Nat]]
    BY <1>3 DEF LoadCatalog, NoTimes
  <2> QED
    BY <1>1, <2>1 DEF CatalogTypeOK
<1>4. ASSUME NEW t \in ToolNames, NEW ok \in BOOLEAN, RegisterTool(t, ok) \/ UnregisterTool(t, ok)
      PROVE  CatalogTypeOK'
  BY <1>2, <1>4 DEF RegisterTool, UnregisterTool
<1>5. ASSUME NEW t \in ToolNames, NEW ok \in BOOLEAN, NEW s \in ToolStatuses \ {"none"},
             SetToolStatus(t, s, ok)
      PROVE  CatalogTypeOK'
  BY <1>2, <1>5 DEF SetToolStatus
<1>6. ASSUME NEW t \in ToolNames, NEW ok \in BOOLEAN, NEW success \in BOOLEAN,
             CountCall(t, success, ok)
      PROVE  CatalogTypeOK'
  BY <1>2, <1>6 DEF CountCall
<1>7. ASSUME NEW ok \in BOOLEAN, ClearCatalog(ok) PROVE CatalogTypeOK'
  BY <1>2, <1>7 DEF ClearCatalog
<1> QED
  BY <1>3, <1>4, <1>5, <1>6, <1>7 DEF RegistryStep

LEMMA ExecutorTypesStep ==
    ASSUME CatalogTypeOK, ExecutorInv', ExecutorStep
    PROVE  CatalogTypeOK'
<1>1. /\ using' \in [ToolUsers -> ToolNames \cup {"none"}] /\ minute' \in Minutes
      /\ succeeded' \in [ToolNames -> [Minutes -> Nat]]
  BY DEF ExecutorInv
<1>2. UNCHANGED <<catalog, catalogFile>>
  BY DEF ExecutorStep, BeginUse, UseSucceeds, UseFails, MinutePasses
<1>3. history' = history \/ \E t \in ToolNames : history' = Append(history, t)
  BY DEF ExecutorStep, BeginUse, UseSucceeds, UseFails, MinutePasses, CatalogTypeOK
<1>4. \A k \in DOMAIN history' : history'[k] \in ToolNames
  <2>1. \A k \in DOMAIN history : history[k] \in ToolNames
    BY DEF CatalogTypeOK
  <2> QED
    BY <1>3, <2>1
<1> QED
  BY <1>1, <1>2, <1>4 DEF CatalogTypeOK

(* Keys are numbered by the saves. *)
KeyBounds ==
    /\ keysMade <= MaxKeys /\ keysFile.keys \in AnyKeys
    /\ \A m \in Managers :
          /\ editing[m].does \in {"nothing", "makes cipher", "writes cipher",
                                "save", "remove", "saving", "removing"}
          /\ Editing(m) => editing[m].keys \in AnyKeys
    /\ saved \in [KeyProviders -> 0..MaxKeys]
    /\ keptUnder \in [KeyProviders -> SUBSET (1..MaxKeys)]
    /\ tangled \in BOOLEAN

LEMMA KeyNumbers ==
    /\ MaxKeys \in Nat /\ 0 \in 0..MaxKeys
    /\ NoKeys \in AnyKeys /\ NoKey \in [key : 0..MaxKeys, cipher : Managers \cup {NoCipher}]
<1>1. MaxKeys \in Nat /\ 0 \in 0..MaxKeys
  BY KeyAssumption
<1>2. NoKey \in [key : 0..MaxKeys, cipher : Managers \cup {NoCipher}]
  BY <1>1 DEF NoKey
<1> QED
  BY <1>1, <1>2 DEF NoKeys, AnyKeys

LEMMA KeyBoundsStart == KeysInit => KeyBounds
<1> SUFFICES ASSUME KeysInit PROVE KeyBounds
  OBVIOUS
<1>1. keysMade <= MaxKeys /\ keysFile.keys \in AnyKeys
  BY KeyNumbers DEF KeysInit, WholeFile
<1>2. \A m \in Managers : editing[m].does = "nothing"
  BY DEF KeysInit, NotEditing
<1>3. /\ saved \in [KeyProviders -> 0..MaxKeys]
      /\ keptUnder \in [KeyProviders -> SUBSET (1..MaxKeys)]
      /\ tangled \in BOOLEAN
  BY KeyNumbers DEF KeysInit
<1> QED
  BY <1>1, <1>2, <1>3 DEF KeyBounds, Editing, Edits

(* What is read has the bounds of the file. *)
LEMMA LoadedKeysFit ==
    ASSUME KeyBounds
    PROVE  LoadKeys \in AnyKeys
  BY KeyNumbers DEF KeyBounds, LoadKeys

(* One manager goes on: what it edits, and the file. *)
LEMMA OneManagerMoves ==
    ASSUME KeysInv, KeyBounds, NEW m \in Managers, NEW r,
           editing' = [editing EXCEPT ![m] = r],
           r.does \in {"nothing", "makes cipher", "writes cipher", "save", "remove", "saving", "removing"},
           r.does \in Edits => r.keys \in AnyKeys,
           keysMade' <= MaxKeys, keysFile'.keys \in AnyKeys, tangled' \in BOOLEAN,
           saved' \in [KeyProviders -> 0..MaxKeys],
           keptUnder' \in [KeyProviders -> SUBSET (1..MaxKeys)]
    PROVE  KeyBounds'
<1>1. editing'[m] = r /\ \A q \in Managers \ {m} : editing'[q] = editing[q]
  BY EditingIs
<1>2. \A q \in Managers :
          /\ editing'[q].does \in {"nothing", "makes cipher", "writes cipher",
                                  "save", "remove", "saving", "removing"}
          /\ editing'[q].does \in Edits => editing'[q].keys \in AnyKeys
  BY <1>1 DEF KeyBounds, Editing
<1> QED
  BY <1>2 DEF KeyBounds, Editing

LEMMA KeyBoundsSteps ==
    ASSUME KeysInv, KeyBounds, KeysNext
    PROVE  KeyBounds'
<1>1. /\ DOMAIN editing = Managers /\ cipherOf \in [Managers -> Ciphers]
      /\ keysMade \in Nat /\ keysMade <= MaxKeys /\ keysFile.keys \in AnyKeys
      /\ tangled \in BOOLEAN
      /\ saved \in [KeyProviders -> 0..MaxKeys]
      /\ keptUnder \in [KeyProviders -> SUBSET (1..MaxKeys)]
  BY DEF KeysInv, KeyShapes, KeyBounds
<1>2. /\ NotEditing.does = "nothing" /\ NotEditing.does \notin Edits
      /\ "makes cipher" \notin Edits /\ "writes cipher" \notin Edits
  BY DEF NotEditing, Edits
<1>3. ASSUME NEW m \in Managers, NEW r, NEW does \in {"makes cipher", "writes cipher"},
             editing' = [editing EXCEPT ![m] = r], r.does = does, tangled' \in BOOLEAN,
             UNCHANGED <<keysFile, keysMade, saved, keptUnder>>
      PROVE  KeyBounds'
  BY <1>1, <1>2, <1>3, OneManagerMoves
<1>4. ASSUME NEW m \in Managers, FindCipher(m) PROVE KeyBounds'
  <2>1. /\ editing[m] = NotEditing
        /\ UNCHANGED <<keysFile, keysMade, saved, keptUnder, tangled>>
        /\ editing' = [editing EXCEPT ![m].does = "makes cipher"] \/ UNCHANGED editing
    BY <1>4 DEF FindCipher
  <2>2. CASE editing' = [editing EXCEPT ![m].does = "makes cipher"]
    <3>1. PICK r : r = [NotEditing EXCEPT !.does = "makes cipher"]
      OBVIOUS
    <3>2. r.does = "makes cipher" /\ editing' = [editing EXCEPT ![m] = r]
      BY <1>1, <2>1, <2>2, <3>1 DEF NotEditing
    <3> QED
      BY <1>1, <1>3, <2>1, <3>2
  <2>3. CASE UNCHANGED editing
    <3>1. editing' = [editing EXCEPT ![m] = NotEditing]
      BY <2>1, <2>3, EditingIs
    <3> QED
      BY <1>1, <1>2, <2>1, <3>1, OneManagerMoves
  <2> QED
    BY <2>1, <2>2, <2>3
<1>11. ASSUME NEW m \in Managers, OpenCipherFile(m) PROVE KeyBounds'
  <2>1. PICK r : r = [editing[m] EXCEPT !.does = "writes cipher"]
    OBVIOUS
  <2>2. /\ editing' = [editing EXCEPT ![m] = r] /\ tangled' \in BOOLEAN
        /\ UNCHANGED <<keysFile, keysMade, saved, keptUnder>>
    BY <1>1, <1>11, <2>1 DEF OpenCipherFile
  <2>3. r.does = "writes cipher"
    BY <2>1, EditingIs
  <2> QED
    BY <1>3, <2>2, <2>3
<1>5. ASSUME NEW m \in Managers, MakeCipher(m) PROVE KeyBounds'
  <2>1. /\ editing' = [editing EXCEPT ![m] = NotEditing]
        /\ UNCHANGED <<keysFile, keysMade, saved, keptUnder, tangled>>
    BY <1>5 DEF MakeCipher
  <2> QED
    BY <1>1, <1>2, <2>1, OneManagerMoves
<1>6. ASSUME NEW m \in Managers, NEW p \in KeyProviders, ReadKeysToSave(m, p) PROVE KeyBounds'
  <2>1. PICK ks : ks = [LoadKeys EXCEPT ![p] = [key |-> keysMade + 1, cipher |-> cipherOf[m]]]
    OBVIOUS
  <2>2. /\ keysMade < MaxKeys /\ keysMade' = keysMade + 1
        /\ editing' = [editing EXCEPT ![m] = [does |-> "save", provider |-> p, keys |-> ks]]
        /\ tangled' = (tangled \/ Overlap(m))
        /\ UNCHANGED <<cipherFile, cipherOf, keysFile, saved, keptUnder>>
    BY <1>6, <2>1 DEF ReadKeysToSave
  <2>3. keysMade + 1 \in 0..MaxKeys /\ cipherOf[m] \in Managers \cup {NoCipher}
    BY <1>1, <2>2, KeyNumbers DEF Ciphers
  <2>4. ks \in AnyKeys
    BY <2>1, <2>3, LoadedKeysFit DEF AnyKeys
  <2>5. tangled' \in BOOLEAN
    BY <1>1, <2>2 DEF Overlap
  <2>6. keysMade' <= MaxKeys
    BY <1>1, <2>2, KeyNumbers
  <2> QED
    BY <1>1, <2>2, <2>4, <2>5, <2>6, OneManagerMoves
<1>7. ASSUME NEW m \in Managers, NEW p \in KeyProviders, ReadKeysToRemove(m, p) PROVE KeyBounds'
  <2>1. PICK ks : ks = [LoadKeys EXCEPT ![p] = NoKey]
    OBVIOUS
  <2>2. /\ editing' = [editing EXCEPT ![m] = [does |-> "remove", provider |-> p, keys |-> ks]]
        /\ tangled' = (tangled \/ Overlap(m))
        /\ UNCHANGED <<cipherFile, cipherOf, keysFile, keysMade, saved, keptUnder>>
    BY <1>7, <2>1 DEF ReadKeysToRemove
  <2>3. ks \in AnyKeys
    BY <2>1, LoadedKeysFit, KeyNumbers DEF AnyKeys
  <2>4. tangled' \in BOOLEAN
    BY <1>1, <2>2 DEF Overlap
  <2> QED
    BY <1>1, <2>2, <2>3, <2>4, OneManagerMoves
<1>8. ASSUME NEW m \in Managers, OpenKeysFile(m) PROVE KeyBounds'
  <2>1. PICK r : r = [editing[m] EXCEPT !.does = IF editing[m].does = "save" THEN "saving" ELSE "removing"]
    OBVIOUS
  <2>2. /\ editing[m].does \in {"save", "remove"} /\ keysFile' = TornFile
        /\ editing' = [editing EXCEPT ![m] = r]
        /\ UNCHANGED <<cipherFile, cipherOf, keysMade, saved, keptUnder, tangled>>
    BY <1>1, <1>8, <2>1 DEF OpenKeysFile
  <2>3. DOMAIN editing[m] = {"does", "provider", "keys"}
    BY EditingIs
  <2>4. r.does \in {"saving", "removing"} /\ r.keys = editing[m].keys
    BY <2>1, <2>3
  <2>5. r.keys \in AnyKeys
    BY <2>2, <2>4 DEF KeyBounds, Editing, Edits
  <2>6. keysFile'.keys \in AnyKeys
    BY <2>2, KeyNumbers DEF TornFile
  <2> QED
    BY <1>1, <2>2, <2>4, <2>5, <2>6, OneManagerMoves
<1>9. ASSUME NEW m \in Managers, WriteKeysFile(m) PROVE KeyBounds'
  <2>1. PICK ks : ks = editing[m].keys
    OBVIOUS
  <2>2. PICK p : p = editing[m].provider
    OBVIOUS
  <2>3. /\ editing[m].does \in {"saving", "removing"} /\ keysFile' = WholeFile(ks)
        /\ saved' = [saved EXCEPT ![p] = ks[p].key]
        /\ keptUnder' = [keptUnder EXCEPT ![p] = @ \cup ({ks[p].key} \ {0})]
        /\ editing' = [editing EXCEPT ![m] = NotEditing]
        /\ UNCHANGED <<cipherFile, cipherOf, keysMade, tangled>>
    BY <1>9, <2>1, <2>2 DEF WriteKeysFile
  <2>4. ks \in AnyKeys /\ p \in KeyProviders
    BY <2>1, <2>2, <2>3 DEF KeyBounds, KeysInv, KeyShapes, Editing, Edits
  <2>5. ks[p].key \in 0..MaxKeys
    BY <2>4 DEF AnyKeys
  <2>6. {ks[p].key} \ {0} \in SUBSET (1..MaxKeys)
    BY <2>5, KeyNumbers
  <2>7. saved' \in [KeyProviders -> 0..MaxKeys] /\ keptUnder' \in [KeyProviders -> SUBSET (1..MaxKeys)]
    BY <1>1, <2>3, <2>4, <2>5, <2>6
  <2>8. keysFile'.keys \in AnyKeys
    BY <2>3, <2>4 DEF WholeFile
  <2> QED
    BY <1>1, <1>2, <2>3, <2>7, <2>8, OneManagerMoves
<1>10. ASSUME NEW m \in Managers, ManagerDies(m) PROVE KeyBounds'
  <2>1. /\ editing' = [editing EXCEPT ![m] = NotEditing] /\ tangled' \in BOOLEAN
        /\ UNCHANGED <<keysFile, keysMade, saved, keptUnder>>
    BY <1>1, <1>10 DEF ManagerDies
  <2> QED
    BY <1>1, <1>2, <2>1, OneManagerMoves
<1> QED
  BY <1>4, <1>5, <1>6, <1>7, <1>8, <1>9, <1>10, <1>11 DEF KeysNext

LEMMA KeyBoundsStep ==
    ASSUME KeysInv, KeyBounds, KeysNext \/ UNCHANGED keyVars
    PROVE  KeyBounds'
<1>1. CASE UNCHANGED keyVars
  BY <1>1 DEF KeyBounds, keyVars, Editing
<1> QED
  BY <1>1, KeyBoundsSteps

LEMMA KeysTypesHold == KeysInv /\ KeyBounds => KeysTypeOK
<1> SUFFICES ASSUME KeysInv, KeyBounds PROVE KeysTypeOK
  OBVIOUS
<1>1. keysMade \in 0..MaxKeys
  <2>1. keysMade \in Nat
    BY DEF KeysInv, KeyShapes
  <2>2. keysMade <= MaxKeys
    BY DEF KeyBounds
  <2> QED
    BY <2>1, <2>2, KeyNumbers
<1>2. keysFile \in [torn : BOOLEAN, keys : AnyKeys]
  BY DEF KeysInv, KeyShapes, KeyBounds
<1>3. /\ cipherFile \in Managers \cup {NoCipher, TornCipher}
      /\ cipherOf \in [Managers -> Managers \cup {NoCipher}]
  BY DEF KeysInv, KeyShapes, Ciphers
<1> QED
  BY <1>1, <1>2, <1>3 DEF KeyBounds, KeysTypeOK

(* As many elements as places when none comes twice. *)
LEMMA DistinctCount ==
    ASSUME NEW S, NEW s \in Seq(S), \A i, j \in DOMAIN s : s[i] = s[j] => i = j
    PROVE  Cardinality({s[i] : i \in DOMAIN s}) = Len(s)
<1>1. PICK n \in Nat : n = Len(s) /\ DOMAIN s = 1..n
  OBVIOUS
<1>2. PICK T : T = {s[i] : i \in DOMAIN s}
  OBVIOUS
<1>3. PICK f : f = [i \in 1..n |-> s[i]]
  OBVIOUS
<1>4. f \in Injection(1..n, T) /\ f \in Surjection(1..n, T)
  BY <1>1, <1>2, <1>3 DEF Injection, Surjection, IsInjective
<1>5. f \in Bijection(1..n, T)
  BY <1>4 DEF Bijection
<1>6. ExistsBijection(1..n, T)
  BY <1>5 DEF ExistsBijection
<1>7. Cardinality(T) = n
  BY <1>6, FS_CountingElements
<1> QED
  BY <1>1, <1>2, <1>7

(* Who awaits nothing holds no handler. *)
IdleVisits == \A c \in GatewayCallers : visits[c].what = "none" => visits[c].handler = 0

LEMMA IdleVisitsStart == GatewayInit => IdleVisits
  BY DEF GatewayInit, IdleVisits, NoVisit

LEMMA VisitsAwait ==
    /\ NoVisit.handler = 0
    /\ \A call, p, rest : \A what \in {"connect", "disconnect", "reconnect", "send"} :
          VisitTo(call, what, p, rest).what # "none"
  BY DEF NoVisit, VisitTo

LEMMA IdleVisitsStep ==
    ASSUME GatewayInv, IdleVisits, GatewayNext \/ UNCHANGED gatewayVars
    PROVE  IdleVisits'
<1>1. DOMAIN visits = GatewayCallers
  BY DEF GatewayInv
<1>2. ASSUME NEW c \in GatewayCallers, NEW v, v.what = "none" => v.handler = 0,
             visits' = [visits EXCEPT ![c] = v]
      PROVE  IdleVisits'
  BY <1>1, <1>2 DEF IdleVisits
<1>3. ASSUME UNCHANGED visits PROVE IdleVisits'
  BY <1>3 DEF IdleVisits
<1>4. ASSUME NEW c \in GatewayCallers, visits[c].what # "none"
      PROVE  Continue(c).what = "none" => Continue(c).handler = 0
  <2>1. visits[c].what \in {"connect", "disconnect", "reconnect", "send"}
    BY <1>4 DEF GatewayInv, VisitRecords
  <2>2. CASE Continue(c) = NoVisit
    BY <2>2, VisitsAwait
  <2>3. CASE Continue(c) # NoVisit
    <3>1. PICK call, p, rest, what : what \in {"connect", "disconnect", "reconnect", "send"}
              /\ Continue(c) = VisitTo(call, what, p, rest)
      BY <2>1, <2>3 DEF Continue
    <3> QED
      BY <3>1, VisitsAwait
  <2> QED
    BY <2>2, <2>3
<1>5. ASSUME NEW p \in Platforms, RegisterPlatform(p) \/ ConnectionBreaks(p) PROVE IdleVisits'
  BY <1>3, <1>5 DEF RegisterPlatform, ConnectionBreaks
<1>6. ASSUME NEW c \in GatewayCallers, NEW p \in Platforms, NEW w \in {"connect", "disconnect", "send"},
             CallPlatform(c, w, p)
      PROVE  IdleVisits'
  <2>1. PICK v : v = VisitTo("one", w, p, <<>>)
    OBVIOUS
  <2>2. v.what # "none"
    BY <2>1, VisitsAwait
  <2> QED
    BY <1>2, <1>6, <2>1, <2>2 DEF CallPlatform
<1>7. ASSUME NEW c \in GatewayCallers, NEW call \in {"start", "stop", "broadcast"}, CallAll(c, call)
      PROVE  IdleVisits'
  <2>1. PICK w : w = CASE call = "start" -> "connect" [] call = "stop" -> "disconnect" [] OTHER -> "send"
    OBVIOUS
  <2>2. w \in {"connect", "disconnect", "send"}
    BY <2>1
  <2>3. PICK v : v = VisitTo(call, w, Head(Order), Tail(Order))
    OBVIOUS
  <2>4. v.what # "none"
    BY <2>2, <2>3, VisitsAwait
  <2>5. visits' = visits \/ visits' = [visits EXCEPT ![c] = v]
    BY <1>7, <2>1, <2>3 DEF CallAll
  <2> QED
    BY <1>2, <1>3, <2>4, <2>5
<1>8. ASSUME NEW c \in GatewayCallers, NEW ok \in BOOLEAN, ConnectReturns(c, ok) PROVE IdleVisits'
  <2>1. PICK k : k = Continue(c)
    OBVIOUS
  <2>2. PICK h : h = HandlerOf(visits[c].platform)
    OBVIOUS
  <2>3. /\ visits[c].what # "none"
        /\ \/ visits' = [visits EXCEPT ![c] = k]
           \/ visits' = [visits EXCEPT ![c] = [visits[c] EXCEPT !.what = "send", !.handler = h]]
    BY <1>1, <1>8, <2>1, <2>2 DEF ConnectReturns
  <2>4. k.what = "none" => k.handler = 0
    BY <1>4, <2>1, <2>3
  <2>5. [visits[c] EXCEPT !.what = "send", !.handler = h].what = "send"
    BY DEF GatewayInv, VisitRecords
  <2>6. PICK v : v = [visits[c] EXCEPT !.what = "send", !.handler = h]
    OBVIOUS
  <2>7. CASE visits' = [visits EXCEPT ![c] = k]
    BY <1>2, <2>4, <2>7
  <2>8. CASE visits' = [visits EXCEPT ![c] = v]
    BY <1>2, <2>5, <2>6, <2>8
  <2> QED
    BY <2>3, <2>6, <2>7, <2>8
<1>9. ASSUME NEW c \in GatewayCallers, NEW ok \in BOOLEAN, DisconnectReturns(c, ok) \/ SendReturns(c)
      PROVE  IdleVisits'
  <2>1. PICK k : k = Continue(c)
    OBVIOUS
  <2>2. visits[c].what # "none" /\ visits' = [visits EXCEPT ![c] = k]
    BY <1>9, <2>1 DEF DisconnectReturns, SendReturns
  <2> QED
    BY <1>2, <1>4, <2>1, <2>2
<1>10. CASE UNCHANGED gatewayVars
  BY <1>3, <1>10 DEF gatewayVars
<1> QED
  BY <1>5, <1>6, <1>7, <1>8, <1>9, <1>10 DEF GatewayNext

LEMMA GatewayTypesHold == GatewayInv /\ IdleVisits => GatewayTypeOK
<1> SUFFICES ASSUME GatewayInv, IdleVisits PROVE GatewayTypeOK
  OBVIOUS
<1>1. /\ TableFits /\ gateway \in Seq(Entries) /\ made \in 0..MaxHandlers /\ online \subseteq 1..made
      /\ visits \in [GatewayCallers -> VisitRecords]
      /\ \A c \in GatewayCallers : VisitFits(visits[c])
  BY DEF GatewayInv, TableFits
<1>2. \A k \in DOMAIN gateway : gateway[k] \in Entries /\ gateway[k].handler \in 1..made
  BY SlotIs, <1>1 DEF TableFits
<1>3. Cardinality(Registered) = Len(gateway)
  <2>1. PICK o : o = Order
    OBVIOUS
  <2>2. /\ DOMAIN o = DOMAIN gateway /\ \A k \in DOMAIN gateway : o[k] = gateway[k].platform
        /\ o = [k \in DOMAIN gateway |-> gateway[k].platform]
    BY <2>1 DEF Order
  <2>3. PICK n \in Nat : n = Len(gateway) /\ DOMAIN gateway = 1..n
    BY <1>1
  <2>4. \A k \in 1..n : gateway[k].platform \in Platforms
    BY <1>2, <2>3 DEF Entries
  <2>5. o \in Seq(Platforms) /\ Len(o) = n
    BY <2>2, <2>3, <2>4
  <2>6. \A i, j \in DOMAIN o : o[i] = o[j] => i = j
    BY <1>1, <2>2 DEF TableFits
  <2>7. Cardinality({o[i] : i \in DOMAIN o}) = n
    BY <2>5, <2>6, DistinctCount
  <2>8. Registered = {o[i] : i \in DOMAIN o}
    BY <2>2 DEF Registered
  <2> QED
    BY <2>3, <2>7, <2>8
<1>4. ASSUME NEW c \in GatewayCallers PROVE visits[c].handler \in 0..made
  <2>1. made \in Nat /\ visits[c].what = "none" => visits[c].handler = 0
    BY DEF IdleVisits
  <2>2. visits[c].what # "none" => visits[c].handler \in 1..made
    BY <1>1 DEF VisitFits
  <2>3. made \in Nat
    BY <1>1
  <2>4. 0 \in 0..made /\ 1..made \subseteq 0..made
    BY <2>3
  <2> QED
    BY <2>1, <2>2, <2>3, <2>4 DEF IdleVisits
<1>5. \A c \in GatewayCallers :
        /\ visits[c].call \in {"none", "one", "start", "stop", "broadcast"}
        /\ visits[c].what \in {"none", "connect", "disconnect", "reconnect", "send"}
  BY <1>1 DEF VisitRecords
<1>6. \A k \in DOMAIN gateway : gateway[k].platform \in Platforms /\ gateway[k].connected \in BOOLEAN
  BY <1>2 DEF Entries
<1> QED
  BY <1>1, <1>2, <1>3, <1>4, <1>5, <1>6 DEF GatewayTypeOK, GatewayInv

(* What bash has not read is commands and probes. *)
InputIs == input \in Seq(0..MaxCommands)

LEMMA InputStart == PtyInit => InputIs
  BY DEF PtyInit, InputIs

LEMMA InputStep ==
    ASSUME PtyInv, InputIs, PtyNext \/ UNCHANGED ptyVars
    PROVE  InputIs'
<1>1. MaxCommands \in Nat /\ command \in 0..MaxCommands /\ 0 \in 0..MaxCommands
  BY PtyNumbers DEF PtyInv, PtyTypes
<1>2. ASSUME NEW c \in 0..MaxCommands, Write(c) PROVE InputIs'
  BY <1>2 DEF InputIs, Write
<1>4. ASSUME NEW shell, PtyExecute(shell) PROVE InputIs'
  <2>1. command + 1 \in 0..MaxCommands
    BY <1>1, <1>4 DEF PtyExecute
  <2>2. PICK c : c = command + 1
    OBVIOUS
  <2>3. Write(c) \/ input' = <<c>>
    BY <1>4, <2>2 DEF PtyExecute
  <2>4. c \in 0..MaxCommands
    BY <2>1, <2>2
  <2>5. CASE Write(c)
    BY <1>2, <2>4, <2>5
  <2>6. CASE input' = <<c>>
    BY <2>4, <2>6 DEF InputIs
  <2> QED
    BY <2>3, <2>5, <2>6
<1>5. ASSUME NEW shell, NEW code, ExecuteOneShot(shell, code) PROVE InputIs'
  BY <1>5 DEF ExecuteOneShot, InputIs
<1>6. ASSUME NEW code, CommandEnds(code) PROVE InputIs'
  BY <1>6 DEF CommandEnds, InputIs
<1>7. ASSUME NEW n, ReadChunk(n) PROVE InputIs'
  BY <1>7 DEF ReadChunk, InputIs
<1>8. CASE AskForCode
  <2>1. Write(0) \/ input' = input
    BY <1>8 DEF AskForCode, ProbeExitCode
  <2> QED
    BY <1>1, <1>2, <2>1 DEF InputIs
<1>9. CASE PrintsLookalike \/ BashDies \/ PtyReturns \/ ClosePty \/ ExecuteRaises
  <2>1. input' = input \/ input' = <<>>
    BY <1>9 DEF PrintsLookalike, BashDies, PtyReturns, ClosePty, ShellIsClosed, ExecuteRaises
  <2>2. <<>> \in Seq(0..MaxCommands)
    OBVIOUS
  <2>3. CASE input' = <<>>
    BY <2>2, <2>3 DEF InputIs
  <2>4. CASE input' = input
    BY <2>4 DEF InputIs
  <2> QED
    BY <2>1, <2>3, <2>4
<1>10. CASE UNCHANGED ptyVars
  BY <1>10 DEF ptyVars, InputIs
<1> QED
  BY <1>4, <1>5, <1>6, <1>7, <1>8, <1>9, <1>10 DEF PtyNext

LEMMA PtyTypesHold == PtyInv /\ InputIs => PtyTypeOK
  BY DEF PtyInv, PtyTypes, InputIs, PtyTypeOK

(* Turns, attempts, providers and tools are counted within their limits. *)
ToolCallLists == UNION {[1..n -> ToolStates] : n \in 0..MaxToolCalls}

LoopBounds ==
    /\ turn \in 0..LoopTurns /\ attempt \in 0..LoopAttempts
    /\ loopAt = "pause" => attempt < LoopAttempts
    /\ askedProvider \in 0..Len(Providers)
    /\ toolCalls \in ToolCallLists
    /\ parallel \in BOOLEAN

LEMMA LoopLimits ==
    /\ LoopTurns \in Nat /\ LoopAttempts \in Nat /\ Len(Providers) \in Nat /\ MaxToolCalls \in Nat
    /\ 0 \in 0..LoopTurns /\ 1 \in 0..LoopTurns
    /\ 0 \in 0..LoopAttempts /\ 1 \in 0..LoopAttempts
    /\ 0 \in 0..Len(Providers) /\ 1 \in 0..Len(Providers)
    /\ <<>> \in ToolCallLists
<1>1. LoopTurns \in Nat \ {0} /\ LoopAttempts \in Nat \ {0} /\ MaxToolCalls \in Nat
      /\ Providers \in Seq({"custom", "other"}) /\ Providers # <<>>
  BY LoopAssumption
<1>2. PICK n : n = Len(Providers)
  OBVIOUS
<1>3. n \in Nat /\ n # 0
  BY <1>1, <1>2, LengthIs
<1>4. <<>> \in [1..0 -> ToolStates]
  <2>1. 1..0 = {}
    OBVIOUS
  <2> QED
    BY <2>1
<1>5. 0 \in 0..MaxToolCalls
  BY <1>1
<1>6. <<>> \in ToolCallLists
  BY <1>4, <1>5 DEF ToolCallLists
<1> QED
  BY <1>1, <1>2, <1>3, <1>6

LEMMA LoopBoundsStart == LoopInit => LoopBounds
  BY LoopLimits DEF LoopInit, LoopBounds

LEMMA LoopBoundsSteps ==
    ASSUME LoopInv, LoopBounds, LoopNext
    PROVE  LoopBounds'
<1>1. /\ turn \in 0..LoopTurns /\ attempt \in 0..LoopAttempts
      /\ loopAt = "pause" => attempt < LoopAttempts
      /\ askedProvider \in 0..Len(Providers)
      /\ toolCalls \in ToolCallLists /\ parallel \in BOOLEAN
  BY DEF LoopBounds
<1>2. ASSUME turn' = turn, attempt' = attempt, askedProvider' = askedProvider, toolCalls' \in ToolCallLists,
             parallel' = parallel, loopAt' # "pause"
      PROVE  LoopBounds'
  BY <1>1, <1>2 DEF LoopBounds
<1>3. ASSUME NextTurn, toolCalls' = toolCalls, parallel' = parallel PROVE LoopBounds'
  <2>1. CASE turn < LoopTurns
    <3>1. turn' = turn + 1 /\ attempt' = 1 /\ askedProvider' = 1 /\ loopAt' = "model"
      BY <1>3, <2>1 DEF NextTurn
    <3>2. turn' \in 0..LoopTurns
      BY <1>1, <2>1, <3>1, LoopLimits
    <3> QED
      BY <1>1, <1>3, <3>1, <3>2, LoopLimits DEF LoopBounds
  <2>2. CASE ~(turn < LoopTurns)
    <3>1. UNCHANGED <<turn, attempt, askedProvider>> /\ loopAt' = "idle"
      BY <1>3, <2>2 DEF NextTurn, LoopEnds
    <3> QED
      BY <1>1, <1>2, <1>3, <3>1
  <2> QED
    BY <2>1, <2>2
<1>4. CASE Execute
  <2>1. toolCalls' = <<>> /\ parallel' = parallel
    BY <1>4 DEF Execute
  <2>2. CASE loopAt' = "memory" /\ turn' = 0 /\ attempt' = attempt /\ askedProvider' = askedProvider
    BY <1>1, <2>1, <2>2, LoopLimits DEF LoopBounds
  <2>3. CASE loopAt' = "model" /\ turn' = 1 /\ attempt' = 1 /\ askedProvider' = 1
    BY <1>1, <2>1, <2>3, LoopLimits DEF LoopBounds
  <2> QED
    BY <1>4, <2>2, <2>3 DEF Execute
<1>5. ASSUME NEW found \in BOOLEAN, Remembered(found) PROVE LoopBounds'
  BY <1>3, <1>5 DEF Remembered
<1>6. CASE ProviderFails
  <2>1. /\ loopAt = "model" /\ UNCHANGED <<turn, attempt, toolCalls, parallel>>
        /\ loopAt' \in {"pause", "model", "idle"}
        /\ loopAt' = "pause" => attempt < LoopAttempts
        /\ \/ askedProvider' = askedProvider
           \/ askedProvider < Len(Providers) /\ askedProvider' = askedProvider + 1
    BY <1>6 DEF ProviderFails, LoopEnds
  <2>2. askedProvider' \in 0..Len(Providers)
    <3>1. PICK n \in Nat : n = Len(Providers)
      BY LoopLimits
    <3>2. askedProvider \in 0..n
      BY <1>1, <3>1
    <3>3. askedProvider' = askedProvider \/ (askedProvider < n /\ askedProvider' = askedProvider + 1)
      BY <2>1, <3>1
    <3>4. askedProvider' \in 0..n
      BY <3>2, <3>3
    <3> QED
      BY <3>1, <3>4
  <2> QED
    BY <1>1, <2>1, <2>2 DEF LoopBounds
<1>7. CASE PauseEnds
  <2>1. /\ loopAt = "pause" /\ loopAt' = "model" /\ attempt' = attempt + 1
        /\ UNCHANGED <<turn, askedProvider, toolCalls, parallel>>
    BY <1>7 DEF PauseEnds
  <2>2. attempt' \in 0..LoopAttempts
    BY <1>1, <2>1, LoopLimits
  <2> QED
    BY <1>1, <2>1, <2>2 DEF LoopBounds
<1>8. ASSUME NEW n \in 0..MaxToolCalls, ModelAnswers(n) PROVE LoopBounds'
  <2>1. UNCHANGED <<turn, attempt, askedProvider, parallel>> /\ loopAt' # "pause"
    BY <1>8 DEF ModelAnswers, LoopEnds
  <2>2. PICK ts : ts = [k \in 1..n |-> IF parallel \/ k = 1 THEN "running" ELSE "waiting"]
    OBVIOUS
  <2>3. ts \in [1..n -> ToolStates]
    BY <2>2 DEF ToolStates
  <2>4. toolCalls' = ts \/ toolCalls' = <<>>
    BY <1>8, <2>2 DEF ModelAnswers
  <2>5. toolCalls' \in ToolCallLists
    BY <2>3, <2>4, LoopLimits DEF ToolCallLists
  <2> QED
    BY <1>2, <2>1, <2>5
<1>9. ASSUME NEW k, NEW how \in {"success", "failure"}, ToolEnds(k, how) PROVE LoopBounds'
  <2>1. UNCHANGED <<loopAt, turn, attempt, askedProvider, parallel>> /\ loopAt = "tools"
    BY <1>9 DEF ToolEnds
  <2>2. PICK n \in 0..MaxToolCalls : toolCalls \in [1..n -> ToolStates]
    BY <1>1 DEF ToolCallLists
  <2>3. toolCalls' \in [1..n -> ToolStates]
    <3>1. DOMAIN toolCalls = 1..n /\ \A j \in 1..n : toolCalls[j] \in ToolStates
      BY <2>2
    <3>2. "running" \in ToolStates /\ how \in ToolStates
      BY DEF ToolStates
    <3>3. toolCalls' = [j \in DOMAIN toolCalls |->
             IF j = k THEN how
             ELSE IF j = k + 1 /\ toolCalls[j] = "waiting" THEN "running" ELSE toolCalls[j]]
      BY <1>9 DEF ToolEnds
    <3> QED
      BY <3>1, <3>2, <3>3
  <2>4. toolCalls' \in ToolCallLists
    BY <2>3 DEF ToolCallLists
  <2> QED
    BY <1>2, <2>1, <2>4
<1>10. CASE ResultsIn
  BY <1>3, <1>10 DEF ResultsIn
<1>11. ASSUME NEW ok \in BOOLEAN, SessionSaved(ok) PROVE LoopBounds'
  BY <1>1, <1>2, <1>11 DEF SessionSaved, LoopEnds
<1> QED
  BY <1>4, <1>5, <1>6, <1>7, <1>8, <1>9, <1>10, <1>11 DEF LoopNext

LEMMA LoopBoundsStep ==
    ASSUME LoopInv, LoopBounds, LoopNext \/ UNCHANGED loopVars
    PROVE  LoopBounds'
<1>1. CASE UNCHANGED loopVars
  BY <1>1 DEF LoopBounds, loopVars
<1> QED
  BY <1>1, LoopBoundsSteps

LEMMA LoopTypesHold == LoopInv /\ LoopBounds => LoopTypeOK
<1> SUFFICES ASSUME LoopInv, LoopBounds PROVE LoopTypeOK
  OBVIOUS
<1>1. \A k \in DOMAIN context : context[k] \in {"user", "system", "results", "answer"}
  BY DEF LoopInv, LoopTypes, Writers
<1> QED
  BY <1>1 DEF LoopInv, LoopTypes, LoopBounds, LoopTypeOK, ToolCallLists

(* The calls of publish() and the changes they see are bounded. *)
BusBounds == Len(publishing) <= MaxNested /\ changes \in 0..MaxChanges

LEMMA BusBoundsStart == BusInit => BusBounds
  BY BusAssumption DEF BusInit, BusBounds

LEMMA BusBoundsStep ==
    ASSUME BusInv, BusInv', BusBounds, BusNext \/ UNCHANGED busVars
    PROVE  BusBounds'
<1>1. /\ publishing \in Seq(Frames) /\ publishing' \in Seq(Frames)
      /\ Len(publishing) \in Nat /\ Len(publishing) <= MaxNested
      /\ changes \in 0..MaxChanges /\ MaxNested \in Nat /\ MaxChanges \in Nat
  BY BusAssumption DEF BusInv, BusBounds
<1>2. ASSUME Changes PROVE changes' \in 0..MaxChanges
  BY <1>1, <1>2 DEF Changes
<1>3. ASSUME DOMAIN publishing' = DOMAIN publishing PROVE Len(publishing') <= MaxNested
  <2>1. Len(publishing') = Len(publishing)
    BY <1>1, <1>3, AsLong
  <2> QED
    BY <1>1, <2>1
<1>4. ASSUME NEW h \in Subscribers, Subscribe(h) \/ Unsubscribe(h) PROVE BusBounds'
  <2>1. Changes /\ DOMAIN publishing' = DOMAIN publishing
    BY <1>4 DEF Subscribe, Unsubscribe
  <2> QED
    BY <1>2, <1>3, <2>1 DEF BusBounds
<1>5. CASE ClearHandlers
  <2>1. Changes /\ DOMAIN publishing' = DOMAIN publishing
    BY <1>5 DEF ClearHandlers
  <2> QED
    BY <1>2, <1>3, <2>1 DEF BusBounds
<1>6. CASE Publish
  <2>1. PICK f : f = [live |-> TRUE, list |-> <<>>, next |-> 1, called |-> [h \in Subscribers |-> 0],
                      stayed |-> Elements(handlers), shortened |-> FALSE]
    OBVIOUS
  <2>2. Len(publishing) < MaxNested /\ publishing' = Append(publishing, f) /\ changes' = changes
    BY <1>6, <2>1 DEF Publish
  <2>3. Len(Append(publishing, f)) = Len(publishing) + 1
    BY <1>1
  <2>4. Len(publishing') <= MaxNested
    BY <1>1, <2>2, <2>3
  <2> QED
    BY <1>1, <2>2, <2>4 DEF BusBounds
<1>7. CASE CallHandler
  <2>1. DOMAIN publishing' = DOMAIN publishing /\ changes' = changes
    BY <1>7 DEF CallHandler
  <2> QED
    BY <1>1, <1>3, <2>1 DEF BusBounds
<1>8. CASE PublishReturns
  <2>1. /\ publishing # <<>> /\ publishing' = SubSeq(publishing, 1, Len(publishing) - 1)
        /\ changes' \in {0, changes}
    BY <1>8 DEF PublishReturns
  <2>2. Len(publishing') = Len(publishing) - 1
    BY <1>1, <2>1, OneShorter
  <2>3. Len(publishing') <= MaxNested
    BY <1>1, <2>2
  <2>4. changes' \in 0..MaxChanges
    BY <1>1, <2>1
  <2> QED
    BY <2>3, <2>4 DEF BusBounds
<1>9. CASE UNCHANGED busVars
  BY <1>1, <1>9 DEF BusBounds, busVars
<1> QED
  BY <1>4, <1>5, <1>6, <1>7, <1>8, <1>9 DEF BusNext

LEMMA BusTypesHold == BusInv /\ BusBounds => BusTypeOK
<1> SUFFICES ASSUME BusInv, BusBounds PROVE BusTypeOK
  OBVIOUS
<1>1. /\ handlers \in Seq(Subscribers) /\ publishing \in Seq(Frames)
      /\ \A i, j \in DOMAIN handlers : handlers[i] = handlers[j] => i = j
  BY DEF BusInv
<1>2. Cardinality({handlers[i] : i \in DOMAIN handlers}) = Len(handlers)
  BY <1>1, DistinctCount
<1> QED
  BY <1>1, <1>2 DEF BusBounds, BusTypeOK, Elements

-----------------------------------------------------------------------------
(* Governance: what was counted and what is under way was begun.             *)

Acting == {c \in Governed : acting[c] # "nothing"}

GovernanceBounds ==
    /\ callCount \in Nat /\ acts \in 0..MaxActs
    /\ acting \in [Governed -> {"nothing", "call"} \cup Operations]
    /\ callCount + Cardinality(Acting) <= acts
    /\ seen \subseteq Operations /\ recorded \subseteq Operations
    /\ pendingApprovals \in [Requests -> ApprovalStates]
    /\ storedApprovals \in [Requests -> ApprovalStates]
    /\ commands \subseteq PatternClasses \cup {"read_only"}
    /\ granted \in [max : DOMAIN RiskOrder, allowed : BOOLEAN]
    /\ done \in [Operations -> Nat] /\ \A o \in Operations : done[o] <= acts
    /\ excused \subseteq Operations /\ unsaved \subseteq Requests

LEMMA ActingCount ==
    /\ IsFiniteSet(Acting) /\ Cardinality(Acting) \in Nat
    /\ MaxActs \in Nat /\ "nothing" \notin Operations
<1>1. Acting \subseteq Governed /\ IsFiniteSet(Governed)
  BY GovernanceAssumption DEF Acting
<1>2. IsFiniteSet(Acting)
  BY <1>1, FS_Subset
<1> QED
  BY <1>2, FS_CardinalityType, GovernanceAssumption

LEMMA OneMoreActs ==
    ASSUME DOMAIN acting = Governed, NEW c \in Governed, acting[c] = "nothing", NEW v, v # "nothing",
           acting' = [acting EXCEPT ![c] = v]
    PROVE  Cardinality(Acting') = Cardinality(Acting) + 1
<1>1. Acting' = Acting \cup {c} /\ c \notin Acting
  BY DEF Acting
<1> QED
  BY <1>1, ActingCount, FS_AddElement

LEMMA OneLessActs ==
    ASSUME DOMAIN acting = Governed, NEW c \in Governed, acting[c] # "nothing",
           acting' = [acting EXCEPT ![c] = "nothing"]
    PROVE  Cardinality(Acting') = Cardinality(Acting) - 1
<1>1. Acting' = Acting \ {c} /\ c \in Acting
  BY DEF Acting
<1> QED
  BY <1>1, ActingCount, FS_RemoveElement

LEMMA GovernanceBoundsStart == GovernanceInit => GovernanceBounds
<1> SUFFICES ASSUME GovernanceInit PROVE GovernanceBounds
  OBVIOUS
<1>1. /\ callCount = 0 /\ acts = 0 /\ acting = [c \in Governed |-> "nothing"]
      /\ done = [o \in Operations |-> 0]
  BY DEF GovernanceInit
<1>2. Acting = {}
  BY <1>1 DEF Acting
<1>3. Cardinality(Acting) = 0
  BY <1>2, FS_EmptySet
<1>4. /\ callCount \in Nat /\ acts \in 0..MaxActs /\ callCount + Cardinality(Acting) <= acts
      /\ \A o \in Operations : done[o] <= acts
  BY <1>1, <1>3, ActingCount
<1>5. granted \in [max : DOMAIN RiskOrder, allowed : BOOLEAN]
  BY DEF GovernanceInit, RiskOrder
<1>6. /\ pendingApprovals \in [Requests -> ApprovalStates] /\ storedApprovals \in [Requests -> ApprovalStates]
  BY DEF GovernanceInit, ApprovalStates
<1> QED
  BY <1>1, <1>4, <1>5, <1>6 DEF GovernanceInit, GovernanceBounds

(* The rest when calls and operations are as they were. *)
LEMMA ActsStay ==
    ASSUME GovernanceBounds, UNCHANGED <<callCount, acting, acts, done>>
    PROVE  /\ callCount' \in Nat /\ acts' \in 0..MaxActs
           /\ acting' \in [Governed -> {"nothing", "call"} \cup Operations]
           /\ callCount' + Cardinality(Acting') <= acts'
           /\ done' \in [Operations -> Nat] /\ \A o \in Operations : done'[o] <= acts'
  BY DEF GovernanceBounds, Acting

LEMMA ToolsBound ==
    ASSUME GovernanceBounds, ToolNext, ~Reboot
    PROVE  GovernanceBounds'
<1>1. /\ callCount \in Nat /\ acts \in Nat /\ acts <= MaxActs /\ MaxActs \in Nat
      /\ acting \in [Governed -> {"nothing", "call"} \cup Operations]
      /\ callCount + Cardinality(Acting) <= acts /\ Cardinality(Acting) \in Nat
      /\ done \in [Operations -> Nat] /\ \A o \in Operations : done[o] <= acts
  BY ActingCount DEF GovernanceBounds
<1>2. ASSUME callCount' \in Nat, acts' \in 0..MaxActs,
             acting' \in [Governed -> {"nothing", "call"} \cup Operations],
             callCount' + Cardinality(Acting') <= acts',
             acts <= acts', UNCHANGED <<trackerVars, approvalVars, commandVars>>
      PROVE  GovernanceBounds'
  <2>1. \A o \in Operations : done'[o] \in Nat /\ done'[o] <= acts'
    BY <1>1, <1>2 DEF trackerVars
  <2>2. done' \in [Operations -> Nat]
    BY <1>1, <1>2 DEF trackerVars
  <2> QED
    BY <1>2, <2>1, <2>2 DEF GovernanceBounds, trackerVars, approvalVars, commandVars
<1>3. ASSUME NEW c \in Governed, BeginCall(c) PROVE GovernanceBounds'
  <2>1. /\ acting[c] = "nothing" /\ acts < MaxActs /\ acts' = acts + 1 /\ callCount' = callCount
        /\ acting' = [acting EXCEPT ![c] = "call"]
        /\ UNCHANGED <<trackerVars, approvalVars, commandVars>>
    BY <1>3 DEF BeginCall
  <2>2. Cardinality(Acting') = Cardinality(Acting) + 1
    BY <1>1, <2>1, OneMoreActs
  <2>3. acts' \in 0..MaxActs /\ callCount' + Cardinality(Acting') <= acts' /\ acts <= acts'
    BY <1>1, <2>1, <2>2
  <2>4. acting' \in [Governed -> {"nothing", "call"} \cup Operations]
    BY <1>1, <2>1
  <2> QED
    BY <1>1, <1>2, <2>1, <2>3, <2>4
<1>4. ASSUME NEW c \in Governed, RecordToolCall(c) PROVE GovernanceBounds'
  <2>1. /\ acting[c] = "call" /\ acts' = acts /\ callCount' = callCount + 1
        /\ acting' = [acting EXCEPT ![c] = "nothing"]
        /\ UNCHANGED <<trackerVars, approvalVars, commandVars>>
    BY <1>4 DEF RecordToolCall
  <2>2. Cardinality(Acting') = Cardinality(Acting) - 1
    BY <1>1, <2>1, OneLessActs
  <2>3. acts' \in 0..MaxActs /\ callCount' + Cardinality(Acting') <= acts' /\ acts <= acts'
        /\ callCount' \in Nat
    BY <1>1, <2>1, <2>2
  <2>4. acting' \in [Governed -> {"nothing", "call"} \cup Operations]
    BY <1>1, <2>1
  <2> QED
    BY <1>1, <1>2, <2>1, <2>3, <2>4
<1>5. CASE ResetCounts
  <2>1. callCount' = 0 /\ UNCHANGED <<acting, acts, trackerVars, approvalVars, commandVars>>
    BY <1>5 DEF ResetCounts
  <2>2. Cardinality(Acting') = Cardinality(Acting)
    BY <2>1 DEF Acting
  <2>3. acts' \in 0..MaxActs /\ callCount' + Cardinality(Acting') <= acts' /\ acts <= acts'
    BY <1>1, <2>1, <2>2
  <2> QED
    BY <1>1, <1>2, <2>1, <2>3
<1> QED
  BY <1>3, <1>4, <1>5 DEF ToolNext

LEMMA RebootBound ==
    ASSUME GovernanceBounds, Reboot
    PROVE  GovernanceBounds'
<1>1. /\ acting' = [c \in Governed |-> "nothing"] /\ callCount' = 0 /\ seen' = {}
      /\ excused' = excused \cup {o \in Operations : Doing(o) # {}}
      /\ pendingApprovals' = [r \in Requests |-> "none"]
      /\ UNCHANGED <<recorded, done, acts, storedApprovals, unsaved, commandVars>>
  BY DEF Reboot
<1>2. acts \in Nat /\ acts <= MaxActs /\ MaxActs \in Nat
  BY ActingCount DEF GovernanceBounds
<1>3. Acting' = {}
  BY <1>1 DEF Acting
<1>4. Cardinality(Acting') = 0
  BY <1>3, FS_EmptySet
<1>5. callCount' + Cardinality(Acting') <= acts' /\ acts' \in 0..MaxActs /\ callCount' \in Nat
  BY <1>1, <1>2, <1>4
<1>6. acting' \in [Governed -> {"nothing", "call"} \cup Operations]
  BY <1>1
<1>7. pendingApprovals' \in [Requests -> ApprovalStates]
  BY <1>1 DEF ApprovalStates
<1> QED
  BY <1>1, <1>5, <1>6, <1>7 DEF GovernanceBounds, commandVars

LEMMA TrackerBound ==
    ASSUME GovernanceBounds, TrackerNext, ~Reboot
    PROVE  GovernanceBounds'
<1>1. /\ callCount \in Nat /\ acts \in Nat /\ acts <= MaxActs /\ MaxActs \in Nat
      /\ acting \in [Governed -> {"nothing", "call"} \cup Operations]
      /\ callCount + Cardinality(Acting) <= acts /\ Cardinality(Acting) \in Nat
      /\ done \in [Operations -> Nat] /\ \A o \in Operations : done[o] <= acts
      /\ seen \subseteq Operations /\ recorded \subseteq Operations /\ excused \subseteq Operations
      /\ "nothing" \notin Operations
  BY ActingCount DEF GovernanceBounds
<1>2. ASSUME callCount' = callCount, acts' \in 0..MaxActs,
             acting' \in [Governed -> {"nothing", "call"} \cup Operations],
             callCount' + Cardinality(Acting') <= acts',
             done' \in [Operations -> Nat], \A o \in Operations : done'[o] <= acts',
             seen' \subseteq Operations, recorded' \subseteq Operations, excused' \subseteq Operations,
             UNCHANGED <<approvalVars, commandVars>>
      PROVE  GovernanceBounds'
  BY <1>1, <1>2 DEF GovernanceBounds, approvalVars, commandVars
<1>3. ASSUME NEW c \in Governed, NEW o \in Operations, BeginOperation(c, o) PROVE GovernanceBounds'
  <2>1. /\ acting[c] = "nothing" /\ acts < MaxActs
        /\ seen' \subseteq Operations /\ recorded' = recorded
        /\ UNCHANGED <<callCount, approvalVars, commandVars>>
    BY <1>1, <1>3 DEF BeginOperation, toolVars
  <2>2. CASE IsDup(o)
    <3>1. UNCHANGED <<acting, acts, done, excused>>
      BY <1>3, <2>2 DEF BeginOperation
    <3>2. acts' \in 0..MaxActs
      BY <1>1, <3>1
    <3> QED
      BY <1>1, <1>2, <2>1, <3>1, <3>2, ActsStay
  <2>3. CASE ~IsDup(o)
    <3>1. /\ acting' = [acting EXCEPT ![c] = o] /\ acts' = acts + 1
          /\ done' = [done EXCEPT ![o] = done[o] + 1]
          /\ excused' \in {excused, excused \cup {o}}
      BY <1>1, <1>3, <2>3 DEF BeginOperation
    <3>2. Cardinality(Acting') = Cardinality(Acting) + 1
      BY <1>1, <2>1, <3>1, OneMoreActs
    <3>3. acts' \in 0..MaxActs /\ callCount' + Cardinality(Acting') <= acts'
      BY <1>1, <2>1, <3>1, <3>2
    <3>4. acting' \in [Governed -> {"nothing", "call"} \cup Operations]
      BY <1>1, <3>1
    <3>5. done' \in [Operations -> Nat] /\ \A p \in Operations : done'[p] <= acts'
      <4>1. \A p \in Operations : done[p] \in Nat /\ done[p] <= acts
        BY <1>1
      <4>2. \A p \in Operations : done'[p] \in {done[p], done[p] + 1}
        BY <1>1, <3>1
      <4>3. \A p \in Operations : done'[p] \in Nat /\ done'[p] <= acts'
        BY <1>1, <3>1, <4>1, <4>2
      <4> QED
        BY <1>1, <3>1, <4>3
    <3>6. excused' \subseteq Operations /\ recorded' \subseteq Operations
      BY <1>1, <2>1, <3>1
    <3> QED
      BY <1>2, <2>1, <3>3, <3>4, <3>5, <3>6
  <2> QED
    BY <2>2, <2>3
<1>4. ASSUME NEW c \in Governed, NEW o \in Operations, NEW ok \in BOOLEAN, RecordOperation(c, o, ok)
      PROVE  GovernanceBounds'
  <2>1. /\ acting[c] = o /\ acting' = [acting EXCEPT ![c] = "nothing"]
        /\ seen' = seen \cup {o} /\ recorded' \in {recorded, recorded \cup {o}}
        /\ excused' \in {excused, excused \cup {o}}
        /\ UNCHANGED <<callCount, acts, done, approvalVars, commandVars>>
    BY <1>4 DEF RecordOperation, toolVars
  <2>2. Cardinality(Acting') = Cardinality(Acting) - 1
    BY <1>1, <2>1, OneLessActs
  <2>3. acts' \in 0..MaxActs /\ callCount' + Cardinality(Acting') <= acts'
    BY <1>1, <2>1, <2>2
  <2>4. acting' \in [Governed -> {"nothing", "call"} \cup Operations]
    BY <1>1, <2>1
  <2>5. seen' \subseteq Operations /\ recorded' \subseteq Operations /\ excused' \subseteq Operations
    BY <1>1, <2>1
  <2>6. done' \in [Operations -> Nat] /\ \A p \in Operations : done'[p] <= acts'
    BY <1>1, <2>1
  <2> QED
    BY <1>2, <2>1, <2>3, <2>4, <2>5, <2>6
<1>5. ASSUME NEW old \in SUBSET Operations, ClearOld(old) PROVE GovernanceBounds'
  <2>1. /\ seen' = {} /\ recorded' = recorded \ old /\ excused' = excused \cup (old \cap recorded)
        /\ UNCHANGED <<callCount, acting, acts, done, approvalVars, commandVars>>
    BY <1>5 DEF ClearOld, toolVars
  <2>2. seen' \subseteq Operations /\ recorded' \subseteq Operations /\ excused' \subseteq Operations
    BY <1>1, <2>1
  <2> QED
    BY <1>2, <2>1, <2>2, ActsStay
<1> QED
  BY <1>3, <1>4, <1>5 DEF TrackerNext

LEMMA ApprovalBound ==
    ASSUME GovernanceBounds, ApprovalNext, ~Reboot
    PROVE  GovernanceBounds'
<1>1. ASSUME pendingApprovals' \in [Requests -> ApprovalStates],
             storedApprovals' \in [Requests -> ApprovalStates], unsaved' \subseteq Requests, Untouched
      PROVE  GovernanceBounds'
  <2>1. UNCHANGED <<callCount, acting, acts, done, seen, recorded, excused, commands, granted>>
    BY <1>1 DEF Untouched, toolVars, trackerVars, commandVars
  <2> QED
    BY <1>1, <2>1, ActsStay DEF GovernanceBounds
<1>2. /\ pendingApprovals \in [Requests -> ApprovalStates]
      /\ storedApprovals \in [Requests -> ApprovalStates] /\ unsaved \subseteq Requests
  BY DEF GovernanceBounds
<1>3. {"none", "pending", "approved", "rejected"} = ApprovalStates
  BY DEF ApprovalStates
<1>4. ASSUME NEW r \in Requests, NEW s \in ApprovalStates, NEW ok \in BOOLEAN, Stored(r, s, ok),
             pendingApprovals' = [pendingApprovals EXCEPT ![r] = s], Untouched
      PROVE  GovernanceBounds'
  <2>1. /\ storedApprovals' \in {storedApprovals, [storedApprovals EXCEPT ![r] = s]}
        /\ unsaved' \in {unsaved, unsaved \cup {r}}
    BY <1>4 DEF Stored
  <2>2. pendingApprovals' \in [Requests -> ApprovalStates]
    BY <1>2, <1>4
  <2>3. storedApprovals' \in [Requests -> ApprovalStates] /\ unsaved' \subseteq Requests
    BY <1>2, <2>1
  <2> QED
    BY <1>1, <1>4, <2>2, <2>3
<1>5. ASSUME NEW r \in Requests, NEW ok \in BOOLEAN, RequestApproval(r, ok) PROVE GovernanceBounds'
  BY <1>3, <1>4, <1>5 DEF RequestApproval
<1>6. ASSUME NEW r \in Requests, NEW ok \in BOOLEAN, NEW s \in {"approved", "rejected"}, Decide(r, s, ok)
      PROVE  GovernanceBounds'
  BY <1>3, <1>4, <1>6 DEF Decide
<1>7. CASE GetPending
  <2>1. /\ pendingApprovals' = [r \in Requests |->
             IF pendingApprovals[r] = "none" /\ storedApprovals[r] = "pending"
             THEN "pending" ELSE pendingApprovals[r]]
        /\ UNCHANGED <<storedApprovals, unsaved>> /\ Untouched
    BY <1>7 DEF GetPending
  <2>2. pendingApprovals' \in [Requests -> ApprovalStates]
    BY <1>2, <1>3, <2>1
  <2> QED
    BY <1>1, <1>2, <2>1, <2>2
<1> QED
  BY <1>5, <1>6, <1>7 DEF ApprovalNext

LEMMA CommandBound ==
    ASSUME GovernanceBounds, CommandNext
    PROVE  GovernanceBounds'
<1>1. PICK matched \in SUBSET (PatternClasses \cup {"read_only"}), max \in DOMAIN RiskOrder :
         CheckCommand(matched, max)
  BY DEF CommandNext
<1>2. /\ commands' = matched
      /\ granted' = [max |-> max, allowed |-> RiskOrder[Classify(matched)] <= RiskOrder[max]]
      /\ UNCHANGED <<callCount, acting, acts, done, seen, recorded, excused,
                     pendingApprovals, storedApprovals, unsaved>>
  BY <1>1 DEF CheckCommand, toolVars, trackerVars, approvalVars
<1>3. PICK b : b = (RiskOrder[Classify(matched)] <= RiskOrder[max])
  OBVIOUS
<1>4. b \in BOOLEAN
  <2>1. Classify(matched) \in {"destructive", "privileged", "production", "network", "modifying",
                              "read_only", "low_risk"}
    BY DEF Classify
  <2>2. RiskOrder[Classify(matched)] \in Nat /\ RiskOrder[max] \in Nat
    BY <2>1 DEF RiskOrder
  <2> QED
    BY <1>3, <2>2
<1>5. granted' \in [max : DOMAIN RiskOrder, allowed : BOOLEAN]
  BY <1>2, <1>3, <1>4
<1> QED
  BY <1>2, <1>5, ActsStay DEF GovernanceBounds

LEMMA GovernanceBoundsStep ==
    ASSUME GovernanceBounds,
           ToolNext \/ TrackerNext \/ ApprovalNext \/ CommandNext \/ UNCHANGED governanceVars
    PROVE  GovernanceBounds'
<1>1. CASE UNCHANGED governanceVars
  BY <1>1, ActsStay DEF GovernanceBounds, governanceVars
<1> QED
  BY <1>1, ToolsBound, RebootBound, TrackerBound, ApprovalBound, CommandBound

LEMMA GovernanceTypesHold == GovernanceBounds => GovernanceTypeOK
<1> SUFFICES ASSUME GovernanceBounds PROVE GovernanceTypeOK
  OBVIOUS
<1>1. /\ callCount \in Nat /\ acts \in Nat /\ acts <= MaxActs /\ MaxActs \in Nat
      /\ callCount + Cardinality(Acting) <= acts /\ Cardinality(Acting) \in Nat
      /\ done \in [Operations -> Nat] /\ \A o \in Operations : done[o] <= acts
  BY ActingCount DEF GovernanceBounds
<1>2. callCount \in 0..MaxActs /\ \A o \in Operations : done[o] \in 0..MaxActs
  BY <1>1
<1>3. done \in [Operations -> 0..MaxActs]
  BY <1>1, <1>2
<1> QED
  BY <1>2, <1>3 DEF GovernanceBounds, GovernanceTypeOK

-----------------------------------------------------------------------------
(* The services side by side: what each invariant above leaves to a bound.  *)

BoundsInv ==
    /\ part = "locks" => LockBounds
    /\ part = "pool" => PoolBounds
    /\ part \in {"schema", "recovery"} => StorageTypeOK
    /\ part = "files" => FileBounds
    /\ part = "project" => ProjectBounds
    /\ part \in {"catalog", "executor"} => CatalogTypeOK
    /\ part = "keys" => KeyBounds
    /\ part = "gateway" => IdleVisits
    /\ part = "pty" => InputIs
    /\ part = "loop" => LoopBounds
    /\ part = "events" => BusBounds
    /\ part \in {"tools", "tracker", "approvals", "commands"} => GovernanceBounds

(* All of the invariants that BoundsInv is carried along with. *)
ServicesInv == StorageInv /\ SessionsInv /\ ExecutionsInv /\ BoundsInv

LEMMA CatalogTypesStutter == CatalogTypeOK /\ UNCHANGED catalogVars => CatalogTypeOK'
<1> SUFFICES ASSUME CatalogTypeOK, UNCHANGED catalogVars PROVE CatalogTypeOK'
  OBVIOUS
<1>1. /\ catalog' = catalog /\ catalogFile' = catalogFile /\ faults' = faults /\ minute' = minute
      /\ using' = using /\ succeeded' = succeeded /\ history' = history
      /\ unsavedTools' = unsavedTools
  BY DEF catalogVars
<1> QED
  BY Zenon, <1>1 DEF CatalogTypeOK

LEMMA ServicesStart == MCInit => ServicesInv
<1>1. MCInit => SessionsInv
  BY SessionsStart
<1>2. MCInit => ExecutionsInv
  BY ExecutionsStart
<1>3. MCInit => /\ LocksInit /\ PoolInit /\ StorageInit /\ SafeFilesInit /\ FilesInit
                /\ CatalogInit /\ KeysInit
  BY Zenon DEF MCInit
<1>4. MCInit => /\ GatewayInit /\ PtyInit /\ LoopInit /\ BusInit /\ GovernanceInit
  BY Zenon DEF MCInit
<1>5. MCInit => /\ LockBounds /\ PoolBounds /\ StorageTypeOK /\ FileBounds /\ ProjectBounds
                /\ CatalogTypeOK /\ KeyBounds
  BY Zenon, <1>3, LockBoundsStart, PoolBoundsStart, StorageTypesStart, FileBoundsStart,
     ProjectBoundsStart, CatalogTypesStart, KeyBoundsStart
<1>6. MCInit => /\ IdleVisits /\ InputIs /\ LoopBounds /\ BusBounds /\ GovernanceBounds
  BY Zenon, <1>4, IdleVisitsStart, InputStart, LoopBoundsStart, BusBoundsStart, GovernanceBoundsStart
<1>7. MCInit => BoundsInv
  BY Zenon, <1>5, <1>6 DEF BoundsInv
<1> QED
  BY Zenon, <1>1, <1>2, <1>7, StorageStart DEF ServicesInv

LEMMA ServicesKeep == ServicesInv /\ [MCNext]_<<part, allVars>> => ServicesInv'
<1> SUFFICES ASSUME ServicesInv, [MCNext]_<<part, allVars>> PROVE ServicesInv'
  OBVIOUS
<1>1. StorageInv /\ SessionsInv /\ ExecutionsInv /\ BoundsInv
  BY Zenon DEF ServicesInv
<1>2. StorageInv' /\ SessionsInv' /\ ExecutionsInv'
  BY <1>1, StorageKeeps, SessionsStep, ExecutionsStep
<1>3. part' = part
  BY StorageMoves
<1>4. part = "locks" => LockBounds'
  BY <1>1, StorageMoves, LockBoundsStep DEF StorageInv, LocksInv, BoundsInv
<1>5. part = "pool" => PoolBounds'
  BY <1>1, StorageMoves, PoolBoundsStep DEF StorageInv, BoundsInv
<1>6. part = "schema" => StorageTypeOK'
  BY <1>1, <1>2, <1>3, StorageMoves, SchemaTypesStep DEF StorageInv, BoundsInv
<1>7. part = "recovery" => StorageTypeOK'
  BY <1>1, <1>2, <1>3, StorageMoves, RecoveryTypesStep DEF StorageInv, BoundsInv
<1>8. part = "files" => FileBounds'
  BY <1>1, StorageMoves, FileBoundsStep DEF StorageInv, BoundsInv
<1>9. part = "project" => ProjectBounds'
  BY <1>1, StorageMoves, ProjectBoundsStep DEF StorageInv, BoundsInv
<1>10. part = "catalog" => CatalogTypeOK'
  BY <1>1, <1>2, <1>3, StorageMoves, RegistryTypesStep, CatalogTypesStutter DEF StorageInv, BoundsInv
<1>11. part = "executor" => CatalogTypeOK'
  BY <1>1, <1>2, <1>3, ExecutionsMove, ExecutorTypesStep, CatalogTypesStutter
     DEF ExecutionsInv, BoundsInv
<1>12. part = "keys" => KeyBounds'
  BY <1>1, StorageMoves, KeyBoundsStep DEF StorageInv, BoundsInv
<1>13. part = "gateway" => IdleVisits'
  BY <1>1, SessionsMove, IdleVisitsStep DEF SessionsInv, BoundsInv
<1>14. part = "pty" => InputIs'
  BY <1>1, ExecutionsMove, InputStep DEF ExecutionsInv, BoundsInv
<1>15. part = "loop" => LoopBounds'
  BY <1>1, ExecutionsMove, LoopBoundsStep DEF ExecutionsInv, BoundsInv
<1>16. part = "events" => BusBounds'
  BY <1>1, <1>2, <1>3, ExecutionsMove, BusBoundsStep DEF ExecutionsInv, BoundsInv
<1>17. part \in {"tools", "tracker", "approvals", "commands"} => GovernanceBounds'
  BY <1>1, DecisionsMove, GovernanceBoundsStep DEF BoundsInv
<1>18. /\ part \in {"schema", "recovery"} => StorageTypeOK'
       /\ part \in {"catalog", "executor"} => CatalogTypeOK'
  BY <1>6, <1>7, <1>10, <1>11
<1>19. /\ part' = "locks" => LockBounds'
       /\ part' = "pool" => PoolBounds'
       /\ part' \in {"schema", "recovery"} => StorageTypeOK'
       /\ part' = "files" => FileBounds'
  BY Zenon, <1>3, <1>4, <1>5, <1>8, <1>18
<1>20. /\ part' = "project" => ProjectBounds'
       /\ part' \in {"catalog", "executor"} => CatalogTypeOK'
       /\ part' = "keys" => KeyBounds'
       /\ part' = "gateway" => IdleVisits'
  BY Zenon, <1>3, <1>9, <1>12, <1>13, <1>18
<1>21. /\ part' = "pty" => InputIs'
       /\ part' = "loop" => LoopBounds'
       /\ part' = "events" => BusBounds'
       /\ part' \in {"tools", "tracker", "approvals", "commands"} => GovernanceBounds'
  BY Zenon, <1>3, <1>14, <1>15, <1>16, <1>17
<1>22. BoundsInv'
  BY Zenon, <1>19, <1>20, <1>21 DEF BoundsInv
<1> QED
  BY Zenon, <1>2, <1>22 DEF ServicesInv

LEMMA ServicesInvariant == MCSpec => []ServicesInv
<1> QED
  BY ServicesStart, ServicesKeep, PTL DEF MCSpec

(* Every service keeps the types and bounds of its state, whatever its
   constants: no window, pool, history, queue of frames, nest of blocks or count
   of attempts outgrows the limit the code gives it, and every status, table and
   pending operation is one the code can hold (the constructors and limits of
   storage/, tools/, api/, auth/, web/, gateway/, execution/, core/,
   orchestration/, cache/, memory/, skills/, planning/ and cognition/). *)
THEOREM ServicesTypesHold == MCSpec => []TypeOK
<1>1. ASSUME ServicesInv
      PROVE  /\ part = "locks" => LockTypeOK
             /\ part = "pool" => PoolTypeOK
             /\ part \in {"schema", "recovery"} => StorageTypeOK
             /\ part = "files" => SafeFilesTypeOK
             /\ part = "project" => FilesTypeOK
             /\ part \in {"catalog", "executor"} => CatalogTypeOK
             /\ part = "keys" => KeysTypeOK
  BY Zenon, <1>1, LockTypesHold, PoolTypesHold, SafeFilesTypesHold, FilesTypesHold, KeysTypesHold
     DEF ServicesInv, StorageInv, BoundsInv
<1>2. ASSUME SessionsInv
      PROVE  /\ part = "agents" => AgentTypeOK
             /\ part \in {"rates", "accounts"} => AuthTypeOK
             /\ part = "terminals" => TerminalTypeOK
             /\ part = "api" => ApiTypeOK
  <2>1. /\ RatesInv => AuthTypeOK
        /\ AccountsInv => AuthTypeOK
        /\ TermsInv => TerminalTypeOK
    BY Zenon DEF RatesInv, AccountsInv, TermsInv
  <2> QED
    BY <1>2, <2>1, AgentsAreRight, ApiIsRight DEF SessionsInv
<1>3. ASSUME ServicesInv
      PROVE  /\ part = "gateway" => GatewayTypeOK
             /\ part = "pty" => PtyTypeOK
             /\ part = "loop" => LoopTypeOK
             /\ part = "events" => BusTypeOK
             /\ part \in {"tools", "tracker", "approvals", "commands"} => GovernanceTypeOK
  <2>1. SessionsInv /\ ExecutionsInv /\ BoundsInv
    BY Zenon, <1>3 DEF ServicesInv
  <2> QED
    BY Zenon, <2>1, GatewayTypesHold, PtyTypesHold, LoopTypesHold, BusTypesHold, GovernanceTypesHold
       DEF SessionsInv, ExecutionsInv, BoundsInv
<1>4. ASSUME ExecutionsInv
      PROVE  /\ part = "sandbox" => SandboxTypeOK
             /\ part = "evidence" => EvidenceTypeOK
  BY Zenon, <1>4 DEF ExecutionsInv, SandboxInv, EvidenceInv
<1>5. ASSUME DecisionsInv
      PROVE  /\ part = "routing" => RoutingTypeOK
             /\ part = "caches" => CachesTypeOK
  BY Zenon, <1>5, CachesAreRight DEF DecisionsInv, RoutingInv
<1>6. ASSUME LearningInv
      PROVE  /\ part \in {"working", "skill", "user"} => MemoryTypeOK
             /\ part = "trim" => TrimTypeOK
             /\ part \in {"facts", "projects", "chats", "conflicts"} => StoresTypeOK
             /\ part \in {"registry", "loader", "evaluator", "curator"} => SkillLibraryTypeOK
             /\ part \in {"progress", "plan", "rating"} => PlanningTypeOK
             /\ part \in {"strategy", "diff"} => JudgementTypeOK
  BY Zenon, <1>6, MemoryTypes, TrimIsRight, StoresTypes, SkillLibraryTypes, PlanningTypes,
     JudgementTypes DEF LearningInv
<1>7. ServicesInv => SessionsInv /\ ExecutionsInv
  BY Zenon DEF ServicesInv
<1>8. ServicesInv /\ DecisionsInv /\ LearningInv => TypeOK
  BY Zenon, <1>1, <1>2, <1>3, <1>4, <1>5, <1>6, <1>7 DEF TypeOK
<1> QED
  BY <1>8, ServicesInvariant, DecisionsInvariant, LearningInvariant, PTL
=============================================================================
