---------------------------- MODULE EngineProofs -----------------------------
(***************************************************************************)
(* Lemmas about the engine process and its messages, for the managers it   *)
(* serves.  First what the operators compute: entries of a list at some    *)
(* positions, tokens gathered by request, and what a pipe makes of a       *)
(* message and back (CmdDecoded, EvtDecoded).  Then EngineOK, an invariant *)
(* of the process that its own steps (ProcessOK) and those of whoever      *)
(* talks to it (OutsideOK) keep.                                           *)
(***************************************************************************)
EXTENDS EngineProcess, QueueLemmas

\* h[k] comes from h[k - 1] by a step G.
IsStep(G, n, V) == G \in [V \X (1..n) -> V]
IsRecursion(h, n, V, base, G) ==
  h \in [0..n -> V] /\ h[0] = base /\ \A k \in 1..n : h[k] = G[<<h[k - 1], k>>]

\* A function defined by recursion over 0..n exists.
LEMMA RecursionExists ==
  ASSUME NEW n \in Nat, NEW V, NEW base \in V, NEW G, IsStep(G, n, V)
  PROVE  \E h : IsRecursion(h, n, V, base, G)
<1> USE DEF IsStep
<1> DEFINE Up(k) == \E h \in [0..k -> V] :
                      h[0] = base /\ \A i \in 1..k : h[i] = G[<<h[i - 1], i>>]
           T == {k \in 1..n : ~Up(k)}
<1>1. Up(0)
  <2>1. PICK h : h = [k \in 0..0 |-> base]
    OBVIOUS
  <2>2. h \in [0..0 -> V] /\ h[0] = base /\ \A i \in 1..0 : FALSE
    BY <2>1
  <2> QED BY <2>2
<1>2. ASSUME NEW m \in 1..n, Up(m - 1) PROVE Up(m)
  <2>1. PICK h \in [0..(m - 1) -> V] :
               h[0] = base /\ \A i \in 1..(m - 1) : h[i] = G[<<h[i - 1], i>>]
    BY <1>2
  <2>2. PICK last : last = G[<<h[m - 1], m>>]
    OBVIOUS
  <2>3. last \in V
    <3>1. m - 1 \in 0..(m - 1) /\ <<h[m - 1], m>> \in V \X (1..n)
      BY <2>1
    <3> QED BY <2>2, <3>1
  <2>4. PICK g : g = [i \in 0..m |-> IF i = m THEN last ELSE h[i]]
    OBVIOUS
  <2>5. \A i \in 0..m : i # m => i \in 0..(m - 1)
    OBVIOUS
  <2>6. g \in [0..m -> V] /\ g[0] = base
    <3>1. \A i \in 0..m : g[i] \in V
      BY <2>3, <2>4, <2>5
    <3>2. 0 \in 0..m /\ 0 # m
      OBVIOUS
    <3> QED BY <2>1, <2>4, <3>1, <3>2
  <2>7. \A i \in 1..m : g[i] = G[<<g[i - 1], i>>]
    <3> SUFFICES ASSUME NEW i \in 1..m PROVE g[i] = G[<<g[i - 1], i>>]
      OBVIOUS
    <3>1. i \in 0..m /\ i - 1 \in 0..m /\ i - 1 # m /\ (i # m => i \in 1..(m - 1))
      OBVIOUS
    <3>2. g[i - 1] = h[i - 1]
      BY <2>4, <3>1
    <3>3. CASE i = m
      BY <2>2, <2>4, <3>1, <3>2, <3>3
    <3>4. CASE i # m
      BY <2>1, <2>4, <3>1, <3>2, <3>4
    <3> QED BY <3>3, <3>4
  <2> QED BY <2>6, <2>7
<1>3. T = {}
  <2> SUFFICES ASSUME T # {} PROVE FALSE
    OBVIOUS
  <2>1. PICK m \in T : \A i \in T : m <= i
    BY Smallest
  <2>2. m \in 1..n /\ ~Up(m)
    BY <2>1
  <2>3. CASE m = 1
    <3>1. m - 1 = 0
      BY <2>3
    <3> HIDE DEF Up
    <3> QED BY <1>1, <1>2, <2>2, <3>1
  <2>4. CASE m # 1
    <3>1. m - 1 \in 1..n /\ ~(m <= m - 1)
      BY <2>2, <2>4
    <3>2. Up(m - 1)
      <4> HIDE DEF Up
      <4> QED BY <2>1, <3>1
    <3> HIDE DEF Up
    <3> QED BY <1>2, <2>2, <3>2
  <2> QED BY <2>3, <2>4
<1>4. Up(n)
  <2>1. n \in 1..n => Up(n)
    <3> HIDE DEF Up
    <3> QED BY <1>3
  <2>2. n \notin 1..n => n = 0
    OBVIOUS
  <2> HIDE DEF Up
  <2> QED BY <1>1, <2>1, <2>2
<1> QED BY <1>4 DEF IsRecursion

\* FlattenSeq puts one sequence after another.
LEMMA FlattenIs ==
  ASSUME NEW S, NEW q \in Seq(Seq(S))
  PROVE  \E fl \in [0..Len(q) -> Seq(S)] :
           /\ fl[0] = <<>> /\ \A k \in 1..Len(q) : fl[k] = fl[k - 1] \o q[k]
           /\ FlattenSeq(q) = fl[Len(q)]
<1>1. PICK n \in Nat : n = Len(q)
  OBVIOUS
<1>2. PICK V : V = Seq(S)
  OBVIOUS
<1>3. PICK G : G = [x \in V \X (1..n) |-> x[1] \o q[x[2]]]
  OBVIOUS
<1>4. \A x \in V, k \in 1..n : q[k] \in V /\ x \o q[k] \in V
  BY <1>1, <1>2
<1>5. G \in [V \X (1..n) -> V] /\ \A x \in V, k \in 1..n : G[<<x, k>>] = x \o q[k]
  BY <1>3, <1>4
<1>6. <<>> \in V
  BY <1>2
<1>7. PICK h \in [0..n -> V] : h[0] = <<>> /\ \A k \in 1..n : h[k] = G[<<h[k - 1], k>>]
  <2>1. PICK b \in V : b = <<>>
    BY <1>6
  <2>2. n \in Nat /\ b \in V /\ IsStep(G, n, V)
    BY <1>5, <2>1 DEF IsStep
  <2>3. \E h : IsRecursion(h, n, V, b, G)
    BY ONLY <2>2, RecursionExists, Zenon
  <2> QED BY <2>1, <2>3 DEF IsRecursion
<1>8. \A k \in 1..n : k - 1 \in 0..n /\ h[k] = h[k - 1] \o q[k]
  <2> SUFFICES ASSUME NEW k \in 1..n PROVE k - 1 \in 0..n /\ h[k] = h[k - 1] \o q[k]
    OBVIOUS
  <2>1. k - 1 \in 0..n
    OBVIOUS
  <2>2. h[k - 1] \in V
    BY <1>7, <2>1
  <2> QED BY <1>5, <1>7, <2>1, <2>2
<1>9. CASE n = 0
  <2>1. q = <<>> /\ FlattenSeq(q) = q
    BY <1>1, <1>9, EmptySeq DEF FlattenSeq
  <2> QED BY <1>1, <1>2, <1>7, <1>8, <1>9, <2>1
<1>10. CASE n # 0
  <2> DEFINE body(f) == [i \in 1..Len(q) |-> IF i = 1 THEN q[i] ELSE f[i - 1] \o q[i]]
             g == CHOOSE f : f = body(f)
  <2>1. FlattenSeq(q) = g[Len(q)]
    BY <1>1, <1>10 DEF FlattenSeq
  <2>2. PICK r : r = [i \in 1..n |-> h[i]]
    OBVIOUS
  <2>3. r = body(r)
    <3>1. \A i \in 1..n : r[i] = IF i = 1 THEN q[i] ELSE r[i - 1] \o q[i]
      <4> SUFFICES ASSUME NEW i \in 1..n PROVE r[i] = IF i = 1 THEN q[i] ELSE r[i - 1] \o q[i]
        OBVIOUS
      <4>1. r[i] = h[i - 1] \o q[i]
        BY <1>8, <2>2
      <4>2. CASE i = 1
        <5>1. h[i - 1] = <<>> /\ q[i] \in Seq(S)
          BY <1>2, <1>4, <1>6, <1>7, <4>2
        <5> QED BY <4>1, <4>2, <5>1
      <4>3. CASE i # 1
        <5>1. i - 1 \in 1..n
          BY <4>3
        <5> QED BY <2>2, <4>1, <4>3, <5>1
      <4> QED BY <4>2, <4>3
    <3> QED BY <1>1, <2>2, <3>1
  <2>4. g = body(g)
    BY <2>3
  <2> HIDE DEF g
  <2>5. \A i \in 1..n : g[i] = IF i = 1 THEN q[i] ELSE g[i - 1] \o q[i]
    BY <1>1, <2>4
  <2> HIDE DEF body
  <2>6. PICK e : e = [k \in 0..n |-> IF k = 0 THEN <<>> ELSE g[k]]
    OBVIOUS
  <2>7. ASSUME NEW k \in 1..n, e[k - 1] = h[k - 1] PROVE e[k] = h[k]
    <3>0. k \in 0..n /\ k # 0
      OBVIOUS
    <3>1. e[k] = g[k] /\ h[k] = h[k - 1] \o q[k]
      BY <1>8, <2>6, <3>0
    <3>2. CASE k = 1
      <4>1. k - 1 = 0 /\ h[k - 1] = <<>>
        BY <1>7, <3>2
      <4>2. g[k] = q[k]
        BY <2>5, <3>2
      <4>3. q[k] \in Seq(S)
        BY <1>2, <1>4, <1>6
      <4>4. <<>> \o q[k] = q[k]
        BY <4>3
      <4> QED BY <3>1, <4>1, <4>2, <4>4
    <3>3. CASE k # 1
      <4>1. k - 1 \in 0..n /\ k - 1 # 0
        BY <3>3
      <4>2. g[k] = g[k - 1] \o q[k]
        BY <2>5, <3>3
      <4> QED BY <2>6, <2>7, <3>1, <4>1, <4>2
    <3> QED BY <3>2, <3>3
  <2>8. e[n] = h[n]
    <3> DEFINE T == {k \in 1..n : e[k] # h[k]}
    <3>1. e[0] = h[0]
      BY <1>7, <2>6
    <3>2. ASSUME T # {} PROVE FALSE
      <4>1. PICK m \in T : \A i \in T : m <= i
        BY <3>2, Smallest
      <4>2. m \in 1..n /\ e[m] # h[m]
        BY <4>1
      <4>3. e[m - 1] = h[m - 1]
        <5>1. CASE m = 1
          BY <3>1, <5>1
        <5>2. CASE m # 1
          <6>1. m - 1 \in 1..n /\ ~(m <= m - 1)
            BY <4>2, <5>2
          <6> QED BY <4>1, <6>1
        <5> QED BY <5>1, <5>2
      <4> QED BY <2>7, <4>2, <4>3
    <3> QED BY <1>10, <3>2
  <2>9. e[n] = g[n]
    BY <1>10, <2>6
  <2> QED BY <1>1, <1>2, <1>7, <1>8, <2>1, <2>8, <2>9
<1> QED BY <1>9, <1>10

\* One sequence alone.
LEMMA FlattenOne ==
  ASSUME NEW S, NEW x \in Seq(S)
  PROVE  FlattenSeq(<<x>>) = x /\ FlattenSeq(<<>>) = <<>>
<1>1. <<x>> \in Seq(Seq(S)) /\ Len(<<x>>) = 1 /\ <<x>>[1] = x
  OBVIOUS
<1>2. PICK fl \in [0..1 -> Seq(S)] :
             /\ fl[0] = <<>> /\ \A k \in 1..1 : fl[k] = fl[k - 1] \o <<x>>[k]
             /\ FlattenSeq(<<x>>) = fl[1]
  BY <1>1, FlattenIs
<1>3. fl[1] = <<>> \o x
  <2>1. PICK k \in 1..1 : k = 1 /\ k - 1 = 0
    OBVIOUS
  <2> QED BY <1>1, <1>2, <2>1
<1>4. <<>> \o x = x
  OBVIOUS
<1>5. FlattenSeq(<<>>) = <<>>
  BY DEF FlattenSeq
<1> QED BY <1>2, <1>3, <1>4, <1>5

-----------------------------------------------------------------------------
\* How many places of I come before i.
Rank(I, i) == Cardinality({j \in I : j < i})

\* The ranks of n places are 0, ..., n - 1, each once and in order.
LEMMA RankFacts ==
  ASSUME NEW n \in Nat, NEW I, I \subseteq 1..n
  PROVE  /\ IsFiniteSet(I) /\ Cardinality(I) \in 0..n
         /\ \A i \in I : Rank(I, i) \in 0..(Cardinality(I) - 1)
         /\ \A i, j \in I : i < j => Rank(I, i) < Rank(I, j)
         /\ \A k \in 1..Cardinality(I) : \E i \in I : Rank(I, i) = k - 1
<1>1. IsFiniteSet(1..n) /\ Cardinality(1..n) = n
  BY FS_Interval
<1>2. IsFiniteSet(I) /\ Cardinality(I) \in 0..n
  <2>1. I \in SUBSET (1..n)
    OBVIOUS
  <2>2. IsFiniteSet(I) /\ Cardinality(I) <= n
    BY <1>1, <2>1, FS_Subset
  <2>3. Cardinality(I) \in Nat
    BY <2>2, FS_CardinalityType
  <2> QED BY <2>2, <2>3
<1>3. PICK c \in Nat : c = Cardinality(I)
  BY <1>2
<1>4. ASSUME NEW i \in I
      PROVE  Rank(I, i) \in 0..(c - 1)
  <2>1. PICK B : B = {j \in I : j < i}
    OBVIOUS
  <2>2. B \in SUBSET I /\ i \notin B /\ B # I
    BY <2>1, <1>4
  <2>3. IsFiniteSet(B) /\ Cardinality(B) <= c /\ Cardinality(B) # c
    BY <1>2, <1>3, <2>2, FS_Subset
  <2>4. Cardinality(B) \in Nat
    BY <2>3, FS_CardinalityType
  <2> QED BY <1>3, <2>1, <2>3, <2>4 DEF Rank
<1>5. ASSUME NEW i \in I, NEW j \in I, i < j
      PROVE  Rank(I, i) < Rank(I, j)
  <2>1. PICK B, C : B = {k \in I : k < i} /\ C = {k \in I : k < j}
    OBVIOUS
  <2>0. \A k \in I : k < i => k < j
    BY <1>5
  <2>2. C \in SUBSET I /\ B \in SUBSET C /\ i \in C /\ i \notin B /\ B # C
    <3>1. ~(i < i)
      OBVIOUS
    <3>2. i \in C /\ i \notin B
      BY <1>5, <2>1, <3>1
    <3> QED BY <2>0, <2>1, <3>2
  <2>3. IsFiniteSet(C)
    BY <1>2, <2>2, FS_Subset
  <2>4. IsFiniteSet(B) /\ Cardinality(B) <= Cardinality(C) /\ Cardinality(C) # Cardinality(B)
    BY <2>2, <2>3, FS_Subset
  <2>5. Cardinality(B) \in Nat /\ Cardinality(C) \in Nat
    BY <2>3, <2>4, FS_CardinalityType
  <2> QED BY <2>1, <2>4, <2>5 DEF Rank
<1>6. PICK f : f = [i \in I |-> Rank(I, i)]
  OBVIOUS
<1>7. f \in [I -> 0..(c - 1)]
  BY <1>4, <1>6
<1>8. \A i, j \in I : f[i] = f[j] => i = j
  <2> SUFFICES ASSUME NEW i \in I, NEW j \in I, f[i] = f[j], i # j PROVE FALSE
    OBVIOUS
  <2>1. Rank(I, i) = Rank(I, j) /\ Rank(I, i) \in Nat
    BY <1>4, <1>6
  <2>2. i < j \/ j < i
    OBVIOUS
  <2> QED BY <1>5, <2>1, <2>2
<1>9. f \in Surjection(I, 0..(c - 1))
  <2>1. f \in Injection(I, 0..(c - 1))
    BY <1>7, <1>8 DEF Injection, IsInjective
  <2>2. IsFiniteSet(0..(c - 1)) /\ Cardinality(0..(c - 1)) = c
    <3>1. PICK d \in Int : d = c - 1
      OBVIOUS
    <3>2. IsFiniteSet(0..d) /\ Cardinality(0..d) = IF 0 > d THEN 0 ELSE d - 0 + 1
      BY FS_Interval
    <3> QED BY <3>1, <3>2
  <2> QED BY <1>2, <1>3, <2>1, <2>2, FS_Injection
<1>10. ASSUME NEW k \in 1..c PROVE \E i \in I : Rank(I, i) = k - 1
  <2>1. k - 1 \in 0..(c - 1)
    BY <1>3
  <2> QED BY <1>6, <1>9, <2>1 DEF Surjection
<1> QED BY <1>2, <1>3, <1>4, <1>5, <1>10

\* The positions of I are its elements, in order.
LEMMA PositionFacts ==
  ASSUME NEW n \in Nat, NEW I, I \subseteq 1..n
  PROVE  /\ IsFiniteSet(I) /\ Cardinality(I) \in 0..n
         /\ \A k \in 1..Cardinality(I) : Position(I, k) \in I /\ Position(I, k) \in 1..n
         /\ \A k, l \in 1..Cardinality(I) : k < l => Position(I, k) < Position(I, l)
         /\ \A i \in I : \E k \in 1..Cardinality(I) : Position(I, k) = i
<1>1. /\ IsFiniteSet(I) /\ Cardinality(I) \in 0..n
      /\ \A i \in I : Rank(I, i) \in 0..(Cardinality(I) - 1)
      /\ \A i, j \in I : i < j => Rank(I, i) < Rank(I, j)
      /\ \A k \in 1..Cardinality(I) : \E i \in I : Rank(I, i) = k - 1
  BY RankFacts
<1>2. PICK c \in Nat : c = Cardinality(I)
  BY <1>1
<1>3. ASSUME NEW k \in 1..c
      PROVE  Position(I, k) \in I /\ Rank(I, Position(I, k)) = k - 1
  <2>1. \E i \in I : Cardinality({j \in I : j < i}) = k - 1
    BY <1>1, <1>2 DEF Rank
  <2> QED BY <2>1 DEF Position, Rank
<1>4. ASSUME NEW k \in 1..c, NEW l \in 1..c, k < l
      PROVE  Position(I, k) < Position(I, l)
  <2>1. PICK i, j : i = Position(I, k) /\ j = Position(I, l)
    OBVIOUS
  <2>2. i \in I /\ j \in I /\ Rank(I, i) = k - 1 /\ Rank(I, j) = l - 1
    BY <1>3, <2>1
  <2>3. i \in Nat /\ j \in Nat
    BY <2>2
  <2>4. ~(j < i) /\ i # j
    BY <1>1, <1>4, <2>2
  <2> QED BY <2>1, <2>3, <2>4
<1>5. ASSUME NEW i \in I PROVE \E k \in 1..c : Position(I, k) = i
  <2>1. PICK k : k = Rank(I, i) + 1
    OBVIOUS
  <2>2. Rank(I, i) \in 0..(c - 1)
    BY <1>1, <1>2
  <2>3. k \in 1..c /\ k - 1 = Rank(I, i)
    BY <1>2, <2>1, <2>2
  <2>4. PICK j : j = Position(I, k)
    OBVIOUS
  <2>5. j \in I /\ Rank(I, j) = Rank(I, i)
    BY <1>3, <2>3, <2>4
  <2>6. ~(i < j) /\ ~(j < i) /\ i \in Nat /\ j \in Nat
    BY <1>1, <2>2, <2>5
  <2> QED BY <2>3, <2>4, <2>6
<1> QED BY <1>1, <1>2, <1>3, <1>4, <1>5

\* The entries at some positions.
LEMMA EntriesFacts ==
  ASSUME NEW S, NEW q \in Seq(S), NEW I, I \subseteq DOMAIN q
  PROVE  /\ EntriesAt(q, I) \in Seq({q[i] : i \in I})
         /\ EntriesAt(q, I) \in Seq(S)
         /\ Len(EntriesAt(q, I)) = Cardinality(I)
         /\ DOMAIN EntriesAt(q, I) = 1..Cardinality(I)
         /\ IsFiniteSet(I) /\ Cardinality(I) \in Nat
         /\ Range(EntriesAt(q, I)) = {q[i] : i \in I}
         /\ \A k \in 1..Cardinality(I) :
              EntriesAt(q, I)[k] = q[Position(I, k)] /\ Position(I, k) \in I
<1>1. PICK n \in Nat : n = Len(q) /\ DOMAIN q = 1..n
  OBVIOUS
<1>2. /\ IsFiniteSet(I) /\ Cardinality(I) \in 0..n
      /\ \A k \in 1..Cardinality(I) : Position(I, k) \in I /\ Position(I, k) \in 1..n
      /\ \A i \in I : \E k \in 1..Cardinality(I) : Position(I, k) = i
  <2>1. I \subseteq 1..n
    BY <1>1
  <2> QED BY <2>1, PositionFacts
<1>3. PICK c \in Nat : c = Cardinality(I)
  BY <1>2
<1>4. PICK e : e = EntriesAt(q, I)
  OBVIOUS
<1>5. PICK T : T = {q[i] : i \in I}
  OBVIOUS
<1>6. e = [k \in 1..c |-> q[Position(I, k)]] /\ \A k \in 1..c : e[k] = q[Position(I, k)]
  BY <1>3, <1>4 DEF EntriesAt
<1>7. \A k \in 1..c : e[k] \in T
  BY <1>2, <1>3, <1>5, <1>6
<1>8. e \in [1..c -> T]
  BY <1>6, <1>7
<1>9. T \subseteq S
  BY <1>1, <1>5
<1>10. e \in Seq(T) /\ Len(e) = c /\ DOMAIN e = 1..c /\ e \in Seq(S)
  BY <1>8, <1>9
<1>11. Range(e) = T
  <2>1. ASSUME NEW x \in T PROVE x \in Range(e)
    <3>1. PICK i \in I : x = q[i]
      BY <1>5
    <3>2. PICK k \in 1..c : Position(I, k) = i
      BY <1>2, <1>3
    <3> QED BY <1>6, <1>10, <3>1, <3>2 DEF Range
  <2> QED BY <1>7, <1>10, <2>1 DEF Range
<1> QED BY <1>2, <1>3, <1>4, <1>5, <1>6, <1>10, <1>11

\* No positions, one, or two.
LEMMA EntriesSmall ==
  ASSUME NEW S, NEW q \in Seq(S)
  PROVE  /\ EntriesAt(q, {}) = <<>>
         /\ \A i \in DOMAIN q : EntriesAt(q, {i}) = <<q[i]>>
         /\ \A i, j \in DOMAIN q : i < j => EntriesAt(q, {i, j}) = <<q[i], q[j]>>
<1>1. EntriesAt(q, {}) = <<>>
  <2>1. PICK I : I = {}
    OBVIOUS
  <2>2. Cardinality(I) = 0 /\ I \subseteq DOMAIN q
    BY <2>1, FS_EmptySet
  <2>3. EntriesAt(q, I) \in Seq(S) /\ Len(EntriesAt(q, I)) = Cardinality(I)
    BY <2>2, EntriesFacts
  <2>4. EntriesAt(q, I) = <<>>
    BY <2>2, <2>3, EmptySeq
  <2> QED BY <2>1, <2>4
<1>2. ASSUME NEW i \in DOMAIN q PROVE EntriesAt(q, {i}) = <<q[i]>>
  <2>1. PICK I : I = {i}
    OBVIOUS
  <2>2. Cardinality(I) = 1 /\ I \subseteq DOMAIN q
    BY <2>1, FS_Singleton
  <2>3. /\ EntriesAt(q, I) \in Seq(S) /\ Len(EntriesAt(q, I)) = 1
        /\ \A k \in 1..1 : EntriesAt(q, I)[k] = q[Position(I, k)] /\ Position(I, k) \in I
    BY <2>2, EntriesFacts
  <2>4. EntriesAt(q, I)[1] = q[i]
    BY <2>1, <2>3
  <2> QED BY <2>1, <2>3, <2>4
<1>3. ASSUME NEW i \in DOMAIN q, NEW j \in DOMAIN q, i < j
      PROVE  EntriesAt(q, {i, j}) = <<q[i], q[j]>>
  <2>1. PICK I : I = {i, j}
    OBVIOUS
  <2>2. Cardinality(I) = 2 /\ I \subseteq DOMAIN q
    <3>1. IsFiniteSet({i}) /\ Cardinality({i}) = 1
      BY FS_Singleton
    <3>2. I = {i} \cup {j} /\ j \notin {i}
      BY <1>3, <2>1
    <3>3. Cardinality({i} \cup {j}) = Cardinality({i}) + 1
      BY <3>1, <3>2, FS_AddElement
    <3>4. Cardinality({i} \cup {j}) = 2
      BY <3>1, <3>3
    <3>5. I \subseteq DOMAIN q
      BY <2>1
    <3> QED BY <3>2, <3>4, <3>5, Zenon
  <2>3. /\ EntriesAt(q, I) \in Seq(S) /\ Len(EntriesAt(q, I)) = 2
        /\ \A k \in 1..2 : EntriesAt(q, I)[k] = q[Position(I, k)] /\ Position(I, k) \in I
    BY <2>2, EntriesFacts
  <2>4. Position(I, 1) < Position(I, 2)
    <3>1. PICK n \in Nat : DOMAIN q = 1..n
      OBVIOUS
    <3>2. \A k, l \in 1..Cardinality(I) : k < l => Position(I, k) < Position(I, l)
      BY <2>2, <3>1, PositionFacts
    <3> QED BY <2>2, <3>2
  <2>5. Position(I, 1) = i /\ Position(I, 2) = j
    BY <1>3, <2>1, <2>3, <2>4
  <2> QED BY <2>1, <2>3, <2>5
<1> QED BY <1>1, <1>2, <1>3

-----------------------------------------------------------------------------
\* Positions that leave none out before them.
LEMMA DownClosed ==
  ASSUME NEW n \in Nat, NEW T, T \subseteq 1..n,
         \A i \in T, j \in 1..n : j < i => j \in T
  PROVE  \E p \in 0..n : T = 1..p /\ Cardinality(T) = p
<1>1. ASSUME NEW p \in 0..n PROVE Cardinality(1..p) = p
  BY FS_Interval
<1>2. CASE T = 1..n
  <2>1. n \in 0..n
    OBVIOUS
  <2> QED BY <1>1, <1>2, <2>1
<1>3. CASE T # 1..n
  <2>1. PICK C : C = (1..n) \ T
    OBVIOUS
  <2>2. C \subseteq 1..n /\ C # {}
    BY <1>3, <2>1
  <2>3. PICK m \in C : \A i \in C : m <= i
    BY <2>2, Smallest
  <2>4. m \in 1..n /\ m \notin T /\ m \in Nat
    BY <2>1, <2>3
  <2>5. T = 1..(m - 1)
    <3>1. ASSUME NEW i \in T PROVE i \in 1..(m - 1)
      <4>1. i \in 1..n /\ i # m /\ ~(m < i)
        BY <2>4
      <4> QED BY <2>4, <4>1
    <3>2. ASSUME NEW i \in 1..(m - 1) PROVE i \in T
      <4>1. i \in 1..n /\ ~(m <= i)
        BY <2>4
      <4> QED BY <2>1, <2>3, <4>1
    <3> QED BY <3>1, <3>2
  <2>6. m - 1 \in 0..n
    BY <2>4
  <2> QED BY <1>1, <2>5, <2>6
<1> QED BY <1>2, <1>3

\* Fewer of the places before a later one.
LEMMA RankMono ==
  ASSUME NEW n \in Nat, NEW I, I \subseteq 1..n, NEW J, J \subseteq I,
         NEW i \in 1..n, NEW j \in 1..n, j <= i
  PROVE  Rank(J, j) \in Nat /\ Rank(I, i) \in Nat /\ Rank(J, j) <= Rank(I, i)
<1>1. IsFiniteSet(I)
  BY RankFacts
<1>2. PICK B, C : B = {k \in J : k < j} /\ C = {k \in I : k < i}
  OBVIOUS
<1>3. \A k \in I : k < j => k < i
  OBVIOUS
<1>4. B \in SUBSET C /\ C \in SUBSET I
  BY <1>2, <1>3
<1>5. IsFiniteSet(C)
  BY <1>1, <1>4, FS_Subset
<1>6. IsFiniteSet(B) /\ Cardinality(B) <= Cardinality(C)
  BY <1>4, <1>5, FS_Subset
<1>7. Cardinality(B) \in Nat /\ Cardinality(C) \in Nat
  BY <1>5, <1>6, FS_CardinalityType
<1> QED BY <1>2, <1>6, <1>7 DEF Rank

\* With room for n sessions of which some are taken, as many are admitted as fit.
LEMMA LimitFacts ==
  ASSUME IsFiniteSet(active), Cardinality(active) <= KVConc
  PROVE  /\ AdmitLimit \in Nat /\ Cardinality(active) + AdmitLimit <= KVConc
         /\ Cardinality(active) \in Nat
<1>1. Cardinality(active) \in Nat
  BY FS_CardinalityType
<1>2. KVConc \in Nat /\ MaxBatch \in Nat
  BY EngineAssumption
<1> QED BY <1>1, <1>2 DEF AdmitLimit

\* Requests are taken from the front of `pending', no more than the limit.
LEMMA PoppedFacts ==
  ASSUME pend \in Seq(Requests), AdmitLimit \in Nat
  PROVE  /\ \E p \in 0..Len(pend) : Popped = 1..p /\ Cardinality(Popped) = p
         /\ Cardinality(Live \cap Popped) <= AdmitLimit
         /\ Live \subseteq DOMAIN pend /\ Popped \subseteq DOMAIN pend
<1>1. PICK n \in Nat : n = Len(pend) /\ DOMAIN pend = 1..n
  OBVIOUS
<1>2. Live \subseteq 1..n /\ Popped \subseteq 1..n
  BY <1>1 DEF Live, Popped
<1>3. \A i \in 1..n : i \in Popped <=> Rank(Live, i) < AdmitLimit
  BY <1>1 DEF Popped, Rank
<1>4. ASSUME NEW i \in Popped, NEW j \in 1..n, j < i PROVE j \in Popped
  <2>1. i \in 1..n /\ j <= i /\ Live \subseteq Live
    BY <1>2, <1>4
  <2>2. Rank(Live, j) \in Nat /\ Rank(Live, i) \in Nat /\ Rank(Live, j) <= Rank(Live, i)
    BY <1>2, <2>1, RankMono
  <2> QED BY <1>3, <2>1, <2>2
<1>5. \E p \in 0..n : Popped = 1..p /\ Cardinality(Popped) = p
  BY <1>2, <1>4, DownClosed
<1>6. PICK X : X = Live \cap Popped
  OBVIOUS
<1>7. X \subseteq 1..n /\ X \subseteq Live
  BY <1>2, <1>6
<1>8. Cardinality(X) <= AdmitLimit
  <2>1. /\ Cardinality(X) \in Nat
        /\ \A k \in 1..Cardinality(X) : \E i \in X : Rank(X, i) = k - 1
    <3>1. Cardinality(X) \in 0..n
      BY <1>7, RankFacts
    <3>2. \A k \in 1..Cardinality(X) : \E i \in X : Rank(X, i) = k - 1
      BY ONLY <1>7, RankFacts, n \in Nat, Zenon
    <3> QED BY <3>1, <3>2
  <2> SUFFICES ASSUME ~(Cardinality(X) <= AdmitLimit) PROVE FALSE
    OBVIOUS
  <2>2. AdmitLimit + 1 \in 1..Cardinality(X)
    BY <2>1
  <2>3. PICK i \in X : Rank(X, i) = (AdmitLimit + 1) - 1
    BY <2>1, <2>2
  <2>4. i \in 1..n /\ i <= i /\ i \in Popped
    BY <1>6, <1>7
  <2>5. Rank(X, i) <= Rank(Live, i) /\ Rank(Live, i) \in Nat
    BY <1>2, <1>7, <2>4, RankMono
  <2> QED BY <1>3, <2>3, <2>4, <2>5
<1> QED BY <1>1, <1>2, <1>5, <1>6, <1>8

-----------------------------------------------------------------------------
\* A word ahead of others.
LEMMA ConsFacts ==
  ASSUME NEW S, NEW q \in Seq(S), NEW a \in S
  PROVE  /\ <<a>> \o q \in Seq(S) /\ Len(<<a>> \o q) = 1 + Len(q)
         /\ (<<a>> \o q)[1] = a /\ \A i \in 1..Len(q) : (<<a>> \o q)[1 + i] = q[i]
OBVIOUS

\* Words found where they were put.
LEMMA SliceIs ==
  ASSUME NEW S, NEW m \in Seq(S), NEW q \in Seq(S), NEW off \in Nat,
         off + Len(q) <= Len(m), \A i \in 1..Len(q) : m[off + i] = q[i]
  PROVE  Slice(m, off, Len(q)) = q
<1>1. PICK n \in Nat : n = Len(q)
  OBVIOUS
<1>2. PICK z : z = SubSeq(m, off + 1, off + n)
  OBVIOUS
<1>3. z \in Seq(S) /\ Len(z) = n /\ \A i \in 1..n : z[i] = m[off + i]
  BY <1>1, <1>2
<1>4. \A i \in 1..n : z[i] = q[i]
  BY <1>1, <1>3
<1>5. z = q
  BY <1>1, <1>3, <1>4, SeqEqual
<1> QED BY <1>1, <1>2, <1>5 DEF Slice

\* The commands of the manager.
CmdSet == {Add(r) : r \in Requests} \cup {Cancel(r) : r \in Requests} \cup {Shutdown}

\* What a pipe does to a command is undone.
LEMMA CmdDecoded ==
  ASSUME NEW c \in CmdSet
  PROVE  DecodeCmd(EncodeCmd(c)) = c
<1>1. CASE c = Shutdown
  <2>1. PICK m : m = <<5>> \o <<>>
    OBVIOUS
  <2>2. m[1] = 5
    BY <2>1
  <2>3. EncodeCmd(c) = m
    BY <1>1, <2>1 DEF EncodeCmd, CmdCode, Shutdown
  <2> QED BY <1>1, <2>2, <2>3 DEF DecodeCmd, CmdCode, Is, Shutdown
<1>2. ASSUME NEW r \in Requests, c = Cancel(r) PROVE DecodeCmd(EncodeCmd(c)) = c
  <2>1. PICK m : m = <<2>> \o <<r>>
    OBVIOUS
  <2>2. m[1] = 2 /\ m[2] = r
    BY <2>1
  <2>3. EncodeCmd(c) = m
    BY <1>2, <2>1 DEF EncodeCmd, CmdCode, Cancel
  <2> QED BY <1>2, <2>2, <2>3 DEF DecodeCmd, CmdCode, Is
<1>3. ASSUME NEW r \in Requests, c = Add(r) PROVE DecodeCmd(EncodeCmd(c)) = c
  <2>1. PICK p : p = PromptOf[r]
    OBVIOUS
  <2>2. PICK S : S = Requests \cup Nat
    OBVIOUS
  <2>3. p \in Seq(Nat) /\ Len(p) \in Nat
    BY <2>1, MessagesAssumption
  <2>4. p \in Seq(S) /\ r \in S /\ Len(p) \in S /\ 1 \in S
    BY <2>2, <2>3
  <2>5. PICK x : x = <<Len(p)>> \o p
    OBVIOUS
  <2>6. x \in Seq(S) /\ Len(x) = 1 + Len(p) /\ x[1] = Len(p) /\ \A i \in 1..Len(p) : x[1 + i] = p[i]
    BY <2>4, <2>5, ConsFacts
  <2>7. PICK y : y = <<r>> \o x
    OBVIOUS
  <2>8. y \in Seq(S) /\ Len(y) = 1 + Len(x) /\ y[1] = r /\ \A i \in 1..Len(x) : y[1 + i] = x[i]
    BY <2>4, <2>6, <2>7, ConsFacts
  <2>9. PICK m : m = <<1>> \o y
    OBVIOUS
  <2>10. m \in Seq(S) /\ Len(m) = 1 + Len(y) /\ m[1] = 1 /\ \A i \in 1..Len(y) : m[1 + i] = y[i]
    BY <2>4, <2>8, <2>9, ConsFacts
  <2>11. m[2] = r /\ m[3] = Len(p)
    <3>1. 1 \in 1..Len(y) /\ 2 \in 1..Len(y) /\ 1 \in 1..Len(x)
      BY <2>3, <2>6, <2>8
    <3>2. m[1 + 1] = y[1] /\ m[1 + 2] = y[2] /\ y[1 + 1] = x[1]
      BY <2>8, <2>10, <3>1
    <3> QED BY <2>6, <2>8, <3>2
  <2>12. Slice(m, 3, Len(p)) = p
    <3>1. \A i \in 1..Len(p) : /\ 1 + i \in 1..Len(x) /\ 2 + i \in 1..Len(y)
                               /\ 1 + (2 + i) = 3 + i /\ 1 + (1 + i) = 2 + i
      BY <2>3, <2>6, <2>8
    <3>2. \A i \in 1..Len(p) : m[3 + i] = y[2 + i]
      BY <2>10, <3>1
    <3>3. \A i \in 1..Len(p) : y[2 + i] = x[1 + i]
      BY <2>8, <3>1
    <3>4. \A i \in 1..Len(p) : m[3 + i] = p[i]
      BY <2>6, <3>2, <3>3
    <3>5. 3 + Len(p) <= Len(m) /\ 3 \in Nat
      BY <2>3, <2>6, <2>8, <2>10
    <3> QED BY <2>4, <2>10, <3>4, <3>5, SliceIs
  <2>13. EncodeCmd(c) = m
    BY <1>3, <2>1, <2>5, <2>7, <2>9 DEF EncodeCmd, CmdCode, Add, Prefixed
  <2>14. DecodeCmd(m) = [op |-> "add", on |-> <<r>>, lens |-> <<Len(p)>>, toks |-> p]
    BY <2>10, <2>11, <2>12 DEF DecodeCmd, CmdCode, Is
  <2> QED BY <1>3, <2>1, <2>13, <2>14 DEF Add
<1> QED BY <1>1, <1>2, <1>3 DEF CmdSet

-----------------------------------------------------------------------------
\* Events with tokens.
PairSet == [rid : Requests, tok : Nat]
ListSet == [rid : Requests, tok : Seq(Nat)]

\* Three sequences one after another.
Three(y, p, q, t, S) ==
  /\ y \in Seq(S) /\ Len(y) = Len(p) + Len(q) + Len(t)
  /\ \A i \in 1..Len(p) : y[i] = p[i]
  /\ \A i \in 1..Len(q) : y[Len(p) + i] = q[i]
  /\ \A i \in 1..Len(t) : y[Len(p) + Len(q) + i] = t[i]

LEMMA ThreeFacts ==
  ASSUME NEW S, NEW p \in Seq(S), NEW q \in Seq(S), NEW t \in Seq(S)
  PROVE  Three(p \o q \o t, p, q, t, S)
<1>1. PICK x, l, m, n : x = p \o q /\ l = Len(p) /\ m = Len(q) /\ n = Len(t)
  OBVIOUS
<1>2. l \in Nat /\ m \in Nat /\ n \in Nat
  BY <1>1
<1>3. x \in Seq(S) /\ Len(x) = l + m /\ (\A i \in 1..l : x[i] = p[i]) /\ \A i \in 1..m : x[l + i] = q[i]
  BY <1>1
<1>4. PICK y : y = x \o t
  OBVIOUS
<1>5. y \in Seq(S) /\ Len(y) = l + m + n /\ (\A i \in 1..(l + m) : y[i] = x[i])
      /\ \A i \in 1..n : y[(l + m) + i] = t[i]
  BY ONLY <1>1, <1>2, <1>3, <1>4, t \in Seq(S)
<1>6. (\A i \in 1..l : i \in 1..(l + m)) /\ \A i \in 1..m : l + i \in 1..(l + m)
  BY <1>2
<1>7. Three(y, p, q, t, S)
  BY ONLY <1>1, <1>3, <1>5, <1>6 DEF Three
<1> QED BY <1>1, <1>4, <1>7

\* The finished requests at the end of a message.
EndsWith(m, off, f) ==
  /\ off + 1 + Len(f) <= Len(m) /\ m[off + 1] = Len(f)
  /\ \A i \in 1..Len(f) : m[off + 1 + i] = f[i]

LEMMA FinishedRead ==
  ASSUME NEW S, NEW m \in Seq(S), NEW fin, IsFiniteSet(fin), fin \subseteq S, NEW off \in Nat,
         EndsWith(m, off, SetToSeq(fin))
  PROVE  Range(Slice(m, off + 1, m[off + 1])) = fin
<1>1. PICK f : f = SetToSeq(fin)
  OBVIOUS
<1>2. f \in Seq(fin) /\ Range(f) = fin
  BY <1>1, SetToSeqFacts
<1>3. f \in Seq(S) /\ off + 1 \in Nat
  BY <1>2
<1>4. /\ off + 1 + Len(f) <= Len(m) /\ m[off + 1] = Len(f)
      /\ \A i \in 1..Len(f) : m[off + 1 + i] = f[i]
  BY <1>1 DEF EndsWith
<1>5. Slice(m, off + 1, Len(f)) = f
  BY <1>3, <1>4, SliceIs
<1> QED BY <1>2, <1>4, <1>5

\* What a pipe does to token pairs is undone.
LEMMA PairsDecoded ==
  ASSUME NEW toks \in Seq(PairSet), NEW fin, fin \subseteq Requests
  PROVE  DecodeEvt(EncodeEvt(Pairs(toks, fin))) = Pairs(toks, fin)
<1>1. PICK S : S = Requests \cup Nat
  OBVIOUS
<1>2. PICK n \in Nat : n = Len(toks) /\ DOMAIN toks = 1..n
  OBVIOUS
<1>3. PICK rids, ids : rids = [i \in 1..n |-> toks[i].rid] /\ ids = [i \in 1..n |-> toks[i].tok]
  OBVIOUS
<1>4. \A i \in 1..n : toks[i] \in PairSet
  BY <1>2
<1>5. /\ rids \in Seq(S) /\ Len(rids) = n /\ (\A i \in 1..n : rids[i] = toks[i].rid)
      /\ ids \in Seq(S) /\ Len(ids) = n /\ (\A i \in 1..n : ids[i] = toks[i].tok)
  <2>1. \A i \in 1..n : toks[i].rid \in S /\ toks[i].tok \in S
    BY <1>1, <1>4 DEF PairSet
  <2>2. rids \in Seq(S) /\ Len(rids) = n /\ \A i \in 1..n : rids[i] = toks[i].rid
    BY <1>3, <2>1
  <2>3. ids \in Seq(S) /\ Len(ids) = n /\ \A i \in 1..n : ids[i] = toks[i].tok
    BY <1>3, <2>1
  <2> QED BY <2>2, <2>3
<1>6. PICK f, k : f = SetToSeq(fin) /\ k = Len(f)
  OBVIOUS
<1>7. f \in Seq(S) /\ k \in Nat /\ k \in S /\ n \in S /\ IsFiniteSet(fin) /\ fin \subseteq S
  <2>1. IsFiniteSet(fin)
    BY FS_Subset, MessagesAssumption
  <2>2. f \in Seq(fin)
    BY <1>6, <2>1, SetToSeqFacts
  <2> QED BY <1>1, <1>2, <1>6, <2>1, <2>2
<1>8. PICK x, z : x = <<n>> \o rids /\ z = <<k>> \o f
  OBVIOUS
<1>9. /\ x \in Seq(S) /\ Len(x) = 1 + n /\ x[1] = n /\ \A i \in 1..n : x[1 + i] = rids[i]
      /\ z \in Seq(S) /\ Len(z) = 1 + k /\ z[1] = k /\ \A i \in 1..k : z[1 + i] = f[i]
  <2>1. x \in Seq(S) /\ Len(x) = 1 + n /\ x[1] = n /\ \A i \in 1..n : x[1 + i] = rids[i]
    BY <1>5, <1>7, <1>8, ConsFacts
  <2>2. z \in Seq(S) /\ Len(z) = 1 + k /\ z[1] = k /\ \A i \in 1..k : z[1 + i] = f[i]
    BY <1>6, <1>7, <1>8, ConsFacts
  <2> QED BY <2>1, <2>2
<1>10. PICK y : y = x \o ids \o z
  OBVIOUS
<1>11. /\ y \in Seq(S) /\ Len(y) = (1 + n) + n + (1 + k)
       /\ \A i \in 1..(1 + n) : y[i] = x[i]
       /\ \A i \in 1..n : y[(1 + n) + i] = ids[i]
       /\ \A i \in 1..(1 + k) : y[(1 + n) + n + i] = z[i]
  <2>1. /\ y \in Seq(S) /\ Len(y) = Len(x) + Len(ids) + Len(z)
        /\ \A i \in 1..Len(x) : y[i] = x[i]
        /\ \A i \in 1..Len(ids) : y[Len(x) + i] = ids[i]
        /\ \A i \in 1..Len(z) : y[Len(x) + Len(ids) + i] = z[i]
    <3>1. x \in Seq(S) /\ ids \in Seq(S) /\ z \in Seq(S)
      BY <1>5, <1>9
    <3>2. Three(x \o ids \o z, x, ids, z, S)
      BY ONLY <3>1, ThreeFacts, Zenon
    <3>3. Three(y, x, ids, z, S)
      BY ONLY <1>10, <3>2
    <3> QED BY ONLY <3>3 DEF Three
  <2>2. Len(x) = 1 + n /\ Len(ids) = n /\ Len(z) = 1 + k
    BY <1>5, <1>9
  <2> QED BY ONLY <2>1, <2>2
<1>12. PICK m : m = <<105>> \o y
  OBVIOUS
<1>13. m \in Seq(S) /\ Len(m) = 1 + Len(y) /\ m[1] = 105 /\ \A i \in 1..Len(y) : m[1 + i] = y[i]
  <2>1. 105 \in S
    BY <1>1
  <2> QED BY <1>11, <1>12, <2>1, ConsFacts
<1>14. /\ m[2] = n /\ \A i \in 1..n : m[2 + i] = rids[i] /\ m[2 + n + i] = ids[i]
       /\ m[2 + 2 * n + 1] = k /\ \A i \in 1..k : m[2 + 2 * n + 1 + i] = f[i]
  <2>1. m[2] = n
    <3>1. 1 \in 1..Len(y) /\ 1 \in 1..(1 + n)
      BY <1>2, <1>7, <1>11
    <3>2. m[1 + 1] = y[1] /\ y[1] = n
      BY <1>9, <1>11, <1>13, <3>1
    <3> QED BY <3>2
  <2>2. ASSUME NEW i \in 1..n PROVE m[2 + i] = rids[i] /\ m[2 + n + i] = ids[i]
    <3>1. 1 + i \in 1..Len(y) /\ 1 + i \in 1..(1 + n) /\ (1 + n) + i \in 1..Len(y)
          /\ 1 + (1 + i) = 2 + i /\ 1 + ((1 + n) + i) = 2 + n + i
      BY <1>2, <1>7, <1>11
    <3>2. m[1 + (1 + i)] = rids[i] /\ m[1 + ((1 + n) + i)] = ids[i]
      BY <1>9, <1>11, <1>13, <3>1
    <3> QED BY <3>1, <3>2
  <2>3. ASSUME NEW i \in 1..(1 + k) PROVE m[2 + 2 * n + i] = z[i]
    <3>1. (1 + n) + n + i \in 1..Len(y) /\ 1 + ((1 + n) + n + i) = 2 + 2 * n + i
      BY <1>2, <1>7, <1>11
    <3>2. m[1 + ((1 + n) + n + i)] = z[i]
      BY <1>11, <1>13, <3>1
    <3> QED BY <3>1, <3>2
  <2>4. m[2 + 2 * n + 1] = k
    <3>1. 1 \in 1..(1 + k)
      BY <1>7
    <3> QED BY <1>9, <2>3, <3>1
  <2>5. ASSUME NEW i \in 1..k PROVE m[2 + 2 * n + 1 + i] = f[i]
    <3>1. 1 + i \in 1..(1 + k) /\ 2 + 2 * n + (1 + i) = 2 + 2 * n + 1 + i
      BY <1>2, <1>7
    <3>2. m[2 + 2 * n + (1 + i)] = z[1 + i]
      BY <2>3, <3>1
    <3> QED BY <1>9, <3>1, <3>2
  <2> QED BY <2>1, <2>2, <2>4, <2>5
<1>15. Range(Slice(m, 2 + 2 * n + 1, m[2 + 2 * n + 1])) = fin
  <2>1. PICK off \in Nat : off = 2 + 2 * n
    BY <1>2
  <2>2. off + 1 + Len(f) <= Len(m)
    BY <1>2, <1>6, <1>7, <1>11, <1>13, <2>1
  <2>3. m[off + 1] = Len(f) /\ \A i \in 1..Len(f) : m[off + 1 + i] = f[i]
    BY <1>6, <1>14, <2>1
  <2>4. Range(Slice(m, off + 1, m[off + 1])) = fin
    <3>1. off \in Nat /\ m \in Seq(S) /\ IsFiniteSet(fin) /\ fin \subseteq S
      BY <1>7, <1>13
    <3>2. EndsWith(m, off, SetToSeq(fin))
      BY ONLY <1>6, <2>2, <2>3 DEF EndsWith
    <3> QED BY ONLY <3>1, <3>2, FinishedRead, Zenon
  <2> QED BY <2>1, <2>4
<1>16. toks = [i \in 1..n |-> [rid |-> m[2 + i], tok |-> m[2 + n + i]]]
  <2>1. PICK t : t = [i \in 1..n |-> [rid |-> m[2 + i], tok |-> m[2 + n + i]]]
    OBVIOUS
  <2>2. \A i \in 1..n : t[i] = toks[i]
    <3> SUFFICES ASSUME NEW i \in 1..n PROVE t[i] = toks[i]
      OBVIOUS
    <3>1. t[i] = [rid |-> toks[i].rid, tok |-> toks[i].tok]
      BY <1>5, <1>14, <2>1
    <3>2. toks[i] = [rid |-> toks[i].rid, tok |-> toks[i].tok]
      BY <1>4 DEF PairSet
    <3> QED BY <3>1, <3>2
  <2>3. t \in Seq(PairSet) /\ Len(t) = n
    <3>1. \A i \in 1..n : t[i] \in PairSet
      BY <1>4, <2>2
    <3>2. DOMAIN t = 1..n /\ t = [i \in 1..n |-> t[i]]
      BY <2>1
    <3>3. t \in [1..n -> PairSet]
      BY ONLY <3>1, <3>2
    <3> QED BY <3>3
  <2> QED BY <1>2, <2>1, <2>2, <2>3, SeqEqual
<1>17. EncodeEvt(Pairs(toks, fin)) = m
  <2>1. Prefixed(Column(toks, "rid")) = x /\ Column(toks, "tok") = ids /\ Prefixed(f) = z
    BY <1>2, <1>3, <1>5, <1>6, <1>8 DEF Prefixed, Column
  <2> QED BY <1>6, <1>10, <1>12, <2>1 DEF EncodeEvt, Pairs, EvtCode
<1>18. DecodeEvt(m) = Pairs([i \in 1..n |-> [rid |-> m[2 + i], tok |-> m[2 + n + i]]],
                            Range(Slice(m, 2 + 2 * n + 1, m[2 + 2 * n + 1])))
  BY <1>13, <1>14 DEF DecodeEvt, Is, EvtCode
<1> QED BY <1>15, <1>16, <1>17, <1>18

-----------------------------------------------------------------------------
\* Lists of tokens in a message: one record after another.
Part(l) == <<l.rid>> \o Prefixed(l.tok)
Parts(lists) == [i \in DOMAIN lists |-> Part(lists[i])]

\* fl[k] are the first k sequences of q.
Flattens(fl, q, S) ==
  /\ fl \in [0..Len(q) -> Seq(S)]
  /\ fl[0] = <<>> /\ \A k \in 1..Len(q) : fl[k] = fl[k - 1] \o q[k]

LEMMA FlattensFacts ==
  ASSUME NEW S, NEW q \in Seq(Seq(S)), NEW fl, Flattens(fl, q, S)
  PROVE  /\ \A k \in 0..Len(q) : fl[k] \in Seq(S) /\ Len(fl[k]) \in Nat
         /\ \A k \in 1..Len(q) : /\ k - 1 \in 0..Len(q) /\ k \in 0..Len(q)
                                 /\ fl[k] = fl[k - 1] \o q[k] /\ q[k] \in Seq(S)
         /\ fl[0] = <<>>
<1>1. PICK n \in Nat : n = Len(q)
  OBVIOUS
<1>2. fl \in [0..n -> Seq(S)] /\ fl[0] = <<>> /\ \A k \in 1..n : fl[k] = fl[k - 1] \o q[k]
  BY <1>1 DEF Flattens
<1>3. ASSUME NEW k \in 0..n PROVE fl[k] \in Seq(S) /\ Len(fl[k]) \in Nat
  <2>1. PICK x : x = fl[k]
    OBVIOUS
  <2>2. x \in Seq(S)
    BY <1>2, <2>1
  <2> QED BY <2>1, <2>2
<1>4. \A k \in 1..n : k - 1 \in 0..n /\ k \in 0..n
  OBVIOUS
<1>5. \A k \in 1..n : q[k] \in Seq(S)
  BY <1>1
<1> QED BY <1>1, <1>2, <1>3, <1>4, <1>5

\* The first sequences come first in all of them.
LEMMA FlattenPrefix ==
  ASSUME NEW S, NEW q \in Seq(Seq(S)), NEW fl, Flattens(fl, q, S)
  PROVE  \A k \in 0..Len(q) : /\ Len(fl[k]) <= Len(fl[Len(q)])
                              /\ \A i \in 1..Len(fl[k]) : fl[Len(q)][i] = fl[k][i]
<1>1. PICK n \in Nat : n = Len(q)
  OBVIOUS
<1>2. /\ \A k \in 0..n : fl[k] \in Seq(S) /\ Len(fl[k]) \in Nat
      /\ \A k \in 1..n : k - 1 \in 0..n /\ k \in 0..n /\ fl[k] = fl[k - 1] \o q[k] /\ q[k] \in Seq(S)
  BY <1>1, FlattensFacts
<1> DEFINE Prefix(k, l) == /\ Len(fl[k]) <= Len(fl[l])
                           /\ \A i \in 1..Len(fl[k]) : fl[l][i] = fl[k][i]
           T == {l \in 0..n : \A k \in 0..l : Prefix(k, l)}
<1>3. \A k \in 0..n : Prefix(k, k)
  BY <1>2
<1>4. ASSUME NEW l \in 1..n PROVE Prefix(l - 1, l)
  <2>1. PICK x, y, z : x = fl[l - 1] /\ y = q[l] /\ z = fl[l]
    OBVIOUS
  <2>2. x \in Seq(S) /\ y \in Seq(S) /\ z = x \o y
    BY <1>2, <2>1
  <2>3. Len(x) <= Len(z) /\ \A i \in 1..Len(x) : z[i] = x[i]
    BY ONLY <2>2
  <2> QED BY <2>1, <2>3
<1>5. 0 \in T
  BY <1>3
<1>6. ASSUME NEW l \in 1..n, l - 1 \in T PROVE l \in T
  <2>1. ASSUME NEW k \in 0..(l - 1) PROVE Prefix(k, l)
    <3>1. k \in 0..n /\ l - 1 \in 0..n /\ l \in 0..n
      BY <1>6
    <3>2. Prefix(k, l - 1)
      BY <1>6
    <3>3. Len(fl[k]) \in Nat /\ Len(fl[l - 1]) \in Nat /\ Len(fl[l]) \in Nat
      BY <1>2, <3>1
    <3> QED BY <1>4, <3>2, <3>3
  <2>2. \A k \in 0..l : k \in 0..(l - 1) \/ k = l
    OBVIOUS
  <2>3. l \in 0..n
    OBVIOUS
  <2> HIDE DEF Prefix
  <2> QED BY <1>3, <2>1, <2>2, <2>3
<1>7. \A l \in 0..n : l \in T
  <2> HIDE DEF T
  <2> QED BY <1>5, <1>6, InductionTo
<1>8. n \in 0..n
  OBVIOUS
<1> QED BY <1>1, <1>7, <1>8

\* The receiver finds the records that were sent.
Carries(m, F, n) ==
  m[2] = n /\ 2 + Len(F) <= Len(m) /\ \A i \in 1..Len(F) : m[2 + i] = F[i]

LEMMA RecordsAre ==
  ASSUME NEW S, NEW lists \in Seq(ListSet), NEW fl, Flattens(fl, Parts(lists), S),
         NEW m \in Seq(S), Requests \cup Nat \subseteq S,
         Carries(m, fl[Len(lists)], Len(lists))
  PROVE  Records(m) = [off |-> 2 + Len(fl[Len(lists)]), toks |-> lists]
<1>0. PICK n, F : n = Len(lists) /\ F = fl[n]
  OBVIOUS
<1>00. m[2] = n /\ 2 + Len(F) <= Len(m) /\ \A i \in 1..Len(F) : m[2 + i] = F[i]
  BY <1>0 DEF Carries
<1> USE <1>0, <1>00
<1>1. n \in Nat /\ DOMAIN lists = 1..n /\ \A k \in 1..n : lists[k] \in ListSet
  OBVIOUS
<1>2. PICK q : q = Parts(lists)
  OBVIOUS
<1>3. ASSUME NEW k \in 1..n
      PROVE  LET l == lists[k]
             IN  /\ q[k] = <<l.rid, Len(l.tok)>> \o l.tok /\ q[k] \in Seq(S)
                 /\ Len(q[k]) = 2 + Len(l.tok) /\ Len(l.tok) \in Nat
                 /\ q[k][1] = l.rid /\ q[k][2] = Len(l.tok)
                 /\ \A i \in 1..Len(l.tok) : q[k][2 + i] = l.tok[i]
                 /\ l.tok \in Seq(S) /\ l = [rid |-> l.rid, tok |-> l.tok]
  <2>1. PICK r, t : r = lists[k].rid /\ t = lists[k].tok
    OBVIOUS
  <2>2. r \in Requests /\ t \in Seq(Nat) /\ lists[k] = [rid |-> r, tok |-> t]
    BY <1>1, <2>1 DEF ListSet
  <2>3. t \in Seq(S) /\ r \in S /\ Len(t) \in Nat /\ Len(t) \in S
    <3>1. Nat \subseteq S /\ r \in S
      BY <2>2
    <3>2. t \in Seq(S) /\ Len(t) \in Nat
      BY ONLY <2>2, <3>1
    <3> QED BY <3>1, <3>2
  <2>4. q[k] = <<r>> \o (<<Len(t)>> \o t)
    BY <1>1, <1>2, <2>1 DEF Parts, Part, Prefixed
  <2>5. PICK p : p = q[k]
    OBVIOUS
  <2>6. /\ p = <<r, Len(t)>> \o t /\ p \in Seq(S) /\ Len(p) = 2 + Len(t)
        /\ p[1] = r /\ p[2] = Len(t) /\ \A i \in 1..Len(t) : p[2 + i] = t[i]
    BY ONLY <2>3, <2>4, <2>5
  <2> QED BY <2>1, <2>2, <2>3, <2>5, <2>6
<1>4. q \in Seq(Seq(S)) /\ Len(q) = n
  <2>1. q = [i \in 1..n |-> Part(lists[i])]
    BY <1>1, <1>2 DEF Parts
  <2>2. \A k \in 1..n : q[k] \in Seq(S)
    BY <1>3
  <2>3. q \in [1..n -> Seq(S)]
    BY <2>1, <2>2
  <2> QED BY <1>1, <2>3
<1>5. /\ \A k \in 0..n : fl[k] \in Seq(S) /\ Len(fl[k]) \in Nat
      /\ \A k \in 1..n : k - 1 \in 0..n /\ k \in 0..n /\ fl[k] = fl[k - 1] \o q[k]
      /\ fl[0] = <<>>
  <2>1. Flattens(fl, q, S)
    BY <1>2
  <2>2. /\ \A k \in 0..Len(q) : fl[k] \in Seq(S) /\ Len(fl[k]) \in Nat
        /\ \A k \in 1..Len(q) : /\ k - 1 \in 0..Len(q) /\ k \in 0..Len(q)
                                /\ fl[k] = fl[k - 1] \o q[k] /\ q[k] \in Seq(S)
        /\ fl[0] = <<>>
    BY ONLY <1>4, <2>1, FlattensFacts
  <2> QED BY ONLY <1>4, <2>2
<1>6. \A k \in 0..n : Len(fl[k]) <= Len(F) /\ \A i \in 1..Len(fl[k]) : F[i] = fl[k][i]
  BY <1>2, <1>4, FlattenPrefix
<1> DEFINE At(k) == 2 + Len(fl[k])
<1>7. ASSUME NEW k \in 1..n
      PROVE  LET l  == lists[k]
                 at == At(k - 1)
             IN  /\ m[at + 1] = l.rid /\ m[at + 2] = Len(l.tok)
                 /\ Slice(m, at + 2, Len(l.tok)) = l.tok
                 /\ At(k) = at + 2 + Len(l.tok)
  <2>1. PICK a, t, p, x, y : /\ a = Len(fl[k - 1]) /\ t = lists[k].tok /\ p = q[k]
                             /\ x = fl[k - 1] /\ y = fl[k]
    OBVIOUS
  <2>2. /\ a \in Nat /\ a = Len(x) /\ x \in Seq(S) /\ p \in Seq(S) /\ y = x \o p /\ Len(p) = 2 + Len(t)
        /\ p[1] = lists[k].rid /\ p[2] = Len(t) /\ (\A i \in 1..Len(t) : p[2 + i] = t[i])
        /\ t \in Seq(S) /\ Len(t) \in Nat
    BY <1>3, <1>5, <2>1
  <2>3. Len(y) = a + 2 + Len(t) /\ \A i \in 1..(2 + Len(t)) : y[a + i] = p[i]
    <3>1. PICK b \in Nat : b = 2 + Len(t)
      BY <2>2
    <3>2. x \in Seq(S) /\ p \in Seq(S) /\ Len(x) = a /\ Len(p) = b /\ y = x \o p
      BY <2>2, <3>1
    <3>3. Len(y) = a + b /\ \A i \in 1..b : y[a + i] = p[i]
      BY ONLY <3>2
    <3> QED BY <2>2, <3>1, <3>3
  <2>4. Len(y) <= Len(F) /\ \A i \in 1..Len(y) : F[i] = y[i]
    BY <1>5, <1>6, <2>1
  <2>5. Len(F) \in Nat
    <3>1. n \in 0..n
      BY <1>1
    <3> QED BY <1>5, <3>1
  <2>6. ASSUME NEW i \in 1..(2 + Len(t)) PROVE m[2 + a + i] = p[i]
    <3>1. a + i \in 1..Len(y) /\ a + i \in 1..Len(F) /\ 2 + (a + i) = 2 + a + i
      <4>1. PICK u, v, w : u = Len(y) /\ v = Len(F) /\ w = Len(t)
        OBVIOUS
      <4>2. u = a + 2 + w /\ u <= v /\ v \in Nat /\ w \in Nat /\ a \in Nat /\ i \in 1..(2 + w)
        BY <2>2, <2>3, <2>4, <2>5, <4>1
      <4>3. a + i \in 1..u /\ a + i \in 1..v /\ 2 + (a + i) = 2 + a + i
        BY ONLY <4>2
      <4> QED BY <4>1, <4>3
    <3>2. m[2 + (a + i)] = F[a + i] /\ F[a + i] = y[a + i]
      BY <2>4, <3>1
    <3> QED BY <2>3, <3>1, <3>2
  <2>7. m[2 + a + 1] = p[1] /\ m[2 + a + 2] = p[2]
    <3>1. 1 \in 1..(2 + Len(t)) /\ 2 \in 1..(2 + Len(t))
      BY <2>2
    <3> QED BY <2>6, <3>1
  <2>8. Slice(m, 2 + a + 2, Len(t)) = t
    <3>1. PICK off \in Nat : off = 2 + a + 2
      BY <2>2
    <3>2. off + Len(t) <= Len(m)
      BY <2>2, <2>3, <2>4, <2>5, <3>1
    <3>3. ASSUME NEW i \in 1..Len(t) PROVE m[off + i] = t[i]
      <4>1. 2 + i \in 1..(2 + Len(t)) /\ 2 + a + (2 + i) = off + i
        BY <2>2, <3>1
      <4>2. m[2 + a + (2 + i)] = p[2 + i]
        BY <2>6, <4>1
      <4> QED BY <2>2, <4>1, <4>2
    <3>4. Slice(m, off, Len(t)) = t
      BY <2>2, <3>2, <3>3, SliceIs
    <3> QED BY <3>1, <3>4
  <2>9. At(k) = 2 + a + 2 + Len(t)
    <3>1. At(k) = 2 + Len(y)
      BY <2>1
    <3> HIDE DEF At
    <3> QED BY <2>2, <2>3, <3>1
  <2> QED BY <2>1, <2>2, <2>7, <2>8, <2>9
<1> DEFINE body(f) == [k \in 0..m[2] |->
             IF k = 0 THEN [off |-> 2, toks |-> <<>>]
             ELSE LET at == f[k - 1].off
                      w  == m[at + 2]
                  IN  [off  |-> at + 2 + w,
                       toks |-> Append(f[k - 1].toks,
                                       [rid |-> m[at + 1], tok |-> Slice(m, at + 2, w)])]]
           g == CHOOSE f : f = body(f)
<1>8. Records(m) = g[n]
  BY DEF Records
<1>9. PICK h : h = [k \in 0..n |-> [off |-> At(k), toks |-> SubSeq(lists, 1, k)]]
  OBVIOUS
<1> HIDE DEF At
<1>10. /\ h[0] = [off |-> 2, toks |-> <<>>]
       /\ \A k \in 1..n : h[k - 1].off = At(k - 1) /\ h[k - 1].toks = SubSeq(lists, 1, k - 1)
  <2>1. 0 \in 0..n /\ At(0) = 2 /\ SubSeq(lists, 1, 0) = <<>>
    BY <1>1, <1>5 DEF At
  <2>2. \A k \in 1..n : k - 1 \in 0..n
    OBVIOUS
  <2> QED BY <1>9, <2>1, <2>2
<1>11. ASSUME NEW k \in 1..n
       PROVE  LET at == h[k - 1].off
                  w  == m[at + 2]
              IN  h[k] = [off  |-> at + 2 + w,
                          toks |-> Append(h[k - 1].toks,
                                          [rid |-> m[at + 1], tok |-> Slice(m, at + 2, w)])]
  <2>1. PICK at, w : at = h[k - 1].off /\ w = m[at + 2]
    OBVIOUS
  <2>2. at = At(k - 1) /\ h[k - 1].toks = SubSeq(lists, 1, k - 1)
    BY <1>10, <2>1
  <2>3. /\ m[at + 1] = lists[k].rid /\ w = Len(lists[k].tok)
        /\ Slice(m, at + 2, w) = lists[k].tok
        /\ At(k) = at + 2 + w
    BY <1>7, <2>1, <2>2
  <2>4. [rid |-> m[at + 1], tok |-> Slice(m, at + 2, w)] = lists[k]
    BY <1>3, <2>3
  <2>5. Append(SubSeq(lists, 1, k - 1), lists[k]) = SubSeq(lists, 1, k)
    <3>1. PICK u, v : u = Append(SubSeq(lists, 1, k - 1), lists[k]) /\ v = SubSeq(lists, 1, k)
      OBVIOUS
    <3>2. PICK j \in Nat : j = k - 1 /\ j + 1 = k
      OBVIOUS
    <3>3. v \in Seq(ListSet) /\ Len(v) = k /\ \A i \in 1..k : v[i] = lists[i]
      BY <1>1, <3>1
    <3>4. PICK s : s = SubSeq(lists, 1, j)
      OBVIOUS
    <3>5. s \in Seq(ListSet) /\ Len(s) = j /\ \A i \in 1..j : s[i] = lists[i]
      BY <1>1, <3>2, <3>4
    <3>6. u = Append(s, lists[k]) /\ lists[k] \in ListSet
      BY <1>1, <3>1, <3>2, <3>4
    <3>7. u \in Seq(ListSet) /\ Len(u) = j + 1 /\ u[j + 1] = lists[k] /\ \A i \in 1..j : u[i] = s[i]
      BY ONLY <3>5, <3>6, j \in Nat
    <3>8. \A i \in 1..k : i \in 1..j \/ i = j + 1
      BY <3>2
    <3>9. \A i \in 1..k : u[i] = v[i]
      BY <3>2, <3>3, <3>5, <3>7, <3>8
    <3> QED BY <3>1, <3>2, <3>3, <3>7, <3>9, SeqEqual
  <2>6. h[k] = [off |-> At(k), toks |-> SubSeq(lists, 1, k)]
    <3>1. k \in 0..n
      OBVIOUS
    <3> QED BY <1>9, <3>1
  <2> QED BY <2>1, <2>2, <2>3, <2>4, <2>5, <2>6
<1>12. h = body(h)
  <2>1. \A k \in 0..n : k = 0 \/ k \in 1..n
    BY <1>1
  <2>2. \A k \in 1..n : k # 0
    OBVIOUS
  <2>3. h = [k \in 0..n |-> h[k]]
    BY <1>9
  <2> QED BY <1>10, <1>11, <2>1, <2>2, <2>3
<1>13. g = body(g)
  BY <1>12
<1> HIDE DEF g
<1> DEFINE T == {k \in 0..n : g[k] = h[k]}
<1>14. 0 \in T
  <2>1. 0 \in 0..m[2]
    BY <1>1
  <2>2. g[0] = [off |-> 2, toks |-> <<>>]
    BY <1>13, <2>1
  <2> QED BY <1>1, <1>10, <2>2
<1>15. ASSUME NEW k \in 1..n, k - 1 \in T PROVE k \in T
  <2>1. k \in 0..m[2] /\ k # 0 /\ k \in 0..n
    BY <1>1
  <2>2. g[k - 1] = h[k - 1]
    BY <1>15
  <2>3. LET at == g[k - 1].off
            w  == m[at + 2]
        IN  g[k] = [off  |-> at + 2 + w,
                    toks |-> Append(g[k - 1].toks,
                                    [rid |-> m[at + 1], tok |-> Slice(m, at + 2, w)])]
    BY <1>13, <2>1
  <2>4. g[k] = h[k]
    <3> HIDE DEF body
    <3> QED BY <1>11, <2>2, <2>3
  <2> QED BY <2>1, <2>4
<1>16. \A k \in 0..n : k \in T
  <2> HIDE DEF T
  <2> QED BY <1>1, <1>14, <1>15, InductionTo
<1>17. g[n] = h[n] /\ n \in 0..n
  BY <1>1, <1>16
<1>18. SubSeq(lists, 1, n) = lists
  OBVIOUS
<1> HIDE DEF body
<1> QED BY <1>8, <1>9, <1>17, <1>18 DEF At

\* What a pipe does to lists of tokens is undone.
LEMMA TokensDecoded ==
  ASSUME NEW lists \in Seq(ListSet), NEW fin, fin \subseteq Requests
  PROVE  DecodeEvt(EncodeEvt(Tokens(lists, fin))) = Tokens(lists, fin)
<1>1. PICK S : S = Requests \cup Nat
  OBVIOUS
<1>2. PICK n \in Nat : n = Len(lists) /\ DOMAIN lists = 1..n
  OBVIOUS
<1>3. PICK q : q = Parts(lists)
  OBVIOUS
<1>4. q \in Seq(Seq(S)) /\ Len(q) = n
  <2>1. ASSUME NEW i \in 1..n PROVE Part(lists[i]) \in Seq(S)
    <3>1. PICK r, t : r = lists[i].rid /\ t = lists[i].tok
      OBVIOUS
    <3>2. lists[i] \in ListSet
      BY <1>2
    <3>3. r \in S /\ t \in Seq(Nat) /\ Nat \subseteq S
      BY <1>1, <3>1, <3>2 DEF ListSet
    <3>4. t \in Seq(S) /\ Len(t) \in S
      BY ONLY <3>3
    <3>5. <<r>> \o (<<Len(t)>> \o t) \in Seq(S)
      BY ONLY <3>3, <3>4
    <3> QED BY <3>1, <3>5 DEF Part, Prefixed
  <2>2. q = [i \in 1..n |-> Part(lists[i])]
    BY <1>2, <1>3 DEF Parts
  <2>3. q \in [1..n -> Seq(S)]
    BY <2>1, <2>2
  <2> QED BY <2>3
<1>5. PICK fl : Flattens(fl, q, S) /\ FlattenSeq(q) = fl[n]
  <2>1. \E fl \in [0..Len(q) -> Seq(S)] :
           /\ fl[0] = <<>> /\ \A k \in 1..Len(q) : fl[k] = fl[k - 1] \o q[k]
           /\ FlattenSeq(q) = fl[Len(q)]
    BY <1>4, FlattenIs
  <2> QED BY <1>4, <2>1 DEF Flattens
<1>6. PICK F, l : F = fl[n] /\ l = Len(F)
  OBVIOUS
<1>7. F \in Seq(S) /\ l \in Nat
  <2>1. \A k \in 0..Len(q) : fl[k] \in Seq(S) /\ Len(fl[k]) \in Nat
    BY <1>4, <1>5, FlattensFacts
  <2>2. n \in 0..Len(q)
    BY <1>4
  <2> QED BY <1>6, <2>1, <2>2
<1>8. PICK f, k : f = SetToSeq(fin) /\ k = Len(f)
  OBVIOUS
<1>9. f \in Seq(S) /\ k \in Nat /\ k \in S /\ n \in S /\ IsFiniteSet(fin) /\ fin \subseteq S
  <2>1. IsFiniteSet(fin)
    BY FS_Subset, MessagesAssumption
  <2>2. f \in Seq(fin)
    BY <1>8, <2>1, SetToSeqFacts
  <2> QED BY <1>1, <1>2, <1>8, <2>1, <2>2
<1>10. PICK x, z : x = <<n>> /\ z = <<k>> \o f
  OBVIOUS
<1>11. /\ x \in Seq(S) /\ Len(x) = 1 /\ x[1] = n
       /\ z \in Seq(S) /\ Len(z) = 1 + k /\ z[1] = k /\ \A i \in 1..k : z[1 + i] = f[i]
  <2>1. x \in Seq(S) /\ Len(x) = 1 /\ x[1] = n
    BY <1>9, <1>10
  <2>2. z \in Seq(S) /\ Len(z) = 1 + k /\ z[1] = k /\ \A i \in 1..k : z[1 + i] = f[i]
    BY <1>8, <1>9, <1>10, ConsFacts
  <2> QED BY <2>1, <2>2
<1>12. PICK y : y = x \o F \o z
  OBVIOUS
<1>13. /\ y \in Seq(S) /\ Len(y) = 1 + l + (1 + k)
       /\ \A i \in 1..1 : y[i] = x[i]
       /\ \A i \in 1..l : y[1 + i] = F[i]
       /\ \A i \in 1..(1 + k) : y[1 + l + i] = z[i]
  <2>1. x \in Seq(S) /\ F \in Seq(S) /\ z \in Seq(S)
    BY <1>7, <1>11
  <2>2. Three(x \o F \o z, x, F, z, S)
    BY ONLY <2>1, ThreeFacts, Zenon
  <2>3. Three(y, x, F, z, S)
    BY ONLY <1>12, <2>2
  <2> QED BY ONLY <1>6, <1>11, <2>3 DEF Three
<1>14. PICK m : m = <<102>> \o y
  OBVIOUS
<1>15. m \in Seq(S) /\ Len(m) = 1 + Len(y) /\ m[1] = 102 /\ \A i \in 1..Len(y) : m[1 + i] = y[i]
  <2>1. 102 \in S
    BY <1>1
  <2> QED BY <1>13, <1>14, <2>1, ConsFacts
<1>16. /\ m[2] = n /\ \A i \in 1..l : m[2 + i] = F[i]
       /\ m[2 + l + 1] = k /\ \A i \in 1..k : m[2 + l + 1 + i] = f[i]
       /\ 2 + l + 1 + k = Len(m)
  <2>1. m[2] = n
    <3>1. 1 \in 1..Len(y) /\ 1 \in 1..1
      BY <1>7, <1>9, <1>13
    <3>2. m[1 + 1] = y[1] /\ y[1] = n
      BY <1>11, <1>13, <1>15, <3>1
    <3> QED BY <3>2
  <2>2. ASSUME NEW i \in 1..l PROVE m[2 + i] = F[i]
    <3>1. 1 + i \in 1..Len(y) /\ 1 + (1 + i) = 2 + i
      BY <1>7, <1>9, <1>13
    <3>2. m[1 + (1 + i)] = F[i]
      BY <1>13, <1>15, <3>1
    <3> QED BY <3>1, <3>2
  <2>3. ASSUME NEW i \in 1..(1 + k) PROVE m[2 + l + i] = z[i]
    <3>1. 1 + l + i \in 1..Len(y) /\ 1 + (1 + l + i) = 2 + l + i
      BY <1>7, <1>9, <1>13
    <3>2. m[1 + (1 + l + i)] = z[i]
      BY <1>13, <1>15, <3>1
    <3> QED BY <3>1, <3>2
  <2>4. m[2 + l + 1] = k
    <3>1. 1 \in 1..(1 + k)
      BY <1>9
    <3> QED BY <1>11, <2>3, <3>1
  <2>5. ASSUME NEW i \in 1..k PROVE m[2 + l + 1 + i] = f[i]
    <3>1. 1 + i \in 1..(1 + k) /\ 2 + l + (1 + i) = 2 + l + 1 + i
      BY <1>7, <1>9
    <3>2. m[2 + l + (1 + i)] = z[1 + i]
      BY <2>3, <3>1
    <3> QED BY <1>11, <3>1, <3>2
  <2>6. 2 + l + 1 + k = Len(m)
    BY <1>7, <1>9, <1>13, <1>15
  <2> QED BY <2>1, <2>2, <2>4, <2>5, <2>6
<1>17. Records(m) = [off |-> 2 + l, toks |-> lists]
  <2>1. Flattens(fl, Parts(lists), S)
    BY <1>3, <1>5
  <2>2. 2 + l <= Len(m)
    BY <1>7, <1>9, <1>16
  <2>3. Requests \cup Nat \subseteq S /\ lists \in Seq(ListSet) /\ m \in Seq(S)
    BY <1>1, <1>15
  <2>4. Carries(m, fl[Len(lists)], Len(lists))
    BY <1>2, <1>6, <1>16, <2>2 DEF Carries
  <2>5. Records(m) = [off |-> 2 + Len(fl[Len(lists)]), toks |-> lists]
    BY ONLY <2>1, <2>3, <2>4, RecordsAre, Zenon
  <2> QED BY <1>2, <1>6, <2>5
<1>18. Range(Slice(m, 2 + l + 1, m[2 + l + 1])) = fin
  <2>1. PICK off \in Nat : off = 2 + l
    BY <1>7
  <2>2. off \in Nat /\ m \in Seq(S) /\ IsFiniteSet(fin) /\ fin \subseteq S
    BY <1>9, <1>15
  <2>3. EndsWith(m, off, f)
    BY <1>7, <1>8, <1>9, <1>16, <2>1 DEF EndsWith
  <2>4. EndsWith(m, off, SetToSeq(fin))
    BY <1>8, <2>3
  <2>5. Range(Slice(m, off + 1, m[off + 1])) = fin
    BY ONLY <2>2, <2>4, FinishedRead, Zenon
  <2> QED BY <2>1, <2>5
<1>19. EncodeEvt(Tokens(lists, fin)) = m
  <2>1. q = [i \in DOMAIN lists |-> <<lists[i].rid>> \o Prefixed(lists[i].tok)]
    BY <1>3 DEF Parts, Part
  <2>2. Prefixed(f) = z
    BY <1>8, <1>10 DEF Prefixed
  <2> QED BY <1>2, <1>5, <1>6, <1>8, <1>10, <1>12, <1>14, <2>1, <2>2 DEF EncodeEvt, Tokens, EvtCode
<1>20. DecodeEvt(m) = Tokens(Records(m).toks,
                             Range(Slice(m, Records(m).off + 1, m[Records(m).off + 1])))
  BY <1>15 DEF DecodeEvt, Is, EvtCode
<1> QED BY <1>17, <1>18, <1>19, <1>20

\* What the engine process reports to the manager.
EvtSet == {Error} \cup {Pairs(toks, fin) : toks \in Seq(PairSet), fin \in SUBSET Requests}
                  \cup {Tokens(lists, fin) : lists \in Seq(ListSet), fin \in SUBSET Requests}

LEMMA EvtDecoded ==
  ASSUME NEW e \in EvtSet
  PROVE  DecodeEvt(EncodeEvt(e)) = e
<1>1. CASE e = Error
  <2>1. PICK m : m = <<103>> \o <<>>
    OBVIOUS
  <2>2. m[1] = 103
    BY <2>1
  <2>3. EncodeEvt(e) = m
    BY <1>1, <2>1 DEF EncodeEvt, EvtCode, Error
  <2> QED BY <1>1, <2>2, <2>3 DEF DecodeEvt, EvtCode, Is
<1>2. ASSUME NEW toks \in Seq(PairSet), NEW fin \in SUBSET Requests, e = Pairs(toks, fin)
      PROVE  DecodeEvt(EncodeEvt(e)) = e
  BY <1>2, PairsDecoded
<1>3. ASSUME NEW lists \in Seq(ListSet), NEW fin \in SUBSET Requests, e = Tokens(lists, fin)
      PROVE  DecodeEvt(EncodeEvt(e)) = e
  BY <1>3, TokensDecoded
<1> QED BY <1>1, <1>2, <1>3 DEF EvtSet

-----------------------------------------------------------------------------
\* The places of a request in a list.
Places(list, r) == {i \in DOMAIN list : list[i].rid = r}

\* What a list has for a request: as many as it has places, and from these.
LEMMA TokensInFacts ==
  ASSUME NEW V, NEW list \in Seq([rid : Requests, tok : V]), NEW r
  PROVE  /\ TokensIn(list, r) \in Seq(V)
         /\ Places(list, r) = {} => TokensIn(list, r) = <<>>
         /\ \A i \in DOMAIN list : Places(list, r) = {i} => TokensIn(list, r) = <<list[i].tok>>
         /\ \A i, j \in DOMAIN list : i < j /\ Places(list, r) = {i, j} =>
              TokensIn(list, r) = <<list[i].tok, list[j].tok>>
<1> DEFINE S == [rid : Requests, tok : V]
<1>1. PICK I, e : I = Places(list, r) /\ e = EntriesAt(list, I)
  OBVIOUS
<1>2. TokensIn(list, r) = [k \in DOMAIN e |-> e[k].tok]
  BY <1>1 DEF TokensIn, Column, Places
<1>3. list \in Seq(S) /\ I \subseteq DOMAIN list
  BY <1>1 DEF Places
<1>4. e \in Seq(S)
  <2> HIDE DEF S
  <2> QED BY <1>1, <1>3, EntriesFacts
<1>5. TokensIn(list, r) \in Seq(V)
  <2>1. PICK n \in Nat : n = Len(e) /\ DOMAIN e = 1..n
    BY <1>4
  <2>2. \A k \in 1..n : e[k].tok \in V
    <3>1. \A k \in 1..n : e[k] \in S
      <4> HIDE DEF S
      <4> QED BY <1>4, <2>1
    <3> QED BY <3>1
  <2>3. [k \in 1..n |-> e[k].tok] \in Seq(V)
    BY <2>2
  <2> QED BY <1>2, <2>1, <2>3
<1>6. ASSUME I = {} PROVE TokensIn(list, r) = <<>>
  <2>1. EntriesAt(list, {}) = <<>>
    BY <1>3, EntriesSmall
  <2> QED BY <1>1, <1>2, <1>6, <2>1
<1>7. ASSUME NEW i \in DOMAIN list, I = {i} PROVE TokensIn(list, r) = <<list[i].tok>>
  <2>1. EntriesAt(list, {i}) = <<list[i]>>
    <3> HIDE DEF S
    <3> QED BY <1>3, EntriesSmall
  <2>2. PICK u : u = list[i]
    OBVIOUS
  <2>3. e = <<u>> /\ DOMAIN <<u>> = 1..1 /\ <<u>>[1] = u
    BY <1>1, <1>7, <2>1, <2>2
  <2>4. TokensIn(list, r) = [k \in 1..1 |-> u.tok]
    <3>1. \A k \in 1..1 : e[k] = u
      BY <2>3
    <3> QED BY <1>2, <2>3, <3>1
  <2> QED BY ONLY <2>2, <2>4
<1>8. ASSUME NEW i \in DOMAIN list, NEW j \in DOMAIN list, i < j, I = {i, j}
      PROVE  TokensIn(list, r) = <<list[i].tok, list[j].tok>>
  <2>1. EntriesAt(list, {i, j}) = <<list[i], list[j]>>
    <3> HIDE DEF S
    <3> QED BY <1>3, <1>8, EntriesSmall
  <2>2. PICK u, v : u = list[i] /\ v = list[j]
    OBVIOUS
  <2>3. e = <<u, v>> /\ DOMAIN <<u, v>> = 1..2 /\ <<u, v>>[1] = u /\ <<u, v>>[2] = v
    BY <1>1, <1>8, <2>1, <2>2
  <2>4. TokensIn(list, r) = [k \in 1..2 |-> IF k = 1 THEN u.tok ELSE v.tok]
    <3>1. \A k \in 1..2 : k = 1 \/ k = 2
      OBVIOUS
    <3>2. \A k \in 1..2 : e[k].tok = IF k = 1 THEN u.tok ELSE v.tok
      BY <2>3, <3>1
    <3> QED BY <1>2, <2>3, <3>2
  <2> QED BY ONLY <2>2, <2>4
<1> QED BY <1>1, <1>5, <1>6, <1>7, <1>8

\* Gathered by request, a request has the tokens it had, in one place.
LEMMA GatheredFacts ==
  ASSUME NEW pairs \in Seq(PairSet)
  PROVE  /\ Gathered(pairs) \in Seq(ListSet)
         /\ \A r \in Requests :
              \/ Places(Gathered(pairs), r) = {} /\ Places(pairs, r) = {}
              \/ \E k \in DOMAIN Gathered(pairs) :
                   /\ Places(Gathered(pairs), r) = {k} /\ Places(pairs, r) # {}
                   /\ Gathered(pairs)[k].tok = TokensIn(pairs, r)
<1>1. PICK n \in Nat : n = Len(pairs) /\ DOMAIN pairs = 1..n
  OBVIOUS
<1>2. PICK first :
        first = {i \in DOMAIN pairs : \A j \in 1..(i - 1) : pairs[j].rid # pairs[i].rid}
  OBVIOUS
<1>3. PICK c, e : c = Cardinality(first) /\ e = EntriesAt(pairs, first)
  OBVIOUS
<1>4. /\ first \subseteq DOMAIN pairs /\ first \subseteq 1..n
      /\ c \in Nat /\ DOMAIN e = 1..c
      /\ \A k \in 1..c : e[k] = pairs[Position(first, k)] /\ Position(first, k) \in first
  <2>1. first \subseteq DOMAIN pairs
    BY <1>2
  <2>2. /\ DOMAIN EntriesAt(pairs, first) = 1..Cardinality(first)
        /\ Cardinality(first) \in Nat
        /\ \A k \in 1..Cardinality(first) :
             EntriesAt(pairs, first)[k] = pairs[Position(first, k)] /\ Position(first, k) \in first
    BY ONLY <2>1, EntriesFacts, pairs \in Seq(PairSet)
  <2> QED BY <1>1, <1>3, <2>1, <2>2
<1>5. PICK rids : rids = [k \in 1..c |-> e[k].rid]
  OBVIOUS
<1>6. PICK g : g = Gathered(pairs)
  OBVIOUS
<1>7. g = [k \in 1..c |-> [rid |-> rids[k], tok |-> TokensIn(pairs, rids[k])]]
  BY <1>2, <1>3, <1>4, <1>5, <1>6 DEF Gathered, Column
<1>8. \A k \in 1..c : rids[k] = pairs[Position(first, k)].rid /\ rids[k] \in Requests
  <2>0. \A i \in 1..n : pairs[i] \in PairSet
    BY <1>1
  <2>1. \A i \in 1..n : pairs[i].rid \in Requests
    BY <2>0 DEF PairSet
  <2> QED BY <1>4, <1>5, <2>1
<1>9. \A k, l \in 1..c : k < l => rids[k] # rids[l]
  <2> SUFFICES ASSUME NEW k \in 1..c, NEW l \in 1..c, k < l PROVE rids[k] # rids[l]
    OBVIOUS
  <2>1. PICK i, j : i = Position(first, k) /\ j = Position(first, l)
    OBVIOUS
  <2>2. i < j
    BY <1>3, <1>4, <2>1, PositionFacts
  <2>3. i \in 1..n /\ j \in first /\ j \in 1..n
    BY <1>4, <2>1
  <2>4. i \in 1..(j - 1)
    BY <2>2, <2>3
  <2>5. pairs[i].rid # pairs[j].rid
    BY <1>2, <2>3, <2>4
  <2> QED BY <1>8, <2>1, <2>5
<1>10. \A k, l \in 1..c : rids[k] = rids[l] => k = l
  <2> SUFFICES ASSUME NEW k \in 1..c, NEW l \in 1..c, rids[k] = rids[l], k # l PROVE FALSE
    OBVIOUS
  <2>1. k < l \/ l < k
    BY <1>4
  <2> QED BY <1>9, <2>1
<1>11. g \in Seq(ListSet) /\ DOMAIN g = 1..c
  <2>1. ASSUME NEW k \in 1..c PROVE g[k] \in ListSet
    <3>1. TokensIn(pairs, rids[k]) \in Seq(Nat)
      BY TokensInFacts DEF PairSet
    <3> QED BY <1>7, <1>8, <3>1 DEF ListSet
  <2>2. g \in [1..c -> ListSet]
    BY <1>7, <2>1
  <2> QED BY <1>4, <1>7, <2>2
<1>12. ASSUME NEW r \in Requests, Places(pairs, r) = {} PROVE Places(g, r) = {}
  <2> SUFFICES ASSUME NEW k \in 1..c, g[k].rid = r PROVE FALSE
    BY <1>11 DEF Places
  <2>1. pairs[Position(first, k)].rid = r
    BY <1>7, <1>8
  <2>2. Position(first, k) \in DOMAIN pairs
    BY <1>4
  <2> QED BY <1>12, <2>1, <2>2 DEF Places
<1>13. ASSUME NEW r \in Requests, Places(pairs, r) # {}
       PROVE  \E k \in DOMAIN g : Places(g, r) = {k} /\ g[k].tok = TokensIn(pairs, r)
  <2>1. PICK P : P = Places(pairs, r)
    OBVIOUS
  <2>2. P \subseteq 1..n /\ P # {}
    BY <1>1, <1>13, <2>1 DEF Places
  <2>3. PICK i \in P : \A j \in P : i <= j
    BY <2>2, Smallest
  <2>4. i \in 1..n /\ pairs[i].rid = r
    BY <2>1, <2>2, <2>3 DEF Places
  <2>5. ASSUME NEW j \in 1..(i - 1) PROVE pairs[j].rid # pairs[i].rid
    <3>1. j \in 1..n /\ ~(i <= j)
      BY <2>4
    <3> QED BY <1>1, <2>1, <2>3, <2>4, <3>1 DEF Places
  <2>6. i \in first
    BY <1>1, <1>2, <2>4, <2>5
  <2>7. PICK k \in 1..c : Position(first, k) = i
    BY <1>3, <1>4, <2>6, PositionFacts
  <2>8. rids[k] = r
    BY <1>8, <2>4, <2>7
  <2>9. Places(g, r) = {k}
    BY <1>7, <1>10, <1>11, <2>8 DEF Places
  <2> QED BY <1>7, <1>11, <2>8, <2>9
<1> QED BY <1>6, <1>11, <1>12, <1>13

\* The same tokens, in pairs or gathered.
LEMMA TokensOfFacts ==
  ASSUME NEW pairs \in Seq(PairSet), NEW fin, NEW r \in Requests
  PROVE  /\ TokensOf(Pairs(pairs, fin), r) = TokensIn(pairs, r)
         /\ TokensOf(Tokens(Gathered(pairs), fin), r) = TokensIn(pairs, r)
<1>1. TokensOf(Pairs(pairs, fin), r) = TokensIn(pairs, r)
  BY DEF TokensOf, Pairs
<1>2. PICK g : g = Gathered(pairs) /\ g \in Seq(ListSet)
  BY GatheredFacts
<1>3. TokensOf(Tokens(g, fin), r) = FlattenSeq(TokensIn(g, r))
  BY DEF TokensOf, Tokens
<1>4. /\ TokensIn(pairs, r) \in Seq(Nat)
      /\ Places(pairs, r) = {} => TokensIn(pairs, r) = <<>>
  BY TokensInFacts DEF PairSet
<1>5. /\ Places(g, r) = {} => TokensIn(g, r) = <<>>
      /\ \A k \in DOMAIN g : Places(g, r) = {k} => TokensIn(g, r) = <<g[k].tok>>
  <2>1. g \in Seq([rid : Requests, tok : Seq(Nat)])
    BY <1>2 DEF ListSet
  <2> QED BY ONLY <2>1, TokensInFacts
<1>6. FlattenSeq(<<>>) = <<>> /\ FlattenSeq(<<TokensIn(pairs, r)>>) = TokensIn(pairs, r)
  BY <1>4, FlattenOne
<1>7. \/ Places(g, r) = {} /\ Places(pairs, r) = {}
      \/ \E k \in DOMAIN g : /\ Places(g, r) = {k} /\ Places(pairs, r) # {}
                             /\ g[k].tok = TokensIn(pairs, r)
  BY <1>2, GatheredFacts
<1> QED BY <1>1, <1>2, <1>3, <1>4, <1>5, <1>6, <1>7

\* An event has tokens by their number.
LEMMA TokensOfType ==
  ASSUME NEW e \in EvtSet, e # Error, NEW r
  PROVE  TokensOf(e, r) \in Seq(Nat)
<1>1. ASSUME NEW toks \in Seq(PairSet), NEW fin \in SUBSET Requests, e = Pairs(toks, fin)
      PROVE  TokensOf(e, r) \in Seq(Nat)
  <2>1. TokensOf(e, r) = TokensIn(toks, r)
    BY <1>1 DEF TokensOf, Pairs
  <2> QED BY <2>1, TokensInFacts DEF PairSet
<1>2. ASSUME NEW lists \in Seq(ListSet), NEW fin \in SUBSET Requests, e = Tokens(lists, fin)
      PROVE  TokensOf(e, r) \in Seq(Nat)
  <2>1. PICK q : q = TokensIn(lists, r)
    OBVIOUS
  <2>2. q \in Seq(Seq(Nat))
    BY <2>1, TokensInFacts DEF ListSet
  <2>3. TokensOf(e, r) = FlattenSeq(q)
    BY <1>2, <2>1 DEF TokensOf, Tokens
  <2>4. PICK fl \in [0..Len(q) -> Seq(Nat)] : FlattenSeq(q) = fl[Len(q)]
    BY <2>2, FlattenIs
  <2>5. Len(q) \in 0..Len(q)
    BY <2>2
  <2> QED BY <2>3, <2>4, <2>5
<1> QED BY <1>1, <1>2 DEF EvtSet

-----------------------------------------------------------------------------
(***************************************************************************)
(* What the process keeps: the sessions are those that admission counts,   *)
(* as many as the cache was sized for, and each has a token left to make   *)
(* (Served); what travels is what the two sides understand (Channels).     *)
(***************************************************************************)
Controls == epc \in {"top", "drain", "admit", "step", "dead"} /\ boot \in BOOLEAN /\ recvCt \in Nat
Queued ==
  /\ pend \in Seq(Requests) /\ byRid \subseteq Range(pend)
  /\ prompts \in [Requests -> Seq(Nat)]
Served ==
  /\ sessions \subseteq Requests /\ active = sessions
  /\ Cardinality(sessions) <= KVConc
  /\ gen \in [Requests -> 0..MaxNew]
  /\ \A r \in sessions : 0 < gen[r] /\ gen[r] < MaxNew
Reported ==
  /\ out \in Seq([rid : Requests, tok : 1..MaxNew]) /\ finished \subseteq Requests
  /\ prof \in BOOLEAN /\ died \in BOOLEAN

CarriedCmds == IF ipc = "pipe" THEN {EncodeCmd(c) : c \in CmdSet} ELSE CmdSet
CarriedEvts == IF ipc = "pipe" THEN {EncodeEvt(e) : e \in EvtSet} ELSE EvtSet
Modes == /\ ipc \in {"queue", "pipe"} /\ cut \in BOOLEAN
         /\ emit \in EmitModes /\ emit \in {"pairs", "tokens"}
Channels == Modes /\ cmds \in Seq(CarriedCmds) /\ events \in Seq(CarriedEvts)

EngineOK == Controls /\ Queued /\ Served /\ Reported /\ Channels

LEMMA EngineTyped == EngineOK => EngineTypeOK /\ PlacesExact
BY DEF EngineOK, Controls, Queued, Served, Reported, Channels, Modes, EngineTypeOK, PlacesExact

LEMMA EngineInitOK ==
  ASSUME EngineInit, EmitModes \subseteq {"pairs", "tokens"}
  PROVE  EngineOK
<1>1. Controls /\ Reported
  <2>1. <<>> \in Seq([rid : Requests, tok : 1..MaxNew])
    OBVIOUS
  <2> QED BY <2>1 DEF EngineInit, Controls, Reported
<1>2. Queued
  BY DEF EngineInit, Queued
<1>3. Served
  <2>1. Cardinality({}) = 0
    BY FS_EmptySet
  <2> QED BY <2>1, EngineAssumption DEF EngineInit, Served
<1>4. Channels
  <2>1. <<>> \in Seq(CarriedCmds) /\ <<>> \in Seq(CarriedEvts)
    OBVIOUS
  <2>2. Modes
    BY EngineAssumption DEF EngineInit, Modes
  <2> QED BY <2>1, <2>2 DEF EngineInit, Channels
<1> QED BY <1>1, <1>2, <1>3, <1>4 DEF EngineOK

\* What arrives is what was sent.
LEMMA CommandFacts ==
  ASSUME Channels, cmds # <<>>
  PROVE  Command \in CmdSet /\ Tail(cmds) \in Seq(CarriedCmds)
<1>1. Head(cmds) \in CarriedCmds /\ Tail(cmds) \in Seq(CarriedCmds)
  BY TailFacts DEF Channels
<1> QED BY <1>1, CmdDecoded DEF Command, CarriedCmds

LEMMA ArrivedFacts ==
  ASSUME Channels, events # <<>>
  PROVE  Arrived \in EvtSet /\ Tail(events) \in Seq(CarriedEvts)
<1>1. Head(events) \in CarriedEvts /\ Tail(events) \in Seq(CarriedEvts)
  BY TailFacts DEF Channels
<1> QED BY <1>1, EvtDecoded DEF Arrived, CarriedEvts

LEMMA EmittedFacts ==
  ASSUME Channels, NEW e \in EvtSet
  PROVE  Emitted(e) \in Seq(CarriedEvts)
<1>1. (IF ipc = "pipe" THEN EncodeEvt(e) ELSE e) \in CarriedEvts
  BY DEF CarriedEvts
<1>2. PICK x : x = IF ipc = "pipe" THEN EncodeEvt(e) ELSE e
  OBVIOUS
<1>3. events \in Seq(CarriedEvts) /\ x \in CarriedEvts
  BY <1>1, <1>2 DEF Channels
<1>4. Append(events, x) \in Seq(CarriedEvts)
  BY ONLY <1>3
<1> QED BY <1>2, <1>3, <1>4 DEF Emitted

LEMMA SentFacts ==
  ASSUME Channels, NEW list \in Seq(CmdSet), Sent(list), ipc' = ipc
  PROVE  cmds' \in Seq(CarriedCmds)'
<1>1. PICK n \in Nat : n = Len(list) /\ DOMAIN list = 1..n
  OBVIOUS
<1>2. PICK s : s = [i \in DOMAIN list |-> IF ipc = "pipe" THEN EncodeCmd(list[i]) ELSE list[i]]
  OBVIOUS
<1>3. s \in Seq(CarriedCmds)
  <2>1. \A i \in 1..n : (IF ipc = "pipe" THEN EncodeCmd(list[i]) ELSE list[i]) \in CarriedCmds
    BY <1>1 DEF CarriedCmds
  <2>2. s \in [1..n -> CarriedCmds]
    BY <1>1, <1>2, <2>1
  <2> QED BY <2>2
<1>4. cmds \in Seq(CarriedCmds)
  BY DEF Channels
<1>5. cmds \o s \in Seq(CarriedCmds)
  BY ONLY <1>3, <1>4
<1>6. cmds' \in Seq(CarriedCmds)
  BY <1>2, <1>4, <1>5 DEF Sent
<1> QED BY <1>6 DEF CarriedCmds

\* Where the only prompt of a command begins.
LEMMA OffsetFirst == ASSUME NEW n \in Nat PROVE Offset(<<n>>, 1) = 0
<1>1. SubSeq(<<n>>, 1, 1 - 1) = <<>>
  OBVIOUS
<1>2. FoldLeft(+, 0, <<>>) = 0
  <2>1. PICK e : e = <<>>
    OBVIOUS
  <2> DEFINE body(f) == [s \in SUBSET DOMAIN e |->
                 IF s = {} THEN 0 ELSE LET x == Max(s) IN f[s \ {x}] + e[x]]
             it == CHOOSE f : f = body(f)
  <2>2. FoldLeft(+, 0, e) = it[DOMAIN e]
    BY Zenon DEF FoldLeft, MapThenFoldSet
  <2>3. DOMAIN e = {}
    BY <2>1
  <2>4. PICK h : h = [s \in SUBSET DOMAIN e |-> 0]
    OBVIOUS
  <2>5. h = body(h)
    BY <2>3, <2>4
  <2>6. it = body(it)
    BY <2>5
  <2> HIDE DEF it
  <2>7. it[{}] = 0
    BY <2>3, <2>6
  <2> QED BY <2>1, <2>2, <2>3, <2>7
<1> QED BY <1>1, <1>2 DEF Offset

\* The requests taken from `pending', and those left there.
Rest == SubSeq(pend, Cardinality(Popped) + 1, Len(pend))

LEMMA TakenFacts ==
  ASSUME Queued, AdmitLimit \in Nat
  PROVE  /\ Taken \in Seq(Requests) /\ Range(Taken) \subseteq byRid
         /\ Range(Taken) \subseteq Requests /\ IsFiniteSet(Range(Taken))
         /\ Cardinality(Range(Taken)) <= AdmitLimit
         /\ Rest \in Seq(Requests) /\ byRid \ Range(Taken) \subseteq Range(Rest)
         /\ Range(Rest) \subseteq Range(pend)
         /\ Range(Taken) \subseteq Range(pend)
<1>1. PICK n \in Nat : n = Len(pend) /\ DOMAIN pend = 1..n /\ pend \in Seq(Requests)
  BY DEF Queued
<1>2. PICK p \in 0..n : Popped = 1..p /\ Cardinality(Popped) = p
  BY <1>1, PoppedFacts
<1>3. PICK X : X = Live \cap Popped
  OBVIOUS
<1>4. X \subseteq DOMAIN pend /\ Cardinality(X) <= AdmitLimit /\ Live \subseteq DOMAIN pend
  BY <1>1, <1>3, PoppedFacts
<1>5. PICK b : b = Taken
  OBVIOUS
<1>6. b \in Seq(Requests) /\ Len(b) = Cardinality(X) /\ Range(b) = {pend[i] : i \in X}
  <2>1. b = EntriesAt(pend, X)
    BY <1>3, <1>5 DEF Taken
  <2>2. pend \in Seq(Requests) /\ X \subseteq DOMAIN pend
    BY <1>1, <1>4
  <2>3. EntriesAt(pend, X) \in Seq(Requests) /\ Len(EntriesAt(pend, X)) = Cardinality(X)
    BY ONLY <2>2, EntriesFacts
  <2>4. Range(EntriesAt(pend, X)) = {pend[i] : i \in X}
    BY ONLY <2>2, EntriesFacts, Zenon
  <2> QED BY <2>1, <2>3, <2>4
<1>7. Range(b) \subseteq byRid /\ Range(b) \subseteq Requests /\ Range(b) \subseteq Range(pend)
  <2>1. \A i \in X : pend[i] \in byRid /\ pend[i] \in Range(pend)
    BY <1>3, <1>4 DEF Live, Range
  <2> QED BY <1>6, <2>1, SeqFacts
<1>8. IsFiniteSet(Range(b)) /\ Cardinality(Range(b)) <= AdmitLimit
  <2>1. IsFiniteSet(Range(b)) /\ Cardinality(Range(b)) <= Len(b)
    BY <1>6, RangeBound
  <2>2. Cardinality(Range(b)) \in Nat /\ Len(b) \in Nat
    BY <1>6, <2>1, FS_CardinalityType
  <2> QED BY <1>4, <1>6, <2>1, <2>2
<1>9. PICK q : q = Rest
  OBVIOUS
<1>10. /\ q \in Seq(Requests) /\ Len(q) = n - p /\ DOMAIN q = 1..(n - p)
       /\ \A i \in 1..(n - p) : q[i] = pend[p + i]
  <2>1. q = SubSeq(pend, p + 1, n)
    BY <1>1, <1>2, <1>9 DEF Rest
  <2> QED BY ONLY <1>1, <2>1, p \in 0..n, n \in Nat
<1>11. byRid \ Range(b) \subseteq Range(q)
  <2> SUFFICES ASSUME NEW r \in byRid, r \notin Range(b) PROVE r \in Range(q)
    OBVIOUS
  <2>1. PICK i \in 1..n : pend[i] = r
    BY <1>1 DEF Queued, Range
  <2>2. i \in Live
    BY <1>1, <2>1 DEF Live
  <2>3. i \notin Popped
    BY <1>3, <1>6, <2>1, <2>2
  <2>4. PICK j \in 1..(n - p) : p + j = i
    <3>1. i - p \in 1..(n - p) /\ p + (i - p) = i
      BY <1>2, <2>3
    <3> QED BY <3>1
  <2> QED BY <1>10, <2>1, <2>4 DEF Range
<1>12. Range(q) \subseteq Range(pend)
  <2>1. \A i \in 1..(n - p) : p + i \in 1..n
    OBVIOUS
  <2> QED BY <1>1, <1>10, <2>1 DEF Range
<1> QED BY <1>5, <1>6, <1>7, <1>8, <1>9, <1>10, <1>11, <1>12

\* A command of the manager is one of three.
LEMMA CmdCases ==
  ASSUME NEW c \in CmdSet
  PROVE  \/ c.op = "add" /\ \E r \in Requests : c = Add(r)
         \/ c.op = "cancel" /\ \E r \in Requests : c = Cancel(r)
         \/ c.op = "shutdown" /\ c = Shutdown
BY DEF CmdSet, Add, Cancel, Shutdown

\* A request that came waits, with its prompt.
LEMMA EnqueuedOK ==
  ASSUME Queued, NEW r \in Requests, Enqueued(Add(r))
  PROVE  /\ Queued' /\ pend' = Append(pend, r) /\ byRid' = byRid \cup {r}
         /\ Range(pend') = Range(pend) \cup {r}
         /\ \A s \in Requests : prompts'[s] = IF s = r THEN PromptOf[r] ELSE prompts[s]
<1>1. PICK p : p = PromptOf[r] /\ p \in Seq(Nat)
  BY MessagesAssumption
<1>2. Add(r).on = <<r>> /\ Add(r).lens = <<Len(p)>> /\ Add(r).toks = p /\ Range(<<r>>) = {r}
  BY <1>1 DEF Add, Range
<1>3. pend' = Append(pend, r) /\ byRid' = byRid \cup {r}
  <2>1. pend \in Seq(Requests)
    BY DEF Queued
  <2>2. pend \o <<r>> = Append(pend, r)
    BY <2>1
  <2> QED BY <1>2, <2>2 DEF Enqueued
<1>4. /\ prompts' \in [Requests -> Seq(Nat)]
      /\ \A s \in Requests : prompts'[s] = IF s = r THEN p ELSE prompts[s]
  <2>1. \A i \in DOMAIN <<r>> : i = 1
    OBVIOUS
  <2>2. (CHOOSE i \in DOMAIN <<r>> : <<r>>[i] = r) = 1
    BY <2>1
  <2>3. prompts' = [s \in Requests |-> IF s \notin {r} THEN prompts[s]
                                       ELSE Slice(p, Offset(<<Len(p)>>, 1), <<Len(p)>>[1])]
    BY <1>2, <2>2 DEF Enqueued
  <2>4. Len(p) \in Nat /\ <<Len(p)>>[1] = Len(p)
    BY <1>1
  <2>5. Offset(<<Len(p)>>, 1) = 0
    BY <2>4, OffsetFirst
  <2>6. Slice(p, 0, Len(p)) = p
    BY <1>1 DEF Slice
  <2> QED BY <1>1, <2>3, <2>4, <2>5, <2>6 DEF Queued
<1>5. pend' \in Seq(Requests) /\ Range(pend') = Range(pend) \cup {r}
  BY <1>3, AppendFacts DEF Queued
<1> QED BY <1>1, <1>3, <1>4, <1>5 DEF Queued

\* A canceled request is out of the sessions and out of the count.
LEMMA CanceledOK ==
  ASSUME Queued, Served, NEW r \in Requests, Canceled(r)
  PROVE  Queued' /\ Served'
<1>1. Queued'
  BY DEF Queued, Canceled
<1>2. Served'
  <2>1. IsFiniteSet(sessions) /\ sessions' = sessions \ {r} /\ active' = sessions'
    BY FS_Subset, MessagesAssumption DEF Canceled, Served, ActiveWithout
  <2>2. Cardinality(sessions') <= Cardinality(sessions) /\ IsFiniteSet(sessions')
    BY <2>1, FS_Subset
  <2>3. Cardinality(sessions) \in Nat /\ Cardinality(sessions') \in Nat /\ KVConc \in Nat
    BY <2>1, <2>2, FS_CardinalityType, EngineAssumption
  <2>4. Cardinality(sessions') <= KVConc
    BY <2>2, <2>3 DEF Served
  <2> QED BY <2>1, <2>4 DEF Served, Canceled
<1> QED BY <1>1, <1>2

\* A command is handled.
LEMMA HandleOK ==
  ASSUME EngineOK, cmds # <<>>, Handle(Command)
  PROVE  Queued' /\ Served' /\ Reported' /\ Channels'
<1>1. Command \in CmdSet /\ Tail(cmds) \in Seq(CarriedCmds)
  BY CommandFacts DEF EngineOK
<1>2. /\ ipc' = ipc /\ emit' = emit /\ cut' = cut /\ died' = died /\ out' = out /\ finished' = finished
      /\ cmds' = Tail(cmds)
  BY DEF Handle, channels, result
<1>3. CASE Command.op = "add" /\ \E r \in Requests : Command = Add(r)
  <2>1. PICK r \in Requests : Command = Add(r)
    BY <1>3
  <2>2. Enqueued(Add(r)) /\ prof' = prof /\ events' = events
    BY <1>3, <2>1 DEF Handle
  <2>3. Queued'
    BY <2>2, EnqueuedOK DEF EngineOK
  <2>4. UNCHANGED served
    BY <2>2 DEF Enqueued
  <2> QED BY <1>1, <1>2, <2>2, <2>3, <2>4
          DEF EngineOK, Served, served, Reported, Channels, Modes, CarriedCmds, CarriedEvts
<1>4. CASE Command.op = "cancel" /\ \E r \in Requests : Command = Cancel(r)
  <2>1. PICK r \in Requests : Command = Cancel(r)
    BY <1>4
  <2>2. Canceled(r) /\ prof' = prof /\ events' = events
    <3>1. Head(Command.on) = r
      BY <2>1 DEF Cancel
    <3> QED BY <1>4, <3>1 DEF Handle
  <2>3. Queued' /\ Served'
    BY <2>2, CanceledOK DEF EngineOK
  <2> QED BY <1>1, <1>2, <2>2, <2>3
          DEF EngineOK, Reported, Channels, Modes, CarriedCmds, CarriedEvts
<1>5. CASE Command.op = "shutdown" /\ Command = Shutdown
  <2>1. UNCHANGED <<queued, served, prof, events>>
    BY <1>5 DEF Handle
  <2> QED BY <1>1, <1>2, <2>1
          DEF EngineOK, Queued, Served, queued, served, Reported, Channels, Modes, CarriedCmds,
              CarriedEvts
<1> QED BY <1>1, <1>3, <1>4, <1>5, CmdCases

LEMMA GetBlockingOK == ASSUME EngineOK, GetBlocking PROVE EngineOK'
<1>1. Queued' /\ Served' /\ Reported' /\ Channels'
  BY HandleOK DEF GetBlocking
<1>2. Controls'
  <2>1. CASE Ends(Command) \/ Command.op = "add"
    BY <2>1 DEF GetBlocking, EngineOK, Controls
  <2>2. CASE ~(Ends(Command) \/ Command.op = "add")
    <3>1. epc' \in {"top", "drain"} /\ recvCt' = 0
      BY <2>2 DEF GetBlocking, Resume
    <3>2. boot' \in BOOLEAN
      <4>1. Resume(byRid', active', sessions')
        BY <2>2 DEF GetBlocking
      <4> QED BY <4>1, Zenon DEF Resume
    <3> QED BY <3>1, <3>2 DEF Controls
  <2> QED BY <2>1, <2>2
<1> QED BY <1>1, <1>2 DEF EngineOK

LEMMA DrainOneOK == ASSUME EngineOK, DrainOne PROVE EngineOK'
<1>1. Queued' /\ Served' /\ Reported' /\ Channels'
  BY HandleOK DEF DrainOne
<1>2. Controls'
  BY DEF DrainOne, EngineOK, Controls
<1> QED BY <1>1, <1>2 DEF EngineOK

\* What admission does: the requests b get sessions, those of fin are over already.
Admitted(b, fin) ==
  /\ b = Taken /\ fin \subseteq Range(b) /\ (MaxNew = 1 => fin = Range(b))
  /\ gen' = [r \in Requests |-> IF r \in Range(b) THEN 1 ELSE gen[r]]
  /\ active' = active \cup (Range(b) \ fin)
  /\ sessions' = sessions \cup (Range(b) \ fin)
  /\ byRid' = byRid \ Range(b)
  /\ out' = [i \in DOMAIN b |-> [rid |-> b[i], tok |-> 1]]
  /\ finished' = fin
  /\ pend' = Rest /\ epc' = "step"
  /\ UNCHANGED <<channels, cmds, events, died, boot, recvCt, prompts, prof>>

LEMMA AdmitShape == ASSUME Admit PROVE \E b, fin : Admitted(b, fin)
<1>1. PICK eos \in SUBSET Range(Taken) :
        LET batch == Taken
            fin == IF MaxNew = 1 THEN Range(batch) ELSE eos
        IN  /\ gen' = [r \in Requests |-> IF r \in Range(batch) THEN 1 ELSE gen[r]]
            /\ active' = active \cup (Range(batch) \ fin)
            /\ sessions' = sessions \cup (Range(batch) \ fin)
            /\ byRid' = byRid \ Range(batch)
            /\ out' = [i \in DOMAIN batch |-> [rid |-> batch[i], tok |-> 1]]
            /\ finished' = fin
  BY DEF Admit
<1>2. PICK b, fin : b = Taken /\ fin = IF MaxNew = 1 THEN Range(b) ELSE eos
  OBVIOUS
<1>3. Admitted(b, fin)
  BY <1>1, <1>2 DEF Admit, Admitted, Rest
<1> QED BY <1>3

LEMMA AdmitOK == ASSUME EngineOK, Admit PROVE EngineOK'
<1>1. /\ IsFiniteSet(sessions) /\ active = sessions /\ AdmitLimit \in Nat
      /\ Cardinality(sessions) + AdmitLimit <= KVConc /\ Cardinality(sessions) \in Nat
  <2>1. IsFiniteSet(sessions) /\ active = sessions /\ Cardinality(sessions) <= KVConc
    BY FS_Subset, MessagesAssumption DEF EngineOK, Served
  <2> QED BY <2>1, LimitFacts
<1>2. PICK b, fin : Admitted(b, fin)
  BY AdmitShape
<1>3. /\ b \in Seq(Requests) /\ Range(b) \subseteq byRid /\ Range(b) \subseteq Requests
      /\ IsFiniteSet(Range(b)) /\ Cardinality(Range(b)) <= AdmitLimit
      /\ Rest \in Seq(Requests) /\ byRid \ Range(b) \subseteq Range(Rest)
  BY <1>1, <1>2, TakenFacts DEF EngineOK, Admitted
<1>4. /\ fin \subseteq Range(b) /\ (MaxNew = 1 => fin = Range(b))
      /\ gen' = [r \in Requests |-> IF r \in Range(b) THEN 1 ELSE gen[r]]
      /\ active' = active \cup (Range(b) \ fin)
      /\ sessions' = sessions \cup (Range(b) \ fin)
      /\ byRid' = byRid \ Range(b)
      /\ out' = [i \in DOMAIN b |-> [rid |-> b[i], tok |-> 1]]
      /\ finished' = fin
  BY <1>2 DEF Admitted
<1>5. /\ pend' = Rest /\ epc' = "step"
      /\ UNCHANGED <<channels, cmds, events, died, boot, recvCt, prompts, prof>>
  BY <1>2 DEF Admitted
<1>6. Controls'
  BY <1>5 DEF EngineOK, Controls
<1>7. Queued'
  BY <1>3, <1>4, <1>5 DEF EngineOK, Queued
<1>8. Served'
  <2>1. MaxNew \in Nat \ {0} /\ KVConc \in Nat
    BY EngineAssumption
  <2>2. sessions' \subseteq Requests /\ active' = sessions'
    BY <1>1, <1>3, <1>4 DEF EngineOK, Served
  <2>3. gen' \in [Requests -> 0..MaxNew]
    BY <1>4, <2>1 DEF EngineOK, Served
  <2>4. \A r \in sessions' : 0 < gen'[r] /\ gen'[r] < MaxNew
    <3>1. \A r \in Range(b) \ fin : MaxNew # 1 /\ gen'[r] = 1
      BY <1>3, <1>4
    <3>2. \A r \in sessions \ Range(b) : gen'[r] = gen[r]
      BY <1>4 DEF EngineOK, Served
    <3>3. \A r \in sessions \cap Range(b) : gen'[r] = 1 /\ 0 < gen[r] /\ gen[r] < MaxNew /\ gen[r] \in 0..MaxNew
      BY <1>4 DEF EngineOK, Served
    <3> QED BY <1>4, <2>1, <3>1, <3>2, <3>3 DEF EngineOK, Served
  <2>5. Cardinality(sessions') <= KVConc
    <3>1. PICK X : X = Range(b) \ fin
      OBVIOUS
    <3>2. IsFiniteSet(X) /\ Cardinality(X) <= Cardinality(Range(b))
      BY <1>3, <3>1, FS_Subset
    <3>3. Cardinality(sessions \cup X) = Cardinality(sessions) + Cardinality(X) - Cardinality(sessions \cap X)
      BY <1>1, <3>2, FS_Union
    <3>4. IsFiniteSet(sessions \cap X)
      BY <1>1, FS_Subset
    <3>5. Cardinality(X) \in Nat /\ Cardinality(sessions \cap X) \in Nat /\ Cardinality(Range(b)) \in Nat
      BY <1>3, <3>2, <3>4, FS_CardinalityType
    <3> QED BY <1>1, <1>3, <1>4, <2>1, <3>1, <3>2, <3>3, <3>5
  <2> QED BY <2>2, <2>3, <2>4, <2>5 DEF Served
<1>9. Reported'
  <2>1. PICK n \in Nat : n = Len(b) /\ DOMAIN b = 1..n
    BY <1>3
  <2>2. 1 \in 1..MaxNew
    BY EngineAssumption
  <2>3. out' \in Seq([rid : Requests, tok : 1..MaxNew])
    <3>1. \A i \in 1..n : [rid |-> b[i], tok |-> 1] \in [rid : Requests, tok : 1..MaxNew]
      BY <1>3, <2>1, <2>2
    <3>2. out' = [i \in 1..n |-> [rid |-> b[i], tok |-> 1]]
      BY <1>4, <2>1
    <3> QED BY <3>1, <3>2
  <2> QED BY <1>3, <1>4, <1>5, <2>3 DEF EngineOK, Reported
<1>10. Channels'
  BY <1>5 DEF EngineOK, Channels, Modes, channels, CarriedCmds, CarriedEvts
<1> QED BY <1>6, <1>7, <1>8, <1>9, <1>10 DEF EngineOK

\* What a step does: the sessions chosen get a token each, those of fin are over.
NewPairs(chosen) == SetToSeq({[rid |-> r, tok |-> gen[r] + 1] : r \in chosen})
AllPairs(chosen) == out \o NewPairs(chosen)

Stepped(chosen, fin) ==
  LET all  == finished \cup fin
      told == all # {} \/ AllPairs(chosen) # <<>>
  IN  /\ chosen \subseteq sessions /\ fin \subseteq chosen
      /\ \A r \in chosen : gen[r] + 1 = MaxNew => r \in fin
      /\ gen' = [r \in Requests |-> IF r \in chosen THEN gen[r] + 1 ELSE gen[r]]
      /\ sessions' = sessions \ fin /\ active' = active \ fin
      /\ events' = IF told THEN Emitted(Event(AllPairs(chosen), all, gen')) ELSE events
      /\ IF told /\ ~CanEmit THEN epc' = "dead" /\ UNCHANGED <<boot, recvCt>>
                             ELSE Resume(byRid, active', sessions')
      /\ out' = <<>> /\ finished' = {}
      /\ UNCHANGED <<channels, cmds, died, queued, prof>>

LEMMA StepShape == ASSUME Step, Modes PROVE \E chosen, fin : Stepped(chosen, fin)
<1>1. PICK chosen, eos :
        /\ chosen \subseteq sessions /\ eos \subseteq chosen
        /\ LET fin == eos \cup {r \in chosen : gen[r] + 1 = MaxNew}
               all == finished \cup fin
               toks == out \o SetToSeq({[rid |-> r, tok |-> gen[r] + 1] : r \in chosen})
               told == all # {} \/ (emit # "counts" /\ toks # <<>>)
           IN  /\ gen' = [r \in Requests |-> IF r \in chosen THEN gen[r] + 1 ELSE gen[r]]
               /\ sessions' = Left(fin)
               /\ active' = active \ fin
               /\ events' = IF told THEN Emitted(Event(toks, all, gen')) ELSE events
               /\ IF told /\ ~CanEmit
                  THEN epc' = "dead" /\ UNCHANGED <<boot, recvCt>>
                  ELSE Resume(byRid, active', sessions')
  BY DEF Step
<1>2. PICK fin : fin = eos \cup {r \in chosen : gen[r] + 1 = MaxNew}
  OBVIOUS
<1>3. emit # "counts"
  BY DEF Modes
<1>4. /\ fin \subseteq chosen /\ chosen \subseteq sessions
      /\ \A r \in chosen : gen[r] + 1 = MaxNew => r \in fin
  <2>1. chosen \subseteq sessions /\ eos \subseteq chosen
    BY <1>1, Zenon
  <2> QED BY ONLY <1>2, <2>1, Zenon
<1>5. out' = <<>> /\ finished' = {} /\ UNCHANGED <<channels, cmds, died, queued, prof>>
  BY DEF Step
<1>6. Stepped(chosen, fin)
  BY <1>1, <1>2, <1>3, <1>4, <1>5 DEF Stepped, AllPairs, NewPairs, Left
<1> QED BY <1>6

\* The pairs of an iteration, and the event made of them.
LEMMA PairsFacts ==
  ASSUME EngineOK, NEW chosen, chosen \subseteq sessions
  PROVE  /\ AllPairs(chosen) \in Seq(PairSet) /\ NewPairs(chosen) \in Seq(PairSet)
         /\ out \in Seq(PairSet)
         /\ Range(NewPairs(chosen)) = {[rid |-> r, tok |-> gen[r] + 1] : r \in chosen}
         /\ \A i, j \in DOMAIN NewPairs(chosen) :
              NewPairs(chosen)[i] = NewPairs(chosen)[j] => i = j
         /\ \A r \in chosen : gen[r] + 1 \in 1..MaxNew
<1>1. PICK P : P = {[rid |-> r, tok |-> gen[r] + 1] : r \in chosen}
  OBVIOUS
<1>2. \A r \in chosen : r \in Requests /\ gen[r] + 1 \in 1..MaxNew /\ gen[r] + 1 \in Nat
  <2>1. \A r \in chosen : r \in Requests /\ gen[r] \in 0..MaxNew /\ gen[r] < MaxNew
    BY DEF EngineOK, Served
  <2> QED BY <2>1, EngineAssumption
<1>3. P \subseteq PairSet
  BY <1>1, <1>2 DEF PairSet
<1>4. IsFiniteSet(P)
  <2>1. IsFiniteSet(chosen)
    BY FS_Subset, MessagesAssumption, <1>2
  <2>2. PICK f : f = [r \in chosen |-> [rid |-> r, tok |-> gen[r] + 1]]
    OBVIOUS
  <2>3. f \in Surjection(chosen, P)
    BY <1>1, <2>2 DEF Surjection
  <2> QED BY <2>1, <2>3, FS_Surjection
<1>5. PICK q : q = NewPairs(chosen)
  OBVIOUS
<1>6. q \in Seq(P) /\ Range(q) = P /\ \A i, j \in DOMAIN q : q[i] = q[j] => i = j
  BY <1>1, <1>4, <1>5, SetToSeqFacts DEF NewPairs
<1>7. q \in Seq(PairSet)
  BY <1>3, <1>6
<1>8. out \in Seq(PairSet)
  <2>1. [rid : Requests, tok : 1..MaxNew] \subseteq PairSet
    BY EngineAssumption DEF PairSet
  <2>2. out \in Seq([rid : Requests, tok : 1..MaxNew])
    BY DEF EngineOK, Reported
  <2>3. PICK S, T : S = [rid : Requests, tok : 1..MaxNew] /\ T = PairSet
    OBVIOUS
  <2>4. S \subseteq T /\ out \in Seq(S)
    BY <2>1, <2>2, <2>3
  <2>5. out \in Seq(T)
    BY ONLY <2>4
  <2> QED BY <2>3, <2>5
<1>9. out \o q \in Seq(PairSet)
  BY ONLY <1>7, <1>8
<1> QED BY <1>1, <1>2, <1>5, <1>6, <1>7, <1>8, <1>9 DEF AllPairs

LEMMA EventFacts ==
  ASSUME Modes, NEW toks \in Seq(PairSet), NEW fin, fin \subseteq Requests, NEW made
  PROVE  Event(toks, fin, made) \in EvtSet
<1>1. Gathered(toks) \in Seq(ListSet)
  BY GatheredFacts
<1>2. emit = "pairs" \/ emit = "tokens"
  BY DEF Modes
<1> QED BY <1>1, <1>2 DEF Event, EvtSet

LEMMA StepOK == ASSUME EngineOK, Step PROVE EngineOK'
<1>1. PICK chosen, fin : Stepped(chosen, fin)
  BY StepShape DEF EngineOK, Channels
<1>2. /\ chosen \subseteq sessions /\ fin \subseteq chosen
      /\ \A r \in chosen : gen[r] + 1 = MaxNew => r \in fin
      /\ gen' = [r \in Requests |-> IF r \in chosen THEN gen[r] + 1 ELSE gen[r]]
      /\ sessions' = sessions \ fin /\ active' = active \ fin
      /\ out' = <<>> /\ finished' = {}
      /\ UNCHANGED <<channels, cmds, died, queued, prof>>
  BY <1>1 DEF Stepped
<1>3. AllPairs(chosen) \in Seq(PairSet) /\ \A r \in chosen : gen[r] + 1 \in 1..MaxNew
  BY <1>2, PairsFacts
<1>4. Queued'
  BY <1>2 DEF EngineOK, Queued, queued
<1>5. Served'
  <2>1. IsFiniteSet(sessions) /\ sessions' \subseteq sessions /\ sessions' \subseteq Requests /\ active' = sessions'
    BY <1>2, FS_Subset, MessagesAssumption DEF EngineOK, Served
  <2>2. Cardinality(sessions') <= Cardinality(sessions) /\ IsFiniteSet(sessions')
    BY <2>1, FS_Subset
  <2>3. Cardinality(sessions) \in Nat /\ Cardinality(sessions') \in Nat /\ KVConc \in Nat
    BY <2>1, <2>2, FS_CardinalityType, EngineAssumption
  <2>4. Cardinality(sessions') <= KVConc
    BY <2>2, <2>3 DEF EngineOK, Served
  <2>5. gen' \in [Requests -> 0..MaxNew]
    <3>1. \A r \in chosen : gen[r] + 1 \in 0..MaxNew
      BY <1>3
    <3> QED BY <1>2, <3>1 DEF EngineOK, Served
  <2>6. ASSUME NEW r \in sessions' PROVE 0 < gen'[r] /\ gen'[r] < MaxNew
    <3>1. r \in sessions /\ r \in Requests /\ 0 < gen[r] /\ gen[r] < MaxNew /\ gen[r] \in 0..MaxNew
      BY <2>1 DEF EngineOK, Served
    <3>2. CASE r \in chosen
      <4>1. gen'[r] = gen[r] + 1 /\ gen[r] + 1 # MaxNew
        <5>1. r \notin fin
          BY <1>2, <2>6
        <5> QED BY <1>2, <3>1, <3>2, <5>1
      <4>2. gen[r] + 1 \in 1..MaxNew /\ MaxNew \in Nat /\ gen[r] \in Nat
        BY <1>3, <3>1, <3>2, EngineAssumption
      <4> QED BY ONLY <4>1, <4>2
    <3>3. CASE r \notin chosen
      BY <1>2, <3>1, <3>3
    <3> QED BY <3>2, <3>3
  <2> QED BY <2>1, <2>4, <2>5, <2>6 DEF Served
<1>6. Reported'
  <2>1. <<>> \in Seq([rid : Requests, tok : 1..MaxNew])
    OBVIOUS
  <2> QED BY <1>2, <2>1 DEF EngineOK, Reported
<1>7. Channels'
  <2>1. PICK all, e : all = finished \cup fin /\ e = Event(AllPairs(chosen), all, gen')
    OBVIOUS
  <2>2. all \subseteq Requests
    BY <1>2, <2>1 DEF EngineOK, Reported, Served
  <2>3. e \in EvtSet
    BY <1>3, <2>1, <2>2, EventFacts DEF EngineOK, Channels
  <2>4. Emitted(e) \in Seq(CarriedEvts) /\ events \in Seq(CarriedEvts)
    BY <2>3, EmittedFacts DEF EngineOK, Channels
  <2>5. events' = Emitted(e) \/ events' = events
    BY <1>1, <2>1 DEF Stepped
  <2> QED BY <1>2, <2>4, <2>5 DEF EngineOK, Channels, Modes, channels, CarriedCmds, CarriedEvts
<1>8. Controls'
  <2>1. (epc' = "dead" /\ UNCHANGED <<boot, recvCt>>) \/ Resume(byRid, active', sessions')
    BY <1>1, Zenon DEF Stepped
  <2>2. CASE epc' = "dead" /\ UNCHANGED <<boot, recvCt>>
    BY <2>2 DEF EngineOK, Controls
  <2>3. CASE Resume(byRid, active', sessions')
    <3>1. epc' \in {"top", "drain"} /\ recvCt' = 0
      BY <2>3 DEF Resume
    <3>2. boot' \in BOOLEAN
      BY <2>3, Zenon DEF Resume
    <3> QED BY <3>1, <3>2 DEF Controls
  <2> QED BY <2>1, <2>2, <2>3
<1> QED BY <1>4, <1>5, <1>6, <1>7, <1>8 DEF EngineOK

LEMMA EngineRaisesOK == ASSUME EngineOK, EngineRaises PROVE EngineOK'
<1>1. /\ epc' = "dead" /\ events' = Emitted(Error)
      /\ UNCHANGED <<channels, cmds, died, boot, recvCt, queued, served, result, prof>>
  BY DEF EngineRaises
<1>2. events' \in Seq(CarriedEvts)
  <2>1. Error \in EvtSet
    BY DEF EvtSet
  <2> QED BY <1>1, <2>1, EmittedFacts DEF EngineOK
<1>3. Channels'
  BY <1>1, <1>2 DEF EngineOK, Channels, Modes, channels, CarriedCmds, CarriedEvts
<1>4. Controls' /\ Queued' /\ Served' /\ Reported'
  BY <1>1 DEF EngineOK, Controls, Queued, Served, Reported, queued, served, result
<1> QED BY <1>3, <1>4 DEF EngineOK

LEMMA DiesOK == ASSUME EngineOK, Dies PROVE EngineOK'
BY DEF Dies, EngineOK, Controls, Queued, Served, Reported, Channels, Modes, channels, queued,
       served, result, CarriedCmds, CarriedEvts

\* Every step of the process.
LEMMA ProcessOK ==
  ASSUME EngineOK, Engine \/ EngineRaises \/ Dies
  PROVE  EngineOK'
BY GetBlockingOK, DrainOneOK, AdmitOK, StepOK, EngineRaisesOK, DiesOK DEF Engine

\* A request that comes brings its own prompt, and no step loses one.
LEMMA PromptsHandled ==
  ASSUME EngineOK, PromptsArrive, cmds # <<>>, Handle(Command)
  PROVE  PromptsArrive'
<1>1. Command \in CmdSet
  BY CommandFacts DEF EngineOK
<1>2. CASE Command.op = "add" /\ \E r \in Requests : Command = Add(r)
  <2>1. PICK r \in Requests : Command = Add(r)
    BY <1>2
  <2>2. Enqueued(Add(r))
    BY <1>2, <2>1 DEF Handle
  <2>3. /\ Range(pend') = Range(pend) \cup {r}
        /\ \A s \in Requests : prompts'[s] = IF s = r THEN PromptOf[r] ELSE prompts[s]
    BY <2>2, EnqueuedOK DEF EngineOK
  <2>4. gen' = gen
    BY <2>2 DEF Enqueued, served
  <2> QED BY <2>3, <2>4 DEF PromptsArrive
<1>3. CASE Command.op = "cancel" /\ \E r \in Requests : Command = Cancel(r)
  <2>1. UNCHANGED <<pend, prompts, gen>>
    BY <1>3 DEF Handle, Canceled
  <2> QED BY <2>1 DEF PromptsArrive
<1>4. CASE Command.op = "shutdown" /\ Command = Shutdown
  <2>1. UNCHANGED <<queued, served>>
    BY <1>4 DEF Handle
  <2> QED BY <2>1 DEF PromptsArrive, queued, served
<1> QED BY <1>1, <1>2, <1>3, <1>4, CmdCases

LEMMA PromptsKept ==
  ASSUME EngineOK, PromptsArrive, Engine \/ EngineRaises \/ Dies
  PROVE  PromptsArrive'
<1>1. CASE GetBlocking \/ DrainOne
  BY <1>1, PromptsHandled DEF GetBlocking, DrainOne
<1>2. CASE Admit
  <2>1. PICK b, fin : Admitted(b, fin)
    BY <1>2, AdmitShape
  <2>2. IsFiniteSet(sessions) /\ active = sessions /\ Cardinality(sessions) <= KVConc
    BY FS_Subset, MessagesAssumption DEF EngineOK, Served
  <2>3. Range(b) \subseteq Range(pend) /\ Range(Rest) \subseteq Range(pend)
    BY <2>1, <2>2, LimitFacts, TakenFacts DEF EngineOK, Admitted
  <2>4. /\ pend' = Rest /\ prompts' = prompts
        /\ gen' = [r \in Requests |-> IF r \in Range(b) THEN 1 ELSE gen[r]]
    BY <2>1 DEF Admitted
  <2> QED BY <2>3, <2>4 DEF PromptsArrive
<1>3. CASE Step
  <2>1. PICK chosen, fin : Stepped(chosen, fin)
    BY <1>3, StepShape DEF EngineOK, Channels
  <2>2. /\ chosen \subseteq sessions /\ UNCHANGED <<pend, prompts>>
        /\ gen' = [r \in Requests |-> IF r \in chosen THEN gen[r] + 1 ELSE gen[r]]
    BY <2>1 DEF Stepped, queued
  <2>3. \A r \in chosen : gen[r] > 0
    BY <2>2 DEF EngineOK, Served
  <2> QED BY <2>2, <2>3 DEF PromptsArrive
<1>4. CASE EngineRaises \/ Dies
  BY <1>4 DEF EngineRaises, Dies, queued, served, PromptsArrive
<1> QED BY <1>1, <1>2, <1>3, <1>4 DEF Engine

\* What its environment does: commands come, events go, the pipe is cut, it is killed.
LEMMA OutsideOK ==
  ASSUME EngineOK, cmds' \in Seq(CarriedCmds), events' \in Seq(CarriedEvts), cut' \in BOOLEAN,
         epc' = epc \/ epc' = "dead",
         UNCHANGED <<ipc, emit, died, boot, recvCt, queued, served, result, prof>>
  PROVE  EngineOK'
BY DEF EngineOK, Controls, Queued, Served, Reported, Channels, Modes, queued, served, result,
       CarriedCmds, CarriedEvts
=============================================================================
