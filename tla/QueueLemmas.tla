---------------------------- MODULE QueueLemmas ----------------------------
(***************************************************************************)
(* Facts about sequences that the proofs of several components use: what   *)
(* Append, Tail, \o, SubSeq and RemoveAt do to the entries, the length and *)
(* the range of a sequence, that a queue which holds nothing twice stays   *)
(* one, and how the tokens of a request flow through its stream to the     *)
(* client in pieces that follow one another (FlowOf).                      *)
(***************************************************************************)
EXTENDS Integers, SequencesExt, FiniteSetTheorems, SequenceTheorems, TLAPS

\* The entries and the range of a sequence.
LEMMA SeqFacts ==
  ASSUME NEW S, NEW q \in Seq(S)
  PROVE  /\ Len(q) \in Nat /\ DOMAIN q = 1..Len(q) /\ \A i \in DOMAIN q : q[i] \in S
         /\ Range(q) \subseteq S /\ \A e : e \in Range(q) <=> \E i \in DOMAIN q : q[i] = e
BY DEF Range

\* One entry more.
LEMMA AppendFacts ==
  ASSUME NEW S, NEW q \in Seq(S), NEW e \in S
  PROVE  /\ Append(q, e) \in Seq(S) /\ Len(Append(q, e)) = Len(q) + 1
         /\ DOMAIN Append(q, e) = DOMAIN q \cup {Len(q) + 1} /\ Len(q) + 1 \notin DOMAIN q
         /\ Append(q, e)[Len(q) + 1] = e
         /\ \A i \in DOMAIN q : Append(q, e)[i] = q[i]
         /\ Range(Append(q, e)) = Range(q) \cup {e}
<1>1. PICK z : z = Append(q, e)
  OBVIOUS
<1>2. /\ z \in Seq(S) /\ Len(z) = Len(q) + 1 /\ Len(q) \in Nat /\ DOMAIN q = 1..Len(q)
      /\ DOMAIN z = 1..(Len(q) + 1) /\ z[Len(q) + 1] = e
      /\ \A i \in 1..Len(q) : z[i] = q[i]
  BY <1>1
<1>3. DOMAIN z = DOMAIN q \cup {Len(q) + 1} /\ Len(q) + 1 \notin DOMAIN q
  BY <1>2
<1>4. Range(z) = Range(q) \cup {e}
  BY <1>2, <1>3, SeqFacts
<1> QED BY <1>1, <1>2, <1>3, <1>4

\* The first entry, and the others.
LEMMA TailFacts ==
  ASSUME NEW S, NEW q \in Seq(S), q # <<>>
  PROVE  /\ Tail(q) \in Seq(S) /\ Len(Tail(q)) = Len(q) - 1 /\ Len(q) \in Nat \ {0}
         /\ DOMAIN q = 1..Len(q)
         /\ Head(q) \in S /\ Head(q) = q[1] /\ 1 \in DOMAIN q
         /\ \A i \in DOMAIN Tail(q) : i + 1 \in DOMAIN q /\ i \in Nat \ {0} /\ Tail(q)[i] = q[i + 1]
<1>1. PICK z : z = Tail(q)
  OBVIOUS
<1>2. PICK n \in Nat \ {0} : n = Len(q)
  OBVIOUS
<1>3. /\ z \in Seq(S) /\ Len(z) = n - 1 /\ DOMAIN q = 1..n
      /\ Head(q) \in S /\ Head(q) = q[1] /\ \A i \in 1..(n - 1) : z[i] = q[i + 1]
  BY <1>1, <1>2
<1>4. DOMAIN z = 1..(n - 1)
  BY <1>2, <1>3
<1>5. 1 \in 1..n /\ \A i \in 1..(n - 1) : i + 1 \in 1..n /\ i \in Nat \ {0}
  BY <1>2
<1> QED BY <1>1, <1>2, <1>3, <1>4, <1>5

\* One sequence after another.
LEMMA ConcatFacts ==
  ASSUME NEW S, NEW p \in Seq(S), NEW q \in Seq(S)
  PROVE  /\ p \o q \in Seq(S)
         /\ \A i \in DOMAIN p : i \in DOMAIN (p \o q) /\ (p \o q)[i] = p[i]
         /\ \A i \in DOMAIN q : (p \o q)[Len(p) + i] = q[i]
         /\ \A i \in DOMAIN (p \o q) : i \in DOMAIN p \/ (i - Len(p) \in DOMAIN q /\ i = Len(p) + (i - Len(p)))
         /\ Range(p \o q) = Range(p) \cup Range(q)
<1>1. PICK z : z = p \o q
  OBVIOUS
<1>2. PICK m \in Nat, n \in Nat : m = Len(p) /\ n = Len(q) /\ DOMAIN p = 1..m /\ DOMAIN q = 1..n
  OBVIOUS
<1>3. /\ z \in Seq(S) /\ Len(z) = m + n /\ DOMAIN z = 1..(m + n)
      /\ \A i \in 1..m : z[i] = p[i]
      /\ \A i \in 1..n : z[m + i] = q[i]
  BY ONLY <1>1, <1>2, ConcatProperties
<1>4. \A i \in 1..m : i \in 1..(m + n)
  BY <1>2
<1>5. \A i \in 1..n : m + i \in 1..(m + n)
  BY <1>2
<1>6. \A i \in 1..(m + n) : i \in 1..m \/ (i - m \in 1..n /\ i = m + (i - m))
  BY <1>2
<1>7. Range(z) = Range(p) \cup Range(q)
  <2>1. ASSUME NEW e \in Range(z) PROVE e \in Range(p) \cup Range(q)
    <3>1. PICK i \in 1..(m + n) : z[i] = e
      BY <1>3, <2>1, SeqFacts
    <3>2. CASE i \in 1..m
      BY <1>2, <1>3, <3>1, <3>2, SeqFacts
    <3>3. CASE i - m \in 1..n /\ i = m + (i - m)
      <4>1. PICK j \in 1..n : j = i - m
        BY <3>3
      <4>2. q[j] = e
        BY <1>3, <3>1, <3>3, <4>1
      <4> QED BY <1>2, <4>2, SeqFacts
    <3> QED BY <1>6, <3>2, <3>3
  <2>2. ASSUME NEW e \in Range(p) PROVE e \in Range(z)
    BY <1>2, <1>3, <1>4, <2>2, SeqFacts
  <2>3. ASSUME NEW e \in Range(q) PROVE e \in Range(z)
    BY <1>2, <1>3, <1>5, <2>3, SeqFacts
  <2> QED BY <2>1, <2>2, <2>3
<1> QED BY <1>1, <1>2, <1>3, <1>4, <1>6, <1>7

\* RemoveAt at the end: a token computed for nothing is cut off.
LEMMA RemoveLast ==
  ASSUME NEW S, NEW q \in Seq(S), q # <<>>
  PROVE  RemoveAt(q, Len(q)) \in Seq(S) /\ Len(RemoveAt(q, Len(q))) = Len(q) - 1
         /\ \A i \in 1..(Len(q) - 1) : RemoveAt(q, Len(q))[i] = q[i]
<1>1. PICK n \in Nat \ {0} : n = Len(q)
  OBVIOUS
<1>2. PICK x : x = SubSeq(q, 1, n - 1)
  OBVIOUS
<1>3. x \in Seq(S) /\ Len(x) = n - 1 /\ \A i \in 1..(n - 1) : x[i] = q[i]
  BY <1>1, <1>2
<1>4. PICK y : y = SubSeq(q, n + 1, n)
  OBVIOUS
<1>5. y \in Seq(S) /\ Len(y) = 0
  BY <1>1, <1>4
<1>6. PICK z : z = x \o y
  OBVIOUS
<1>7. z \in Seq(S) /\ Len(z) = n - 1 /\ \A i \in 1..(n - 1) : z[i] = x[i]
  BY ONLY <1>1, <1>3, <1>5, <1>6
<1>8. RemoveAt(q, Len(q)) = z
  BY <1>1, <1>2, <1>4, <1>6 DEF RemoveAt
<1> QED BY <1>1, <1>3, <1>7, <1>8

\* A set of positions has a least one.
LEMMA Smallest ==
  ASSUME NEW n \in Nat, NEW T, T \subseteq 1..n, T # {}
  PROVE  \E m \in T : \A i \in T : m <= i
<1> DEFINE F == {1..i : i \in T}
<1>1. IsFiniteSet(1..n)
  BY FS_Interval
<1>2. IsWellFoundedOn(StrictSubsetOrdering(1..n), SUBSET (1..n))
  BY <1>1, FS_StrictSubsetOrderingWellFounded, FS_FiniteSubsetsOfFinite
<1>3. \A i \in T : 1..i \in SUBSET (1..n)
  OBVIOUS
<1>4. F \subseteq SUBSET (1..n) /\ F # {}
  BY <1>3
<1>5. \E x \in F : \A y \in F : ~(<<y, x>> \in StrictSubsetOrdering(1..n))
  <2> HIDE DEF F
  <2> QED BY ONLY <1>2, <1>4, WFMin
<1>6. PICK m \in T : \A i \in T : ~(<<1..i, 1..m>> \in StrictSubsetOrdering(1..n))
  BY <1>5
<1>7. ASSUME NEW i \in T, i < m PROVE FALSE
  <2>1. 1..i \in SUBSET (1..n) /\ 1..m \in SUBSET (1..n) /\ 1..i \subseteq 1..m /\ 1..i # 1..m
    <3>1. m \in 1..m /\ m \notin 1..i
      BY <1>7
    <3> QED BY <1>3, <1>7, <3>1
  <2> QED BY <1>6, <2>1 DEF StrictSubsetOrdering
<1> QED BY <1>7

\* A set with 0 and with what follows each of its numbers up to n has them all.
LEMMA InductionTo ==
  ASSUME NEW n \in Nat, NEW T, 0 \in T, \A k \in 1..n : k - 1 \in T => k \in T
  PROVE  \A k \in 0..n : k \in T
<1>1. PICK C : C = {k \in 1..n : k \notin T}
  OBVIOUS
<1>2. C = {}
  <2> SUFFICES ASSUME C # {} PROVE FALSE
    OBVIOUS
  <2>1. C \subseteq 1..n
    BY <1>1
  <2>2. PICK m \in C : \A i \in C : m <= i
    BY <2>1, Smallest
  <2>3. m \in 1..n /\ m \notin T
    BY <1>1, <2>2
  <2>4. m - 1 = 0 \/ m - 1 \in 1..n
    BY <2>3
  <2>5. m - 1 \in T
    <3>1. CASE m - 1 = 0
      BY <3>1
    <3>2. CASE m - 1 \in 1..n
      <4>1. ~(m <= m - 1)
        BY <2>3
      <4> QED BY <1>1, <2>2, <3>2, <4>1
    <3> QED BY <2>4, <3>1, <3>2
  <2> QED BY <2>3, <2>5
<1>3. \A k \in 0..n : k = 0 \/ k \in 1..n
  OBVIOUS
<1> QED BY <1>1, <1>2, <1>3

\* SetToSeq lists each element of a set once.
LEMMA SetToSeqFacts ==
  ASSUME NEW S, IsFiniteSet(S)
  PROVE  /\ SetToSeq(S) \in Seq(S) /\ Range(SetToSeq(S)) = S
         /\ \A i, j \in DOMAIN SetToSeq(S) : SetToSeq(S)[i] = SetToSeq(S)[j] => i = j
<1>1. PICK n \in Nat : n = Cardinality(S) /\ ExistsBijection(1..n, S)
  BY FS_CardinalityType
<1>2. PICK b \in Bijection(1..n, S) : TRUE
  BY <1>1 DEF ExistsBijection
<1>3. b \in [1..n -> S] /\ IsInjective(b)
  BY <1>2 DEF Bijection, Injection, IsInjective
<1>4. PICK f : f = SetToSeq(S)
  OBVIOUS
<1>5. f \in [1..n -> S] /\ IsInjective(f)
  BY <1>1, <1>3, <1>4 DEF SetToSeq
<1>6. f \in Seq(S)
  BY <1>5
<1>7. f \in Injection(1..n, S)
  BY <1>5 DEF Injection, IsInjective
<1>8. f \in Surjection(1..n, S)
  <2>1. IsFiniteSet(1..n) /\ Cardinality(1..n) = n
    BY FS_Interval
  <2> QED BY <1>1, <1>7, <2>1, FS_Injection
<1>9. Range(f) = S
  BY <1>5, <1>8 DEF Range, Surjection
<1> QED BY <1>4, <1>5, <1>6, <1>9 DEF IsInjective

\* A sequence has no more elements than entries.
LEMMA RangeBound ==
  ASSUME NEW S, NEW q \in Seq(S)
  PROVE  IsFiniteSet(Range(q)) /\ Cardinality(Range(q)) <= Len(q)
<1>1. PICK n \in Nat : n = Len(q)
  OBVIOUS
<1>2. q \in [1..n -> Range(q)] /\ \A e \in Range(q) : \E i \in 1..n : q[i] = e
  BY <1>1, SeqFacts DEF Range
<1>3. q \in Surjection(1..n, Range(q))
  BY <1>2 DEF Surjection
<1>4. IsFiniteSet(1..n) /\ Cardinality(1..n) = n
  BY FS_Interval
<1> QED BY <1>1, <1>3, <1>4, FS_Surjection

\* Queues: sequences that hold nothing twice.
LEMMA AppendQueue ==
  ASSUME NEW S, NEW q \in Seq(S), IsInjective(q), NEW e \in S, e \notin Range(q)
  PROVE  /\ Append(q, e) \in Seq(S) /\ IsInjective(Append(q, e))
         /\ Range(Append(q, e)) = Range(q) \cup {e}
<1>1. PICK z : z = Append(q, e)
  OBVIOUS
<1>2. PICK n \in Nat : n = Len(q)
  OBVIOUS
<1>3. /\ z \in Seq(S) /\ DOMAIN z = DOMAIN q \cup {n + 1} /\ n + 1 \notin DOMAIN q
      /\ z[n + 1] = e /\ \A i \in DOMAIN q : z[i] = q[i]
      /\ Range(z) = Range(q) \cup {e}
  BY <1>1, <1>2, AppendFacts
<1>4. \A i \in DOMAIN q : q[i] # e
  BY DEF Range
<1>5. IsInjective(z)
  BY <1>3, <1>4 DEF IsInjective
<1> QED BY <1>1, <1>3, <1>5

\* One queue after another.
LEMMA ConcatQueue ==
  ASSUME NEW S, NEW q \in Seq(S), NEW t \in Seq(S), IsInjective(q), IsInjective(t),
         Range(q) \cap Range(t) = {}
  PROVE  /\ q \o t \in Seq(S) /\ IsInjective(q \o t)
         /\ Range(q \o t) = Range(q) \cup Range(t)
<1>1. PICK z, m : z = q \o t /\ m = Len(q)
  OBVIOUS
<1>2. /\ z \in Seq(S)
      /\ \A i \in DOMAIN q : i \in DOMAIN z /\ z[i] = q[i]
      /\ \A i \in DOMAIN t : z[m + i] = t[i]
      /\ \A i \in DOMAIN z : i \in DOMAIN q \/ (i - m \in DOMAIN t /\ i = m + (i - m))
      /\ Range(z) = Range(q) \cup Range(t)
  BY <1>1, ConcatFacts
<1>3. \A i \in DOMAIN z : \/ i \in DOMAIN q /\ z[i] = q[i]
                          \/ \E k \in DOMAIN t : i = m + k /\ z[i] = t[k]
  <2> SUFFICES ASSUME NEW i \in DOMAIN z, i \notin DOMAIN q
               PROVE  \E k \in DOMAIN t : i = m + k /\ z[i] = t[k]
    BY <1>2
  <2>1. PICK k : k = i - m
    OBVIOUS
  <2>2. k \in DOMAIN t /\ i = m + k
    BY <1>2, <2>1
  <2> QED BY <1>2, <2>2
<1>4. \A i \in DOMAIN q, k \in DOMAIN t : q[i] # t[k]
  BY DEF Range
<1>5. ASSUME NEW i \in DOMAIN z, NEW j \in DOMAIN z, z[i] = z[j] PROVE i = j
  <2>1. CASE i \in DOMAIN q /\ z[i] = q[i] /\ j \in DOMAIN q /\ z[j] = q[j]
    BY <1>5, <2>1 DEF IsInjective
  <2>2. CASE /\ \E k \in DOMAIN t : i = m + k /\ z[i] = t[k]
             /\ \E k \in DOMAIN t : j = m + k /\ z[j] = t[k]
    <3>1. PICK k \in DOMAIN t : i = m + k /\ z[i] = t[k]
      BY <2>2
    <3>2. PICK l \in DOMAIN t : j = m + l /\ z[j] = t[l]
      BY <2>2
    <3>3. k = l
      BY <1>5, <3>1, <3>2 DEF IsInjective
    <3> QED BY <3>1, <3>2, <3>3
  <2> QED BY <1>3, <1>4, <1>5, <2>1, <2>2
<1>6. IsInjective(z)
  BY <1>5 DEF IsInjective
<1> QED BY <1>1, <1>2, <1>6

\* A queue without its first k entries, and those entries.
LEMMA Suffix ==
  ASSUME NEW S, NEW q \in Seq(S), IsInjective(q), NEW k \in 0..Len(q)
  PROVE  LET y == SubSeq(q, k + 1, Len(q))
             x == SubSeq(q, 1, k)
         IN  /\ x \in Seq(S) /\ IsInjective(x) /\ Len(x) = k /\ \A i \in 1..k : x[i] = q[i]
             /\ y \in Seq(S) /\ IsInjective(y)
             /\ Range(x) \cup Range(y) = Range(q) /\ Range(x) \cap Range(y) = {}
<1>1. PICK x, y, n : x = SubSeq(q, 1, k) /\ y = SubSeq(q, k + 1, Len(q)) /\ n = Len(q)
  OBVIOUS
<1>2. n \in Nat /\ k \in Nat /\ k <= n /\ DOMAIN q = 1..n
  BY <1>1
<1>3. x \in Seq(S) /\ Len(x) = k /\ DOMAIN x = 1..k /\ \A i \in 1..k : x[i] = q[i]
  BY <1>1, <1>2
<1>4. y \in Seq(S) /\ Len(y) = n - k /\ DOMAIN y = 1..(n - k) /\ \A i \in 1..(n - k) : y[i] = q[k + i]
  BY <1>1, <1>2
<1>5. /\ \A i \in 1..k : i \in 1..n
      /\ \A i \in 1..(n - k) : k + i \in 1..n /\ k + i \notin 1..k /\ i \in Nat
      /\ \A i \in 1..n : i \in 1..k \/ (i - k \in 1..(n - k) /\ i = k + (i - k))
  BY <1>2
<1>6. \A i, j \in 1..n : q[i] = q[j] => i = j
  BY <1>2 DEF IsInjective
<1>7. IsInjective(x)
  BY <1>3, <1>5, <1>6 DEF IsInjective
<1>8. IsInjective(y)
  <2> SUFFICES ASSUME NEW i \in 1..(n - k), NEW j \in 1..(n - k), y[i] = y[j] PROVE i = j
    BY <1>4 DEF IsInjective
  <2>1. k + i = k + j
    BY <1>4, <1>5, <1>6
  <2> QED BY <1>2, <2>1
<1>9. Range(x) \cup Range(y) = Range(q)
  <2>1. Range(x) \cup Range(y) \subseteq Range(q)
    <3>1. \A i \in 1..k : x[i] \in Range(q)
      BY <1>2, <1>3, <1>5 DEF Range
    <3>2. \A i \in 1..(n - k) : y[i] \in Range(q)
      BY <1>2, <1>4, <1>5 DEF Range
    <3> QED BY <1>3, <1>4, <3>1, <3>2 DEF Range
  <2>2. ASSUME NEW i \in 1..n PROVE q[i] \in Range(x) \cup Range(y)
    <3>1. CASE i \in 1..k
      BY <1>3, <3>1 DEF Range
    <3>2. CASE i - k \in 1..(n - k) /\ i = k + (i - k)
      <4>1. PICK l \in 1..(n - k) : i = k + l
        BY <3>2
      <4> QED BY <1>4, <4>1 DEF Range
    <3> QED BY <1>5, <3>1, <3>2
  <2> QED BY <1>2, <2>1, <2>2 DEF Range
<1>10. Range(x) \cap Range(y) = {}
  BY <1>3, <1>4, <1>5, <1>6 DEF Range
<1> QED BY <1>1, <1>3, <1>4, <1>7, <1>8, <1>9, <1>10

\* A queue without its head.
LEMMA TailQueue ==
  ASSUME NEW S, NEW q \in Seq(S), IsInjective(q), q # <<>>
  PROVE  /\ Tail(q) \in Seq(S) /\ IsInjective(Tail(q))
         /\ Head(q) \in S /\ Head(q) \notin Range(Tail(q))
         /\ Range(q) = {Head(q)} \cup Range(Tail(q))
<1>1. PICK t, n : t = Tail(q) /\ n = Len(q)
  OBVIOUS
<1>2. /\ t \in Seq(S) /\ n \in Nat \ {0} /\ DOMAIN q = 1..n /\ DOMAIN t = 1..(n - 1)
      /\ Head(q) \in S /\ Head(q) = q[1] /\ \A i \in 1..(n - 1) : t[i] = q[i + 1]
  <2>1. t \in Seq(S) /\ Len(t) = n - 1 /\ n \in Nat \ {0} /\ DOMAIN q = 1..n
    BY <1>1, TailFacts
  <2>2. DOMAIN t = 1..(n - 1)
    BY <2>1, SeqFacts
  <2>3. \A i \in DOMAIN t : t[i] = q[i + 1]
    BY <1>1, TailFacts
  <2>4. Head(q) \in S /\ Head(q) = q[1]
    BY TailFacts
  <2> QED BY <2>1, <2>2, <2>3, <2>4
<1>3. \A i, j \in 1..n : q[i] = q[j] => i = j
  BY <1>2 DEF IsInjective
<1>4. /\ \A i \in 1..(n - 1) : i + 1 \in 1..n /\ i + 1 # 1
      /\ \A i \in 1..n : i = 1 \/ (i - 1 \in 1..(n - 1) /\ (i - 1) + 1 = i)
      /\ \A i, j \in 1..(n - 1) : i + 1 = j + 1 => i = j
      /\ 1 \in 1..n
  BY <1>2
<1>5. IsInjective(t)
  BY <1>2, <1>3, <1>4 DEF IsInjective
<1>6. q[1] \notin Range(t)
  BY <1>2, <1>3, <1>4 DEF Range
<1>7. Range(q) = {q[1]} \cup Range(t)
  <2>1. Range(t) \subseteq Range(q) /\ q[1] \in Range(q)
    BY <1>2, <1>4 DEF Range
  <2>2. ASSUME NEW i \in 1..n, i # 1 PROVE q[i] \in Range(t)
    <3>1. PICK k \in 1..(n - 1) : k + 1 = i
      BY <1>4, <2>2
    <3> QED BY <1>2, <3>1 DEF Range
  <2> QED BY <1>2, <2>1, <2>2 DEF Range
<1> QED BY <1>1, <1>2, <1>5, <1>6, <1>7

-----------------------------------------------------------------------------
\* The tokens a+1, ..., b of a request.  None is the empty run.
Run(a, b) == [i \in 1..(b - a) |-> a + i]

\* The pieces of q are runs that follow one another, from a to b; an empty one,
\* None, only where all the tokens of S have been.
Cuts(q, a, b, S, cut) ==
  /\ cut \in [0..Len(q) -> 0..b]
  /\ cut[0] = a /\ cut[Len(q)] = b
  /\ \A i, j \in 0..Len(q) : i <= j => cut[i] <= cut[j]
  /\ \A i \in 1..Len(q) : /\ q[i] = Run(cut[i - 1], cut[i])
                          /\ cut[i - 1] = cut[i] => cut[i] \in S
Pieced(q, a, b, S) == \E cut : Cuts(q, a, b, S, cut)

\* What a run is made of.
LEMMA RunFacts ==
  ASSUME NEW a \in Nat, NEW b \in Nat, a <= b
  PROVE  /\ Run(a, b) \in Seq(Nat) /\ Len(Run(a, b)) = b - a
         /\ DOMAIN Run(a, b) = 1..(b - a)
         /\ \A i \in 1..(b - a) : Run(a, b)[i] = a + i
         /\ Run(a, b) = <<>> <=> a = b
<1>1. PICK n \in Nat : n = b - a
  OBVIOUS
<1>2. PICK z : z = [i \in 1..n |-> a + i]
  OBVIOUS
<1>3. z \in Seq(Nat) /\ Len(z) = n /\ DOMAIN z = 1..n /\ \A i \in 1..n : z[i] = a + i
  BY <1>2
<1>4. z = <<>> <=> n = 0
  <2>1. z = <<>> => Len(z) = 0
    OBVIOUS
  <2>2. Len(z) = 0 => z = <<>>
    BY <1>3, EmptySeq
  <2> QED BY <1>3, <2>1, <2>2
<1>5. Run(a, b) = z
  BY <1>1, <1>2 DEF Run
<1> QED BY <1>1, <1>3, <1>4, <1>5

\* A run grows by its next token.
LEMMA RunAppend ==
  ASSUME NEW a \in Nat, NEW b \in Nat, a <= b
  PROVE  Append(Run(a, b), b + 1) = Run(a, b + 1)
<1>1. PICK x, y, n : x = Run(a, b) /\ y = Run(a, b + 1) /\ n = b - a
  OBVIOUS
<1>2. /\ n \in Nat /\ x \in Seq(Nat) /\ Len(x) = n /\ DOMAIN x = 1..n
      /\ \A i \in 1..n : x[i] = a + i
  <2>1. b - a \in Nat
    OBVIOUS
  <2>2. /\ x \in Seq(Nat) /\ Len(x) = b - a /\ DOMAIN x = 1..(b - a)
        /\ \A i \in 1..(b - a) : x[i] = a + i
    BY ONLY <1>1, RunFacts, a \in Nat, b \in Nat, a <= b, Zenon
  <2> QED BY <1>1, <2>1, <2>2
<1>3. /\ y \in Seq(Nat) /\ Len(y) = n + 1 /\ DOMAIN y = 1..(n + 1)
      /\ \A i \in 1..(n + 1) : y[i] = a + i
  <2>1. b + 1 \in Nat /\ a <= b + 1 /\ (b + 1) - a = n + 1
    BY <1>1
  <2>2. PICK e : e = b + 1
    OBVIOUS
  <2>3. /\ y \in Seq(Nat) /\ Len(y) = e - a /\ DOMAIN y = 1..(e - a)
        /\ \A i \in 1..(e - a) : y[i] = a + i
    <3>1. y = Run(a, e) /\ e \in Nat /\ a <= e
      BY <1>1, <2>1, <2>2
    <3> QED BY ONLY <3>1, RunFacts, a \in Nat, Zenon
  <2> QED BY <2>1, <2>2, <2>3
<1>4. PICK z : z = Append(x, b + 1)
  OBVIOUS
<1>5. /\ z \in Seq(Nat) /\ Len(z) = n + 1 /\ z[n + 1] = b + 1
      /\ \A i \in 1..n : z[i] = x[i]
  BY <1>2, <1>4, AppendFacts
<1>6. \A i \in 1..(n + 1) : z[i] = y[i]
  <2>1. a + (n + 1) = b + 1
    BY <1>1
  <2>2. \A i \in 1..(n + 1) : i \in 1..n \/ i = n + 1
    BY <1>2
  <2> QED BY <1>2, <1>3, <1>5, <2>1, <2>2
<1>7. z = y
  BY <1>3, <1>5, <1>6, SeqEqual
<1> QED BY <1>1, <1>4, <1>7

\* Two runs that follow one another are one.
LEMMA RunConcat ==
  ASSUME NEW a \in Nat, NEW b \in Nat, NEW c \in Nat, a <= b, b <= c
  PROVE  Run(a, b) \o Run(b, c) = Run(a, c)
<1>1. PICK x, y, z : x = Run(a, b) /\ y = Run(b, c) /\ z = Run(a, c)
  OBVIOUS
<1>2. PICK m \in Nat, n \in Nat : m = b - a /\ n = c - b
  OBVIOUS
<1>3. m + n = c - a /\ a <= c /\ a + m = b
  BY <1>2
<1>4. /\ x \in Seq(Nat) /\ Len(x) = m /\ \A i \in 1..m : x[i] = a + i
      /\ y \in Seq(Nat) /\ Len(y) = n /\ \A i \in 1..n : y[i] = b + i
      /\ z \in Seq(Nat) /\ Len(z) = m + n /\ \A i \in 1..(m + n) : z[i] = a + i
  <2>1. x \in Seq(Nat) /\ Len(x) = b - a /\ \A i \in 1..(b - a) : x[i] = a + i
    BY ONLY <1>1, RunFacts, a \in Nat, b \in Nat, a <= b, Zenon
  <2>2. y \in Seq(Nat) /\ Len(y) = c - b /\ \A i \in 1..(c - b) : y[i] = b + i
    BY ONLY <1>1, RunFacts, c \in Nat, b \in Nat, b <= c, Zenon
  <2>3. z \in Seq(Nat) /\ Len(z) = c - a /\ \A i \in 1..(c - a) : z[i] = a + i
    BY ONLY <1>1, <1>3, RunFacts, a \in Nat, c \in Nat, Zenon
  <2> QED BY <1>2, <1>3, <2>1, <2>2, <2>3
<1>5. PICK w : w = x \o y
  OBVIOUS
<1>6. /\ w \in Seq(Nat) /\ Len(w) = m + n
      /\ \A i \in 1..m : w[i] = x[i]
      /\ \A i \in 1..n : w[m + i] = y[i]
  <2>1. /\ w \in Seq(Nat) /\ Len(w) = Len(x) + Len(y)
        /\ \A i \in 1..(Len(x) + Len(y)) :
              w[i] = IF i <= Len(x) THEN x[i] ELSE y[i - Len(x)]
    BY ONLY <1>4, <1>5, ConcatProperties, Zenon
  <2>2. Len(x) = m /\ Len(y) = n
    BY ONLY <1>4
  <2>3. \A i \in 1..(m + n) : w[i] = IF i <= m THEN x[i] ELSE y[i - m]
    BY ONLY <2>1, <2>2
  <2>4. /\ \A i \in 1..m : i \in 1..(m + n) /\ i <= m
        /\ \A i \in 1..n : m + i \in 1..(m + n) /\ ~(m + i <= m) /\ (m + i) - m = i
    BY ONLY <1>2
  <2>5. Len(w) = m + n
    BY ONLY <2>1, <2>2
  <2> QED BY ONLY <2>1, <2>3, <2>4, <2>5
<1>7. \A i \in 1..(m + n) : w[i] = z[i]
  <2> SUFFICES ASSUME NEW i \in 1..(m + n) PROVE w[i] = a + i
    BY <1>4
  <2>1. CASE i \in 1..m
    BY <1>4, <1>6, <2>1
  <2>2. CASE i \notin 1..m
    <3>1. PICK j \in 1..n : i = m + j
      <4>1. i - m \in 1..n /\ i = m + (i - m)
        BY <1>2, <2>2
      <4> QED BY <4>1
    <3>2. w[i] = b + j
      BY <1>4, <1>6, <3>1
    <3> QED BY <1>2, <1>3, <3>1, <3>2
  <2> QED BY <2>1, <2>2
<1>8. w = z
  BY <1>4, <1>6, <1>7, SeqEqual
<1> QED BY <1>1, <1>5, <1>8

\* No pieces at all.
LEMMA PiecedEmpty ==
  ASSUME NEW a \in Nat, NEW S
  PROVE  Pieced(<<>>, a, a, S)
<1>1. PICK cut : cut = [i \in 0..0 |-> a]
  OBVIOUS
<1>2. Len(<<>>) = 0
  OBVIOUS
<1>3. cut \in [0..0 -> 0..a] /\ cut[0] = a /\ \A i \in 0..0 : i = 0
  BY <1>1
<1>4. Cuts(<<>>, a, a, S, cut)
  BY <1>2, <1>3 DEF Cuts
<1> QED BY <1>4 DEF Pieced

\* The cuts lie between the first token and the last.
LEMMA CutFacts ==
  ASSUME NEW P, NEW q \in Seq(P), NEW a \in Nat, NEW b \in Nat, NEW S, NEW cut,
         Cuts(q, a, b, S, cut)
  PROVE  /\ Len(q) \in Nat /\ \A i \in 0..Len(q) : cut[i] \in Nat /\ a <= cut[i] /\ cut[i] <= b
         /\ a <= b
<1>1. PICK n \in Nat : n = Len(q)
  OBVIOUS
<1>2. /\ \A i \in 0..n : cut[i] \in 0..b
      /\ cut[0] = a /\ cut[n] = b
      /\ \A i, j \in 0..n : i <= j => cut[i] <= cut[j]
  BY <1>1 DEF Cuts
<1>3. \A i \in 0..n : 0 \in 0..n /\ n \in 0..n /\ 0 <= i /\ i <= n
  OBVIOUS
<1>4. 0 \in 0..n /\ n \in 0..n /\ 0 <= n
  OBVIOUS
<1> QED BY <1>1, <1>2, <1>3, <1>4

\* The first piece of several, and the rest.
LEMMA PiecedTail ==
  ASSUME NEW P, NEW q \in Seq(P), q # <<>>, NEW a \in Nat, NEW b \in Nat, NEW S,
         Pieced(q, a, b, S)
  PROVE  \E m \in Nat : /\ a <= m /\ m <= b /\ Head(q) = Run(a, m)
                        /\ a = m => a \in S
                        /\ Pieced(Tail(q), m, b, S)
<1>1. PICK cut : Cuts(q, a, b, S, cut)
  BY DEF Pieced
<1>2. PICK t, n : t = Tail(q) /\ n = Len(q)
  OBVIOUS
<1>3. /\ n \in Nat \ {0} /\ Len(t) = n - 1 /\ Head(q) = q[1]
      /\ \A i \in 1..(n - 1) : t[i] = q[i + 1]
  BY <1>2, TailFacts
<1>4. /\ cut \in [0..n -> 0..b] /\ cut[0] = a /\ cut[n] = b
      /\ \A i, j \in 0..n : i <= j => cut[i] <= cut[j]
      /\ \A i \in 1..n : /\ q[i] = Run(cut[i - 1], cut[i])
                         /\ cut[i - 1] = cut[i] => cut[i] \in S
  BY <1>1, <1>2 DEF Cuts
<1>5. PICK m : m = cut[1]
  OBVIOUS
<1>6. m \in Nat /\ a <= m /\ m <= b
  <2>1. 1 \in 0..n /\ 0 \in 0..n /\ n \in 0..n /\ 0 <= 1 /\ 1 <= n
    BY <1>3
  <2> QED BY <1>4, <1>5, <2>1
<1>7. Head(q) = Run(a, m) /\ (a = m => a \in S)
  <2>1. 1 \in 1..n /\ 1 - 1 = 0
    BY <1>3
  <2> QED BY <1>3, <1>4, <1>5, <2>1
<1>8. PICK c : c = [i \in 0..(n - 1) |-> cut[i + 1]]
  OBVIOUS
<1>9. /\ \A i \in 0..(n - 1) : i + 1 \in 0..n /\ i + 1 \in 1..n
      /\ \A i, j \in 0..(n - 1) : i <= j => i + 1 <= j + 1
      /\ \A i \in 1..(n - 1) : /\ i \in 0..(n - 1) /\ i - 1 \in 0..(n - 1)
                               /\ i + 1 \in 1..n /\ (i + 1) - 1 = i /\ (i - 1) + 1 = i
      /\ 0 \in 0..(n - 1) /\ n - 1 \in 0..(n - 1) /\ 0 + 1 = 1 /\ (n - 1) + 1 = n
  BY <1>3
<1>10. /\ c \in [0..(n - 1) -> 0..b] /\ c[0] = m /\ c[n - 1] = b
       /\ \A i, j \in 0..(n - 1) : i <= j => c[i] <= c[j]
  BY <1>4, <1>5, <1>8, <1>9
<1>11. \A i \in 1..(n - 1) : /\ t[i] = Run(c[i - 1], c[i])
                             /\ c[i - 1] = c[i] => c[i] \in S
  <2> SUFFICES ASSUME NEW i \in 1..(n - 1)
               PROVE  t[i] = Run(c[i - 1], c[i]) /\ (c[i - 1] = c[i] => c[i] \in S)
    OBVIOUS
  <2>1. c[i] = cut[i + 1] /\ c[i - 1] = cut[i]
    BY <1>8, <1>9
  <2>2. /\ q[i + 1] = Run(cut[(i + 1) - 1], cut[i + 1])
        /\ cut[(i + 1) - 1] = cut[i + 1] => cut[i + 1] \in S
    BY <1>4, <1>9
  <2>3. (i + 1) - 1 = i
    BY <1>9
  <2> QED BY <1>3, <2>1, <2>2, <2>3
<1>12. Pieced(t, m, b, S)
  <2>1. Len(t) = n - 1
    BY <1>3
  <2>2. Cuts(t, m, b, S, c)
    BY ONLY <1>10, <1>11, <2>1 DEF Cuts
  <2> QED BY <2>2 DEF Pieced
<1> QED BY <1>2, <1>6, <1>7, <1>12

\* One more piece.
LEMMA PiecedAppend ==
  ASSUME NEW P, NEW q \in Seq(P), NEW a \in Nat, NEW b \in Nat, NEW e \in Nat, NEW S,
         Pieced(q, a, b, S), b <= e, b = e => b \in S, Run(b, e) \in P
  PROVE  Pieced(Append(q, Run(b, e)), a, e, S)
<1>1. PICK cut : Cuts(q, a, b, S, cut)
  BY DEF Pieced
<1>2. PICK t, n : t = Append(q, Run(b, e)) /\ n = Len(q)
  OBVIOUS
<1>3. n \in Nat /\ Len(t) = n + 1 /\ t[n + 1] = Run(b, e) /\ \A i \in 1..n : t[i] = q[i]
  BY <1>2, AppendFacts
<1>4. /\ cut \in [0..n -> 0..b] /\ cut[0] = a /\ cut[n] = b
      /\ \A i, j \in 0..n : i <= j => cut[i] <= cut[j]
      /\ \A i \in 1..n : /\ q[i] = Run(cut[i - 1], cut[i])
                         /\ cut[i - 1] = cut[i] => cut[i] \in S
  BY <1>1, <1>2 DEF Cuts
<1>5. PICK c : c = [i \in 0..(n + 1) |-> IF i = n + 1 THEN e ELSE cut[i]]
  OBVIOUS
<1>6. /\ \A i \in 0..n : i \in 0..(n + 1) /\ i # n + 1 /\ i <= n + 1
      /\ \A i \in 0..(n + 1) : i \in 0..n \/ i = n + 1
      /\ \A i \in 0..(n + 1) : n + 1 <= i => i = n + 1
      /\ \A i \in 1..n : i \in 0..n /\ i - 1 \in 0..n
      /\ \A i \in 1..(n + 1) : i \in 1..n \/ i = n + 1
      /\ n \in 0..n /\ 0 \in 0..n /\ n + 1 \in 0..(n + 1) /\ (n + 1) - 1 = n
  BY <1>3
<1>7. /\ c[n + 1] = e /\ \A i \in 0..n : c[i] = cut[i]
  BY <1>5, <1>6
<1>8. \A i \in 0..n : cut[i] \in 0..b /\ cut[i] \in 0..e /\ cut[i] <= e
  BY <1>4
<1>9. c \in [0..(n + 1) -> 0..e] /\ c[0] = a
  <2>1. e \in 0..e
    OBVIOUS
  <2> QED BY <1>4, <1>5, <1>6, <1>7, <1>8, <2>1
<1>10. \A i, j \in 0..(n + 1) : i <= j => c[i] <= c[j]
  <2> SUFFICES ASSUME NEW i \in 0..(n + 1), NEW j \in 0..(n + 1), i <= j PROVE c[i] <= c[j]
    OBVIOUS
  <2>1. CASE j = n + 1
    <3>1. e <= e
      OBVIOUS
    <3> QED BY <1>6, <1>7, <1>8, <2>1, <3>1
  <2>2. CASE j \in 0..n
    <3>1. i \in 0..n
      BY <1>3, <2>2
    <3> QED BY <1>4, <1>7, <2>2, <3>1
  <2> QED BY <1>6, <2>1, <2>2
<1>11. \A i \in 1..(n + 1) : /\ t[i] = Run(c[i - 1], c[i])
                             /\ c[i - 1] = c[i] => c[i] \in S
  <2>1. ASSUME NEW i \in 1..n
        PROVE  t[i] = Run(c[i - 1], c[i]) /\ (c[i - 1] = c[i] => c[i] \in S)
    BY <1>3, <1>4, <1>6, <1>7
  <2>2. t[n + 1] = Run(c[n], c[n + 1]) /\ (c[n] = c[n + 1] => c[n + 1] \in S)
    BY <1>3, <1>4, <1>6, <1>7
  <2> QED BY <1>6, <2>1, <2>2
<1>12. Pieced(t, a, e, S)
  <2>1. Len(t) = n + 1
    BY <1>3
  <2>2. Cuts(t, a, e, S, c)
    BY ONLY <1>7, <1>9, <1>10, <1>11, <2>1 DEF Cuts
  <2> QED BY <2>2 DEF Pieced
<1> QED BY <1>2, <1>12

\* Without a None among the pieces, and with more room for one.
LEMMA PiecedLevels ==
  ASSUME NEW P, NEW q \in Seq(P), NEW a \in Nat, NEW b \in Nat, NEW S, NEW T,
         Pieced(q, a, b, S), S \subseteq T \/ \A i \in DOMAIN q : q[i] # <<>>
  PROVE  Pieced(q, a, b, T)
<1>1. PICK cut : Cuts(q, a, b, S, cut)
  BY DEF Pieced
<1>2. PICK n \in Nat : n = Len(q) /\ DOMAIN q = 1..n
  OBVIOUS
<1>3. \A i \in 1..n : cut[i - 1] = cut[i] => cut[i] \in T
  <2>1. \A i \in 1..n : i \in 0..n /\ i - 1 \in 0..n
    OBVIOUS
  <2>2. \A i \in 1..n : cut[i] \in Nat /\ q[i] = Run(cut[i - 1], cut[i])
                        /\ (cut[i - 1] = cut[i] => cut[i] \in S)
    BY <1>1, <1>2, <2>1, CutFacts DEF Cuts
  <2>3. \A x \in Nat : Run(x, x) = <<>>
    <3> SUFFICES ASSUME NEW x \in Nat PROVE Run(x, x) = <<>>
      OBVIOUS
    <3>1. x <= x
      OBVIOUS
    <3> QED BY <3>1, RunFacts, Zenon
  <2> QED BY <1>2, <2>2, <2>3
<1>4. Cuts(q, a, b, T, cut)
  BY <1>1, <1>2, <1>3 DEF Cuts
<1> QED BY <1>4 DEF Pieced

-----------------------------------------------------------------------------
\* A stream's detokenizer and _StreamState.
Buffers == [held : Seq(Nat), buf : Seq(Nat), since : Nat, sent : BOOLEAN]
NoNone(q) == \A i \in DOMAIN q : q[i] # <<>>

\* One piece more, or none.
LEMMA ConcatOne ==
  ASSUME NEW S, NEW q \in Seq(S), NEW x \in S
  PROVE  q \o <<x>> = Append(q, x) /\ q \o <<>> = q
OBVIOUS

\* A piece that is not None.
LEMMA AppendNoNone ==
  ASSUME NEW S, NEW q \in Seq(S), NEW x \in S
  PROVE  NoNone(Append(q, x)) <=> NoNone(q) /\ x # <<>>
BY AppendFacts DEF NoNone

\* What the client has read, what is queued, what waits to be sent and what is
\* held back are the tokens 1, ..., d of the request.
FlowOf(q, t, s, d, S) ==
  \E b, c \in Nat : /\ b <= c /\ c <= d
                    /\ t = Run(0, Len(t)) /\ Pieced(q, Len(t), b, S)
                    /\ s.buf = Run(b, c) /\ s.held = Run(c, d)

\* With no None queued yet, or more places for one, a flow stays a flow.
LEMMA LevelsMono ==
  ASSUME NEW q \in Seq(Seq(Nat)), NEW t \in Seq(Nat), NEW s, NEW d \in Nat, NEW S, NEW T,
         FlowOf(q, t, s, d, S), S \subseteq T \/ NoNone(q)
  PROVE  FlowOf(q, t, s, d, T)
<1>1. PICK b \in Nat, c \in Nat :
           /\ b <= c /\ c <= d
           /\ t = Run(0, Len(t)) /\ Pieced(q, Len(t), b, S)
           /\ s.buf = Run(b, c) /\ s.held = Run(c, d)
  BY DEF FlowOf
<1>2. Len(t) \in Nat
  OBVIOUS
<1>3. Pieced(q, Len(t), b, T)
  BY <1>1, <1>2, PiecedLevels DEF NoNone
<1> QED BY <1>1, <1>3 DEF FlowOf

\* None goes into the queue where it may.
LEMMA FlowNone ==
  ASSUME NEW q \in Seq(Seq(Nat)), NEW t \in Seq(Nat), NEW s, NEW d \in Nat, NEW S,
         FlowOf(q, t, s, d, S), 0..d \subseteq S
  PROVE  Append(q, <<>>) \in Seq(Seq(Nat)) /\ FlowOf(Append(q, <<>>), t, s, d, S)
<1>1. PICK b \in Nat, c \in Nat :
           /\ b <= c /\ c <= d
           /\ t = Run(0, Len(t)) /\ Pieced(q, Len(t), b, S)
           /\ s.buf = Run(b, c) /\ s.held = Run(c, d)
  BY DEF FlowOf
<1>2. Len(t) \in Nat /\ b \in S /\ b <= b /\ <<>> \in Seq(Nat)
  BY <1>1
<1>3. Run(b, b) = <<>>
  BY <1>2, RunFacts
<1>4. Pieced(Append(q, Run(b, b)), Len(t), b, S)
  BY <1>1, <1>2, <1>3, PiecedAppend
<1>5. Append(q, <<>>) \in Seq(Seq(Nat))
  BY <1>2
<1> QED BY <1>1, <1>3, <1>4, <1>5 DEF FlowOf

\* The next token goes into the text that waits to be sent, or is held back.
LEMMA FlowToken ==
  ASSUME NEW q \in Seq(Seq(Nat)), NEW t \in Seq(Nat), NEW s \in Buffers, NEW d \in Nat, NEW S,
         FlowOf(q, t, s, d, S), NEW i, i = d + 1, NEW holds \in BOOLEAN, NEW f,
         f = IF holds THEN [s EXCEPT !.held = Append(@, i), !.since = @ + 1]
             ELSE [s EXCEPT !.buf = @ \o s.held \o <<i>>, !.held = <<>>, !.since = @ + 1]
  PROVE  f \in Buffers /\ FlowOf(q, t, f, i, S)
<1>1. PICK b \in Nat, c \in Nat :
           /\ b <= c /\ c <= d
           /\ t = Run(0, Len(t)) /\ Pieced(q, Len(t), b, S)
           /\ s.buf = Run(b, c) /\ s.held = Run(c, d)
  BY DEF FlowOf
<1>2. i \in Nat /\ s.since + 1 \in Nat /\ c <= i /\ d <= i /\ b <= i /\ b <= d /\ i <= i
  BY <1>1 DEF Buffers
<1>3. CASE holds
  <2>1. PICK x : x = Append(Run(c, d), d + 1)
    OBVIOUS
  <2>2. x = Run(c, i)
    BY <1>1, <2>1, RunAppend
  <2>3. x \in Seq(Nat)
    BY <1>2, <2>2, RunFacts
  <2>4. f = [s EXCEPT !.held = x, !.since = s.since + 1]
    BY <1>1, <1>3, <2>1
  <2>5. f \in Buffers /\ f.buf = s.buf /\ f.held = x
    BY <1>2, <2>3, <2>4 DEF Buffers
  <2> QED BY <1>1, <1>2, <2>2, <2>5 DEF FlowOf
<1>4. CASE ~holds
  <2>1. PICK x : x = s.buf \o s.held \o <<i>>
    OBVIOUS
  <2>2. x = Run(b, i)
    <3>1. s.buf \o s.held = Run(b, d)
      BY <1>1, RunConcat
    <3>2. Run(b, d) \in Seq(Nat)
      BY <1>2, RunFacts
    <3>3. Run(b, d) \o <<i>> = Append(Run(b, d), i)
      BY <1>2, <3>2, ConcatOne
    <3>4. Append(Run(b, d), d + 1) = Run(b, d + 1)
      BY <1>2, RunAppend
    <3> QED BY <2>1, <3>1, <3>3, <3>4
  <2>3. x \in Seq(Nat)
    BY <1>2, <2>2, RunFacts
  <2>4. f = [s EXCEPT !.buf = x, !.held = <<>>, !.since = s.since + 1]
    BY <1>4, <2>1
  <2>5. f \in Buffers /\ f.buf = x /\ f.held = <<>>
    <3>1. <<>> \in Seq(Nat)
      OBVIOUS
    <3> QED BY <1>2, <2>3, <2>4, <3>1 DEF Buffers
  <2>6. Run(i, i) = <<>>
    BY <1>2, RunFacts
  <2> QED BY <1>1, <1>2, <2>2, <2>5, <2>6 DEF FlowOf
<1> QED BY <1>3, <1>4

\* The text that waits to be sent goes into the queue.
LEMMA FlowSend ==
  ASSUME NEW q \in Seq(Seq(Nat)), NEW t \in Seq(Nat), NEW s \in Buffers, NEW d \in Nat, NEW S,
         FlowOf(q, t, s, d, S), s.buf # <<>>, NEW f,
         f = [held |-> s.held, buf |-> <<>>, since |-> 0, sent |-> TRUE]
  PROVE  /\ f \in Buffers /\ q \o <<s.buf>> \in Seq(Seq(Nat))
         /\ FlowOf(q \o <<s.buf>>, t, f, d, S)
         /\ NoNone(q) => NoNone(q \o <<s.buf>>)
<1>1. PICK b \in Nat, c \in Nat :
           /\ b <= c /\ c <= d
           /\ t = Run(0, Len(t)) /\ Pieced(q, Len(t), b, S)
           /\ s.buf = Run(b, c) /\ s.held = Run(c, d)
  BY DEF FlowOf
<1>2. Run(b, c) \in Seq(Nat) /\ Run(c, d) \in Seq(Nat) /\ Len(t) \in Nat
  <2>1. Run(b, c) \in Seq(Nat) /\ Run(c, d) \in Seq(Nat)
    BY <1>1, RunFacts, Zenon
  <2> QED BY <2>1
<1>3. PICK p : p = q \o <<s.buf>>
  OBVIOUS
<1>4. f \in Buffers /\ f.buf = <<>> /\ f.held = Run(c, d)
  BY <1>1, <1>2 DEF Buffers
<1>5. p = Append(q, Run(b, c)) /\ p \in Seq(Seq(Nat))
  <2>1. q \o <<Run(b, c)>> = Append(q, Run(b, c))
    BY ONLY <1>2, q \in Seq(Seq(Nat)), ConcatOne, Zenon
  <2>2. Append(q, Run(b, c)) \in Seq(Seq(Nat))
    BY ONLY <1>2, q \in Seq(Seq(Nat)), AppendFacts, Zenon
  <2> QED BY <1>1, <1>3, <2>1, <2>2
<1>6. b # c /\ Run(b, c) # <<>>
  BY <1>1, RunFacts
<1>7. Pieced(p, Len(t), c, S)
  BY <1>1, <1>2, <1>5, <1>6, PiecedAppend
<1>8. Run(c, c) = <<>> /\ c <= c
  <2>1. c <= c
    OBVIOUS
  <2> QED BY <2>1, RunFacts
<1>9. NoNone(q) => NoNone(p)
  BY <1>2, <1>5, <1>6, AppendNoNone
<1>10. FlowOf(p, t, f, d, S)
  BY <1>1, <1>4, <1>7, <1>8 DEF FlowOf
<1> QED BY <1>3, <1>4, <1>5, <1>9, <1>10

\* At the end all the text goes into the queue, and None.
LEMMA FlowEnd ==
  ASSUME NEW q \in Seq(Seq(Nat)), NEW t \in Seq(Nat), NEW s \in Buffers, NEW d \in Nat, NEW S,
         FlowOf(q, t, s, d, S), d \in S, NEW f, f.buf = <<>>, f.held = <<>>, NEW p,
         p = IF s.buf \o s.held = <<>> THEN <<(<<>>)>> ELSE <<s.buf \o s.held, <<>> >>
  PROVE  q \o p \in Seq(Seq(Nat)) /\ FlowOf(q \o p, t, f, d, S)
<1>1. PICK b \in Nat, c \in Nat :
           /\ b <= c /\ c <= d
           /\ t = Run(0, Len(t)) /\ Pieced(q, Len(t), b, S)
           /\ s.buf = Run(b, c) /\ s.held = Run(c, d)
  BY DEF FlowOf
<1>2. PICK x, e : x = Run(b, d) /\ e = <<>>
  OBVIOUS
<1>3. b <= d /\ d <= d /\ Len(t) \in Nat
  BY <1>1
<1>4. x \in Seq(Nat) /\ (x = e <=> b = d) /\ e \in Seq(Nat) /\ Run(d, d) = e
  <2>1. Run(b, d) \in Seq(Nat) /\ (Run(b, d) = <<>> <=> b = d) /\ Run(d, d) = <<>>
    BY <1>3, RunFacts
  <2>2. <<>> \in Seq(Nat)
    OBVIOUS
  <2> QED BY <1>2, <2>1, <2>2
<1>5. s.buf \o s.held = x
  <2>1. Run(b, c) \o Run(c, d) = Run(b, d)
    BY <1>1, RunConcat
  <2> QED BY ONLY <1>1, <1>2, <2>1
<1>6. PICK l : l = q \o p
  OBVIOUS
<1>7. l \in Seq(Seq(Nat)) /\ Pieced(l, Len(t), d, S)
  <2>1. CASE x = e
    <3>1. p = <<x>>
      BY <1>2, <1>5, <2>1
    <3>2. l = Append(q, x)
      BY ONLY <1>4, <1>6, <3>1, q \in Seq(Seq(Nat)), ConcatOne, Zenon
    <3>3. l \in Seq(Seq(Nat))
      BY ONLY <1>4, <3>2, q \in Seq(Seq(Nat)), AppendFacts, Zenon
    <3>4. b = d /\ b \in S
      BY <1>4, <2>1
    <3>5. Pieced(Append(q, Run(b, d)), Len(t), d, S)
      BY <1>1, <1>2, <1>3, <1>4, <3>4, PiecedAppend
    <3> QED BY <1>2, <3>2, <3>3, <3>5
  <2>2. CASE x # e
    <3>1. p = <<x, e>>
      BY <1>2, <1>5, <2>2
    <3>2. PICK m : m = Append(q, x)
      OBVIOUS
    <3>3. m \in Seq(Seq(Nat))
      BY ONLY <1>4, <3>2, q \in Seq(Seq(Nat)), AppendFacts, Zenon
    <3>4. l = Append(m, e)
      <4>1. q \o <<x, e>> = Append(Append(q, x), e)
        BY ONLY <1>4, q \in Seq(Seq(Nat))
      <4> QED BY ONLY <1>6, <3>1, <3>2, <4>1
    <3>5. Append(m, e) \in Seq(Seq(Nat))
      BY ONLY <1>4, <3>3, AppendFacts, Zenon
    <3>6. Pieced(m, Len(t), d, S)
      <4>1. b # d /\ Run(b, d) \in Seq(Nat)
        BY <1>2, <1>4, <2>2
      <4>2. Pieced(Append(q, Run(b, d)), Len(t), d, S)
        BY <1>1, <1>3, <4>1, PiecedAppend
      <4> QED BY <1>2, <3>2, <4>2
    <3>7. Pieced(Append(m, Run(d, d)), Len(t), d, S)
      BY <1>3, <1>4, <3>3, <3>6, PiecedAppend
    <3> QED BY <1>4, <3>4, <3>5, <3>7
  <2> QED BY <2>1, <2>2
<1>8. FlowOf(l, t, f, d, S)
  BY <1>1, <1>2, <1>3, <1>4, <1>7 DEF FlowOf
<1> QED BY <1>6, <1>7, <1>8

\* The client reads the next piece, or None.
LEMMA FlowGet ==
  ASSUME NEW q \in Seq(Seq(Nat)), NEW t \in Seq(Nat), NEW s, NEW d \in Nat, NEW S,
         FlowOf(q, t, s, d, S), q # <<>>
  PROVE  /\ Tail(q) \in Seq(Seq(Nat)) /\ t \o Head(q) \in Seq(Nat)
         /\ FlowOf(Tail(q), t \o Head(q), s, d, S)
         /\ \E m \in Nat : /\ m <= d /\ t = Run(0, Len(t)) /\ t \o Head(q) = Run(0, m) /\ Len(t) <= m
                           /\ Head(q) = <<>> <=> Len(t) = m
                           /\ Len(t) = m => m \in S
         /\ NoNone(q) => NoNone(Tail(q))
<1>1. PICK b \in Nat, c \in Nat :
           /\ b <= c /\ c <= d
           /\ t = Run(0, Len(t)) /\ Pieced(q, Len(t), b, S)
           /\ s.buf = Run(b, c) /\ s.held = Run(c, d)
  BY DEF FlowOf
<1>2. PICK n \in Nat : n = Len(t)
  OBVIOUS
<1>3. PICK m \in Nat : /\ n <= m /\ m <= b /\ Head(q) = Run(n, m)
                       /\ n = m => n \in S
                       /\ Pieced(Tail(q), m, b, S)
  BY <1>1, <1>2, PiecedTail
<1>4. PICK u : u = t \o Head(q)
  OBVIOUS
<1>5. u = Run(0, m) /\ u \in Seq(Nat) /\ Len(u) = m
  <2>1. 0 <= n /\ 0 <= m
    BY <1>3
  <2>2. Run(0, n) \o Run(n, m) = Run(0, m)
    BY <1>3, <2>1, RunConcat
  <2>3. Run(0, m) \in Seq(Nat) /\ Len(Run(0, m)) = m - 0
    BY <2>1, RunFacts
  <2>4. u = Run(0, n) \o Run(n, m)
    BY ONLY <1>1, <1>2, <1>3, <1>4
  <2>5. u = Run(0, m)
    BY ONLY <2>2, <2>4
  <2>6. u \in Seq(Nat)
    BY ONLY <2>3, <2>5
  <2>7. Len(u) = m - 0
    BY ONLY <2>3, <2>5
  <2> QED BY ONLY <2>5, <2>6, <2>7, m \in Nat
<1>6. FlowOf(Tail(q), u, s, d, S)
  BY <1>1, <1>3, <1>5 DEF FlowOf
<1>7. Head(q) = <<>> <=> n = m
  BY <1>3, RunFacts
<1>8. NoNone(q) => NoNone(Tail(q))
  BY TailFacts DEF NoNone
<1>9. m <= d
  BY <1>1, <1>3
<1>10. Tail(q) \in Seq(Seq(Nat))
  BY TailFacts
<1> QED BY <1>1, <1>2, <1>3, <1>4, <1>5, <1>6, <1>7, <1>8, <1>9, <1>10

=============================================================================
