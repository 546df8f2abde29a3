----------------------- MODULE ChunkedSchedulerProofs -----------------------
(***************************************************************************)
(* Theorems about ChunkedScheduler: a request in flight keeps its blocks,  *)
(* its tokens find their placeholders, no session is lost between the      *)
(* queues and the batches in flight, and the caller is served as           *)
(* DecodeContract says. All are for any number of requests, of chunks and  *)
(* any sizes of batches, with overlapped steps and without.                *)
(***************************************************************************)
EXTENDS ChunkedScheduler, QueueLemmas

EntrySet == [rid : Requests, pos : Nat \ {0}]
ChunkSet == [all : SUBSET Requests, ready : Seq(Requests)]

\* Types of what the argument is about.
Types ==
  /\ overlap \in BOOLEAN
  /\ known \subseteq Requests /\ finished \subseteq Requests /\ held \subseteq Requests
  /\ canceled \subseteq Requests /\ dropped \subseteq Requests
  /\ left \in [Requests -> 0..MaxChunks] /\ ids \in [Requests -> Seq(Nat)]
  /\ prefillRids \in Seq(Requests) /\ decodeRids \in Seq(Requests)
  /\ inflight \in [Requests -> Nat]
  /\ decodes \in Seq(SUBSET EntrySet) /\ prefills \in Seq(ChunkSet)
  /\ tokens \in [Requests -> Seq(Nat)] /\ ended \in [Requests -> 0..1]

\* How many batches can be in flight where a step is: one more than between steps
\* from the launch to the result that is taken.
Phases ==
  /\ pc \in {"idle", "decode", "prefill", "takeDecode", "takePrefill"}
  /\ Len(decodes) <= IF pc \in {"prefill", "takeDecode"} THEN 2 ELSE 1
  /\ Len(prefills) <= IF pc \in {"takeDecode", "takePrefill"} THEN 2 ELSE 1
  /\ ~overlap => decodes = <<>> /\ prefills = <<>>

\* Where a request is in flight.
DecodesOf(r) == {i \in DOMAIN decodes : \E x \in decodes[i] : x.rid = r}
ChunksOf(r)  == {i \in DOMAIN prefills : r \in prefills[i].all}
Flying(r) == DecodesOf(r) # {} \/ ChunksOf(r) # {}

\* _overlap_inflight counts exactly the batches that a request is in.
Counted == \A r \in Requests : inflight[r] = InFlight(r)

\* A session that is not over has its blocks and so has one with a batch in
\* flight; a request that the caller dropped has a session only while it is
\* marked canceled; the end is reported when nothing is in flight any more.
Standing ==
  /\ held \subseteq known /\ known \ finished \subseteq held
  /\ known \cap dropped = canceled /\ canceled \subseteq finished
  /\ finished \subseteq known \cup dropped
  /\ \A r \in Requests :
       /\ Flying(r) => r \in held
       /\ ended[r] = 1 => r \in finished /\ ~Flying(r)
       /\ ids[r] # <<>> => r \in known \cup dropped

\* The tokens in flight and the placeholders are the same positions. A request
\* has one token in a batch, and those of an older batch come first. The token in
\* flight of a session that finished meanwhile is the last entry, so it can be
\* cut off.
Decodings ==
  /\ \A i \in DOMAIN decodes : \A x, y \in decodes[i] : x.rid = y.rid => x = y
  /\ \A i, j \in DOMAIN decodes : \A x \in decodes[i], y \in decodes[j] :
       i < j /\ x.rid = y.rid => x.pos < y.pos
  /\ \A i \in DOMAIN decodes : \A x \in decodes[i] :
       /\ x.pos \in DOMAIN ids[x.rid] /\ ids[x.rid][x.pos] = Placeholder
       /\ x.rid \in finished \ canceled => x.pos = Len(ids[x.rid])
  /\ \A r \in Requests : \A p \in DOMAIN ids[r] :
       ids[r][p] = Placeholder => \E i \in DOMAIN decodes : \E x \in decodes[i] : x.rid = r /\ x.pos = p

\* The entries that the caller has not been given are the placeholders, at the
\* end; a session that is not over has a token to come.
Texts ==
  \A r \in Requests :
    /\ Len(ids[r]) <= MaxNew
    /\ r \in known \ finished => Len(tokens[r]) < MaxNew
    /\ r \notin dropped =>
         /\ Len(tokens[r]) <= Len(ids[r])
         /\ \A p \in DOMAIN ids[r] : ids[r][p] = Placeholder <=> p > Len(tokens[r])

\* Who has a chunk in flight has no token yet, and is over only if canceled; the
\* last chunk of a prompt is in the last batch the request is in.
Chunks ==
  /\ \A i \in DOMAIN prefills :
       /\ \A r \in prefills[i].all : ids[r] = <<>> /\ (r \in finished => r \in canceled)
       /\ Range(prefills[i].ready) \subseteq prefills[i].all
       /\ IsInjective(prefills[i].ready)
       /\ \A r \in Range(prefills[i].ready) : left[r] = 0
  /\ \A i, j \in DOMAIN prefills : i < j => Range(prefills[i].ready) \cap prefills[j].all = {}

\* No queue holds a request twice, and each session that is not over has its one
\* place.
Places ==
  /\ IsInjective(prefillRids)
  /\ IsInjective(decodeRids)
  /\ Range(prefillRids) \cup Range(decodeRids) \subseteq known \cup dropped
  /\ \A r \in known \ finished :
       /\ ids[r] = <<>> => /\ r \notin Range(decodeRids)
                           /\ r \in Range(prefillRids) <=> left[r] > 0
                           /\ LastChunkInFlight(r) <=> left[r] = 0
       /\ ids[r] # <<>> => /\ r \notin Range(prefillRids)
                           /\ r \in Range(decodeRids) \/ LastTokenInFlight(r)

(***************************************************************************)
(* The inductive invariant. None of the checked invariants is inductive    *)
(* alone. That a placeholder is found (Decodings) needs that a session     *)
(* over before its last token arrived has no other token in flight, which  *)
(* only Texts gives: a session that is not over has a token to come, so    *)
(* when the last is EOS or max_new_tokens only one placeholder can be      *)
(* behind it. That a session is not lost (Places) needs that one that is   *)
(* full has a placeholder, hence a token in flight; and that blocks are    *)
(* held while the device uses them (Standing) needs the count to be right  *)
(* (Counted).                                                              *)
(***************************************************************************)
IInv == Types /\ Phases /\ Counted /\ Standing /\ Decodings /\ Texts /\ Chunks /\ Places

-----------------------------------------------------------------------------
\* Picked grows by one with each entry in S.
LEMMA PickedFacts ==
  ASSUME NEW q, NEW S, NEW k \in Nat
  PROVE  /\ Picked(q, S, k) \in Nat /\ Picked(q, S, 0) = 0
         /\ q[k + 1] \in S => Picked(q, S, k + 1) = Picked(q, S, k) + 1
         /\ q[k + 1] \notin S => Picked(q, S, k + 1) = Picked(q, S, k)
<1>1. PICK T : T = {i \in 1..k : q[i] \in S}
  OBVIOUS
<1>2. PICK U : U = {i \in 1..(k + 1) : q[i] \in S}
  OBVIOUS
<1>3. IsFiniteSet(T) /\ Cardinality(T) \in Nat
  <2>1. T \subseteq 1..k /\ IsFiniteSet(1..k)
    BY <1>1, FS_Interval
  <2> QED BY <2>1, FS_Subset, FS_CardinalityType
<1>4. k + 1 \notin T /\ 1..(k + 1) = 1..k \cup {k + 1}
  BY <1>1
<1>5. /\ q[k + 1] \in S => U = T \cup {k + 1}
      /\ q[k + 1] \notin S => U = T
  BY <1>1, <1>2, <1>4
<1>6. q[k + 1] \in S => Cardinality(U) = Cardinality(T) + 1
  BY <1>3, <1>4, <1>5, FS_AddElement
<1>7. {i \in 1..0 : q[i] \in S} = {}
  OBVIOUS
<1> QED BY <1>1, <1>2, <1>3, <1>5, <1>6, <1>7, FS_EmptySet DEF Picked

LEMMA PickedGrows ==
  ASSUME NEW q, NEW S, NEW k \in Nat, NEW l \in Nat, k <= l
  PROVE  Picked(q, S, k) <= Picked(q, S, l)
<1>1. {i \in 1..k : q[i] \in S} \subseteq {i \in 1..l : q[i] \in S}
  OBVIOUS
<1>2. IsFiniteSet({i \in 1..l : q[i] \in S})
  <2>1. {i \in 1..l : q[i] \in S} \subseteq 1..l /\ IsFiniteSet(1..l)
    BY FS_Interval
  <2> QED BY <2>1, FS_Subset
<1> QED BY <1>1, <1>2, FS_Subset DEF Picked

\* The n-th entry in S is the first at which n of them have been seen.
LEMMA NthFacts ==
  ASSUME NEW q, NEW S, NEW n \in Nat, NEW m \in 1..Picked(q, S, n)
  PROVE  \E i \in 1..n : q[i] \in S /\ Picked(q, S, i) = m
<1> DEFINE T == {i \in 1..n : Picked(q, S, i) >= m}
<1>1. Picked(q, S, n) \in Nat /\ Picked(q, S, 0) = 0
  BY PickedFacts
<1>2. n # 0
  BY <1>1
<1>3. n \in T
  BY <1>1, <1>2
<1>4. PICK i \in T : \A j \in T : i <= j
  <2> HIDE DEF T
  <2>1. T \subseteq 1..n
    BY DEF T
  <2> QED BY <1>3, <2>1, Smallest
<1>5. PICK k \in Nat : i = k + 1
  BY <1>4
<1>6. Picked(q, S, k) < m
  <2>1. CASE k = 0
    BY <1>1, <2>1
  <2>2. CASE k # 0
    <3>1. k \in 1..n /\ k < i
      BY <1>4, <1>5, <2>2
    <3>2. k \notin T
      BY <1>4, <1>5, <3>1
    <3>3. Picked(q, S, k) \in Nat
      BY PickedFacts
    <3> QED BY <3>1, <3>2, <3>3
  <2> QED BY <2>1, <2>2
<1>7. Picked(q, S, k) \in Nat /\ Picked(q, S, i) >= m
  BY <1>4, PickedFacts
<1>8. q[k + 1] \in S /\ Picked(q, S, k + 1) = Picked(q, S, k) + 1
  BY <1>5, <1>6, <1>7, PickedFacts
<1>9. Picked(q, S, i) = m
  BY <1>5, <1>6, <1>7, <1>8
<1> QED BY <1>4, <1>5, <1>8, <1>9

LEMMA NthOnce ==
  ASSUME NEW q, NEW S, NEW i \in Nat, NEW j \in Nat, i < j, q[j] \in S
  PROVE  Picked(q, S, i) < Picked(q, S, j)
<1>1. PICK k \in Nat : j = k + 1 /\ i <= k
  <2>1. j - 1 \in Nat /\ j = (j - 1) + 1 /\ i <= j - 1
    OBVIOUS
  <2> QED BY <2>1
<1>2. Picked(q, S, i) \in Nat /\ Picked(q, S, k) \in Nat /\ Picked(q, S, i) <= Picked(q, S, k)
  BY <1>1, PickedFacts, PickedGrows
<1>3. Picked(q, S, j) = Picked(q, S, k) + 1
  BY <1>1, PickedFacts
<1> QED BY <1>2, <1>3

\* Chosen gives the entries in S, each once.
LEMMA ChosenFacts ==
  ASSUME NEW U, NEW q \in Seq(U), IsInjective(q), NEW S, NEW n \in 0..Len(q)
  PROVE  /\ Chosen(q, S, n) \in Seq(U) /\ IsInjective(Chosen(q, S, n))
         /\ Range(Chosen(q, S, n)) = {q[i] : i \in 1..n} \cap S
<1>1. /\ n \in Nat /\ \A i \in 1..n : q[i] \in U
      /\ \A i, j \in 1..n : q[i] = q[j] => i = j
  BY SeqFacts DEF IsInjective
<1>2. PICK m \in Nat : m = Picked(q, S, n)
  BY PickedFacts
<1> DEFINE nth(l) == CHOOSE i \in 1..n : q[i] \in S /\ Picked(q, S, i) = l
<1>3. PICK z : z = Chosen(q, S, n)
  OBVIOUS
<1>4. z = [l \in 1..m |-> q[nth(l)]]
  BY <1>1, <1>2, <1>3 DEF Chosen
<1>5. ASSUME NEW l \in 1..m
      PROVE  nth(l) \in 1..n /\ q[nth(l)] \in S /\ Picked(q, S, nth(l)) = l
  <2>1. \E i \in 1..n : q[i] \in S /\ Picked(q, S, i) = l
    BY <1>2, NthFacts
  <2> QED BY <2>1
<1>6. ASSUME NEW i \in 1..n, NEW j \in 1..n, q[i] \in S, q[j] \in S, Picked(q, S, i) = Picked(q, S, j)
      PROVE  i = j
  <2>1. i \in Nat /\ j \in Nat /\ (i < j \/ j < i \/ i = j)
    BY <1>1
  <2>2. Picked(q, S, i) \in Nat
    BY <2>1, PickedFacts
  <2>3. ~(i < j)
    <3> SUFFICES ASSUME i < j PROVE FALSE
      OBVIOUS
    <3>1. Picked(q, S, i) < Picked(q, S, j)
      BY <1>6, <2>1, NthOnce
    <3> QED BY <1>6, <2>2, <3>1
  <2>4. ~(j < i)
    <3> SUFFICES ASSUME j < i PROVE FALSE
      OBVIOUS
    <3>1. Picked(q, S, j) < Picked(q, S, i)
      BY <1>6, <2>1, NthOnce
    <3> QED BY <1>6, <2>2, <3>1
  <2> QED BY <2>1, <2>3, <2>4
<1>7. ASSUME NEW i \in 1..n, q[i] \in S
      PROVE  \E l \in 1..m : nth(l) = i
  <2>1. PICK l \in Nat : l = Picked(q, S, i)
    <3>1. i \in Nat
      BY <1>1
    <3> QED BY <3>1, PickedFacts
  <2>2. l <= m
    BY <1>1, <1>2, <2>1, PickedGrows
  <2>3. l # 0
    <3>1. 0 < i /\ i \in Nat /\ 0 \in Nat
      BY <1>1
    <3>2. Picked(q, S, 0) < Picked(q, S, i)
      BY <1>7, <3>1, NthOnce
    <3>3. Picked(q, S, 0) = 0
      BY <3>1, PickedFacts
    <3> QED BY <2>1, <3>2, <3>3
  <2>4. l \in 1..m
    BY <1>2, <2>2, <2>3
  <2>5. nth(l) = i
    BY <1>5, <1>6, <1>7, <2>1, <2>4
  <2> QED BY <2>4, <2>5
<1> HIDE DEF nth
<1>8. DOMAIN z = 1..m /\ \A l \in 1..m : z[l] = q[nth(l)] /\ z[l] \in U
  BY <1>1, <1>4, <1>5
<1>9. z \in Seq(U)
  <2>1. z \in [1..m -> U]
    BY <1>4, <1>8
  <2> QED BY <1>2, <2>1
<1>10. IsInjective(z)
  <2> SUFFICES ASSUME NEW k \in 1..m, NEW l \in 1..m, z[k] = z[l] PROVE k = l
    BY <1>8 DEF IsInjective
  <2>1. nth(k) = nth(l)
    BY <1>1, <1>5, <1>8
  <2> QED BY <1>5, <2>1
<1>11. Range(z) = {q[i] : i \in 1..n} \cap S
  <2>1. ASSUME NEW l \in 1..m PROVE z[l] \in {q[i] : i \in 1..n} \cap S
    BY <1>5, <1>8
  <2>2. ASSUME NEW i \in 1..n, q[i] \in S PROVE q[i] \in Range(z)
    BY <1>7, <1>8, <2>2 DEF Range
  <2> QED BY <1>8, <2>1, <2>2 DEF Range
<1> QED BY <1>3, <1>9, <1>10, <1>11

LEMMA AmongFacts ==
  ASSUME NEW U, NEW q \in Seq(U), IsInjective(q), NEW S
  PROVE  /\ Among(q, S) \in Seq(U) /\ IsInjective(Among(q, S))
         /\ Range(Among(q, S)) = Range(q) \cap S
<1>1. Len(q) \in 0..Len(q) /\ Range(q) = {q[i] : i \in 1..Len(q)}
  BY SeqFacts DEF Range
<1> QED BY <1>1, ChosenFacts DEF Among

\* The scan ends within the queue.
LEMMA ScannedFacts ==
  ASSUME NEW U, NEW q \in Seq(U), NEW S, NEW max \in Nat
  PROVE  Scanned(q, S, max) \in 0..Len(q)
<1>1. PICK n \in Nat : n = Len(q)
  BY SeqFacts
<1> DEFINE ends(k) == k = n \/ Picked(q, S, k) >= max
           T == {i \in 1..(n + 1) : ends(i - 1)}
<1>2. n + 1 \in T
  BY <1>1
<1>3. PICK i \in T : \A j \in T : i <= j
  <2>1. T \subseteq 1..(n + 1) /\ T # {} /\ n + 1 \in Nat
    BY <1>1, <1>2
  <2> HIDE DEF T
  <2> QED BY <2>1, Smallest
<1>4. PICK k \in 0..n : i = k + 1
  BY <1>1, <1>3
<1>5. ends(k)
  BY <1>1, <1>3, <1>4
<1>6. ASSUME NEW j \in 0..(k - 1) PROVE Picked(q, S, j) < max
  <2>1. j + 1 \in 1..(n + 1) /\ j + 1 < i /\ j \in Nat /\ (j + 1) - 1 = j
    BY <1>1, <1>4
  <2>2. j + 1 \notin T
    <3> SUFFICES ASSUME j + 1 \in T PROVE FALSE
      OBVIOUS
    <3>1. i <= j + 1
      BY <1>3
    <3> QED BY <1>1, <1>4, <2>1, <3>1
  <2>3. ~ends(j)
    BY <2>1, <2>2
  <2>4. Picked(q, S, j) \in Nat
    BY <2>1, PickedFacts
  <2> QED BY <2>3, <2>4
<1>7. \E l \in 0..Len(q) : /\ l = Len(q) \/ Picked(q, S, l) >= max
                           /\ \A j \in 0..(l - 1) : Picked(q, S, j) < max
  BY <1>1, <1>5, <1>6
<1> HIDE DEF ends, T
<1> QED BY <1>7 DEF Scanned

\* A queue is cut into those selected, those left, and those passed over.
LEMMA SelectedFacts ==
  ASSUME NEW U, NEW q \in Seq(U), IsInjective(q), NEW S, NEW max \in Nat
  PROVE  LET b == Selected(q, S, max)
             t == Rest(q, S, max)
         IN  /\ b \in Seq(U) /\ IsInjective(b) /\ Range(b) \subseteq Range(q) \cap S
             /\ t \in Seq(U) /\ IsInjective(t) /\ Range(t) \subseteq Range(q)
             /\ Range(b) \cap Range(t) = {}
             /\ Range(q) \cap S \subseteq Range(b) \cup Range(t)
<1>1. PICK k \in 0..Len(q) : k = Scanned(q, S, max)
  BY ScannedFacts
<1>2. PICK x, y : x = SubSeq(q, 1, k) /\ y = SubSeq(q, k + 1, Len(q))
  OBVIOUS
<1>3. /\ x \in Seq(U) /\ IsInjective(x) /\ y \in Seq(U) /\ IsInjective(y)
      /\ Range(x) \cup Range(y) = Range(q) /\ Range(x) \cap Range(y) = {}
  BY <1>1, <1>2, Suffix
<1>4. PICK b : b = Chosen(q, S, k)
  OBVIOUS
<1>5. b \in Seq(U) /\ IsInjective(b) /\ Range(b) = Range(x) \cap S
  <2>1. b \in Seq(U) /\ IsInjective(b) /\ Range(b) = {q[i] : i \in 1..k} \cap S
    BY <1>1, <1>4, ChosenFacts
  <2>2. Len(x) = k /\ \A i \in 1..k : x[i] = q[i]
    BY <1>1, <1>2, Suffix
  <2>3. Range(x) = {q[i] : i \in 1..k}
    <3>1. DOMAIN x = 1..k
      BY <1>3, <2>2
    <3> QED BY <2>2, <3>1 DEF Range
  <2> QED BY <2>1, <2>3
<1>6. Selected(q, S, max) = b /\ Rest(q, S, max) = y
  BY <1>1, <1>2, <1>4 DEF Selected, Rest
<1> QED BY <1>3, <1>5, <1>6

\* has_unfinished takes only sessions that are over.
LEMMA TrimFacts ==
  ASSUME NEW U, NEW q \in Seq(U), IsInjective(q)
  PROVE  /\ Trim(q) \in Seq(U) /\ IsInjective(Trim(q)) /\ Range(Trim(q)) \subseteq Range(q)
         /\ \A r \in Range(q) : Alive(r) => r \in Range(Trim(q))
<1>1. PICK n \in Nat : n = Len(q) /\ DOMAIN q = 1..n
  BY SeqFacts
<1> DEFINE T == {i \in 1..n : \A j \in 1..i : ~Alive(q[j])}
           A == {i \in 1..(n + 1) : i = n + 1 \/ Alive(q[i])}
<1>2. PICK m \in A : \A i \in A : m <= i
  <2>1. A \subseteq 1..(n + 1) /\ n + 1 \in A /\ n + 1 \in Nat
    BY <1>1
  <2> HIDE DEF A
  <2> QED BY <2>1, Smallest
<1>3. PICK k \in 0..n : m = k + 1
  BY <1>1, <1>2
<1>4. \A i \in 1..k : ~Alive(q[i])
  <2> SUFFICES ASSUME NEW i \in 1..k PROVE ~Alive(q[i])
    OBVIOUS
  <2>1. i \in 1..(n + 1) /\ i < m /\ i # n + 1
    BY <1>1, <1>3
  <2>2. i \notin A
    BY <1>1, <1>2, <1>3, <2>1
  <2> QED BY <2>1, <2>2
<1>5. T = 1..k
  <2>1. 1..k \subseteq T
    BY <1>1, <1>3, <1>4
  <2>2. ASSUME NEW i \in 1..n, \A j \in 1..i : ~Alive(q[j]), i > k PROVE FALSE
    <3>1. m \in 1..i /\ m # n + 1
      BY <1>1, <1>3, <2>2
    <3>2. Alive(q[m])
      BY <1>2, <3>1
    <3> QED BY <2>2, <3>1, <3>2
  <2>3. \A i \in 1..n : i > k \/ i \in 1..k
    BY <1>1, <1>3
  <2> QED BY <2>1, <2>2, <2>3
<1>6. Cardinality(T) = k
  <2>1. k \in Nat /\ Cardinality(1..k) = IF 1 > k THEN 0 ELSE k - 1 + 1
    BY <1>1, <1>3, FS_Interval
  <2>2. Cardinality(1..k) = k
    BY <2>1
  <2> QED BY <1>5, <2>2
<1>7. PICK x, y : x = SubSeq(q, 1, k) /\ y = SubSeq(q, k + 1, Len(q))
  OBVIOUS
<1>8. Trim(q) = y
  BY <1>1, <1>6, <1>7 DEF Trim
<1>9. /\ x \in Seq(U) /\ Len(x) = k /\ \A i \in 1..k : x[i] = q[i]
      /\ y \in Seq(U) /\ IsInjective(y) /\ Range(x) \cup Range(y) = Range(q)
  BY <1>1, <1>7, Suffix
<1>10. \A r \in Range(x) : ~Alive(r)
  <2>1. DOMAIN x = 1..k
    BY <1>3, <1>9
  <2> QED BY <1>4, <1>9, <2>1 DEF Range
<1> HIDE DEF T, A
<1> QED BY <1>8, <1>9, <1>10

-----------------------------------------------------------------------------

\* Counting the batches of a request when one is added or taken.
LEMMA IndexAppend ==
  ASSUME NEW n \in Nat, NEW D, D \subseteq 1..n
  PROVE  /\ IsFiniteSet(D) /\ Cardinality(D) \in Nat
         /\ Cardinality(D \cup {n + 1}) = Cardinality(D) + 1
<1>1. IsFiniteSet(D) /\ Cardinality(D) \in Nat
  <2>1. IsFiniteSet(1..n)
    BY FS_Interval
  <2> QED BY <2>1, FS_Subset, FS_CardinalityType
<1>2. n + 1 \notin D
  OBVIOUS
<1> QED BY <1>1, <1>2, FS_AddElement

LEMMA IndexTail ==
  ASSUME NEW n \in Nat \ {0}, NEW D, D \subseteq 1..n
  PROVE  LET E == {i \in 1..(n - 1) : i + 1 \in D}
         IN  /\ Cardinality(E) \in Nat /\ Cardinality(D) \in Nat
             /\ Cardinality(D) = IF 1 \in D THEN Cardinality(E) + 1 ELSE Cardinality(E)
<1> DEFINE E == {i \in 1..(n - 1) : i + 1 \in D}
           C == D \ {1}
           f == [i \in E |-> i + 1]
<1>1. IsFiniteSet(D) /\ Cardinality(D) \in Nat /\ IsFiniteSet(C) /\ Cardinality(C) \in Nat
  <2>1. IsFiniteSet(1..n) /\ C \subseteq D
    BY FS_Interval
  <2>2. IsFiniteSet(D)
    BY <2>1, FS_Subset
  <2> HIDE DEF C
  <2>3. IsFiniteSet(C)
    BY <2>1, <2>2, FS_Subset
  <2> QED BY <2>2, <2>3, FS_CardinalityType
<1>2. IsFiniteSet(E) /\ Cardinality(E) \in Nat
  <2>1. E \subseteq 1..(n - 1) /\ n - 1 \in Nat
    OBVIOUS
  <2> HIDE DEF E
  <2>2. IsFiniteSet(1..(n - 1))
    BY <2>1, FS_Interval
  <2> QED BY <2>1, <2>2, FS_Subset, FS_CardinalityType
<1>3. f \in Bijection(E, C)
  <2>1. f \in [E -> C]
    OBVIOUS
  <2>2. \A i, j \in E : f[i] = f[j] => i = j
    OBVIOUS
  <2>3. ASSUME NEW j \in C PROVE \E i \in E : f[i] = j
    <3>1. j - 1 \in E /\ (j - 1) + 1 = j
      OBVIOUS
    <3> QED BY <3>1
  <2> HIDE DEF f, E, C
  <2>4. DOMAIN f = E
    BY <2>1
  <2>5. IsInjective(f)
    BY <2>2, <2>4 DEF IsInjective
  <2>6. f \in Injection(E, C)
    BY <2>1, <2>5 DEF Injection
  <2>7. f \in Surjection(E, C)
    BY <2>1, <2>3 DEF Surjection
  <2> QED BY <2>6, <2>7 DEF Bijection
<1>4. Cardinality(E) = Cardinality(C)
  <2> HIDE DEF f, E, C
  <2>1. ExistsBijection(E, C)
    BY <1>3 DEF ExistsBijection
  <2> QED BY <1>2, <2>1, FS_Bijection
<1>5. CASE 1 \notin D
  <2>1. C = D
    BY <1>5
  <2> QED BY <1>1, <1>2, <1>4, <1>5, <2>1
<1>6. CASE 1 \in D
  <2>1. D = C \cup {1} /\ 1 \notin C
    BY <1>6
  <2> HIDE DEF C
  <2>2. Cardinality(D) = Cardinality(C) + 1
    BY <1>1, <2>1, FS_AddElement
  <2> QED BY <1>1, <1>2, <1>4, <1>6, <2>2
<1> QED BY <1>5, <1>6

\* Types of what is in flight.
LEMMA ChunkTypes ==
  ASSUME Types
  PROVE  \A i \in DOMAIN prefills :
           prefills[i].all \subseteq Requests /\ prefills[i].ready \in Seq(Requests)
<1>1. \A i \in DOMAIN prefills : prefills[i] \in ChunkSet
  <2> HIDE DEF ChunkSet
  <2>1. prefills \in Seq(ChunkSet)
    BY DEF Types
  <2> QED BY <2>1, SeqFacts
<1> QED BY <1>1 DEF ChunkSet

LEMMA EntryTypes ==
  ASSUME Types
  PROVE  \A i \in DOMAIN decodes : \A x \in decodes[i] :
           x \in EntrySet /\ x.rid \in Requests /\ x.pos \in Nat \ {0}
<1>1. \A i \in DOMAIN decodes : decodes[i] \in SUBSET EntrySet
  <2> HIDE DEF EntrySet
  <2>1. decodes \in Seq(SUBSET EntrySet)
    BY DEF Types
  <2> QED BY <2>1, SeqFacts
<1>2. \A i \in DOMAIN decodes : \A x \in decodes[i] : x \in EntrySet
  BY <1>1
<1> QED BY <1>2 DEF EntrySet

\* The count of what is in flight is 0 when nothing is.
LEMMA InFlightIs ==
  ASSUME NEW r PROVE InFlight(r) = Cardinality(DecodesOf(r)) + Cardinality(ChunksOf(r))
BY DEF InFlight, DecodesOf, ChunksOf

\* The count of a request says whether it is in flight.
LEMMA FlyingCounts ==
  ASSUME Types, Counted, NEW r \in Requests
  PROVE  /\ Cardinality(DecodesOf(r)) \in Nat /\ Cardinality(ChunksOf(r)) \in Nat
         /\ inflight[r] = Cardinality(DecodesOf(r)) + Cardinality(ChunksOf(r))
         /\ inflight[r] = 0 <=> ~Flying(r)
<1>1. PICK n, m \in Nat : DecodesOf(r) \subseteq 1..n /\ ChunksOf(r) \subseteq 1..m
  <2>1. DOMAIN decodes = 1..Len(decodes) /\ DOMAIN prefills = 1..Len(prefills)
        /\ Len(decodes) \in Nat /\ Len(prefills) \in Nat
    BY DEF Types
  <2> QED BY <2>1 DEF DecodesOf, ChunksOf
<1>2. /\ IsFiniteSet(DecodesOf(r)) /\ Cardinality(DecodesOf(r)) \in Nat
      /\ IsFiniteSet(ChunksOf(r)) /\ Cardinality(ChunksOf(r)) \in Nat
  BY <1>1, IndexAppend
<1>3. inflight[r] = Cardinality(DecodesOf(r)) + Cardinality(ChunksOf(r))
  BY InFlightIs DEF Counted
<1>4. /\ Cardinality(DecodesOf(r)) = 0 <=> DecodesOf(r) = {}
      /\ Cardinality(ChunksOf(r)) = 0 <=> ChunksOf(r) = {}
  BY <1>2, FS_EmptySet
<1> QED BY <1>2, <1>3, <1>4 DEF Flying

\* Steps that launch and take nothing.
LEMMA FlightKept ==
  ASSUME UNCHANGED <<inflight, decodes, prefills>>
  PROVE  /\ Counted => Counted'
         /\ \A r : /\ DecodesOf(r)' = DecodesOf(r)
                   /\ ChunksOf(r)' = ChunksOf(r)
                   /\ Flying(r)' <=> Flying(r)
                   /\ LastChunkInFlight(r)' <=> LastChunkInFlight(r)
         /\ \A r : ids'[r] = ids[r] => (LastTokenInFlight(r)' <=> LastTokenInFlight(r))
<1>1. Counted => Counted'
  BY DEF Counted, InFlight
<1>2. \A r : /\ DecodesOf(r)' = DecodesOf(r)
             /\ ChunksOf(r)' = ChunksOf(r)
  BY DEF DecodesOf, ChunksOf
<1>3. \A r : LastChunkInFlight(r)' <=> LastChunkInFlight(r)
  BY DEF LastChunkInFlight
<1>4. \A r : ids'[r] = ids[r] => (LastTokenInFlight(r)' <=> LastTokenInFlight(r))
  BY DEF LastTokenInFlight
<1> QED BY <1>1, <1>2, <1>3, <1>4 DEF Flying

LEMMA DecodingsKept ==
  ASSUME Decodings, UNCHANGED decodes,
         \A i \in DOMAIN decodes : \A x \in decodes[i] :
            /\ ids'[x.rid] = ids[x.rid]
            /\ x.rid \in finished' \ canceled' => x.rid \in finished \ canceled,
         \A r \in Requests : ids'[r] = ids[r] \/ \A p \in DOMAIN ids'[r] : ids'[r][p] # Placeholder
  PROVE  Decodings'
<1>1. (\A i \in DOMAIN decodes : \A x, y \in decodes[i] : x.rid = y.rid => x = y)'
  BY DEF Decodings
<1>2. (\A i, j \in DOMAIN decodes : \A x \in decodes[i], y \in decodes[j] :
        i < j /\ x.rid = y.rid => x.pos < y.pos)'
  BY DEF Decodings
<1>3. (\A i \in DOMAIN decodes : \A x \in decodes[i] :
        /\ x.pos \in DOMAIN ids[x.rid] /\ ids[x.rid][x.pos] = Placeholder
        /\ x.rid \in finished \ canceled => x.pos = Len(ids[x.rid]))'
  BY DEF Decodings
<1>4. (\A r \in Requests : \A p \in DOMAIN ids[r] :
        ids[r][p] = Placeholder => \E i \in DOMAIN decodes : \E x \in decodes[i] : x.rid = r /\ x.pos = p)'
  BY DEF Decodings
<1> QED BY <1>1, <1>2, <1>3, <1>4 DEF Decodings

LEMMA ChunksKept ==
  ASSUME Chunks, UNCHANGED prefills,
         \A r \in Requests : (\E i \in DOMAIN prefills : r \in prefills[i].all) =>
            /\ ids'[r] = ids[r] /\ (left[r] = 0 => left'[r] = 0)
            /\ r \in finished' => r \in finished \/ r \in canceled'
            /\ r \in canceled => r \in canceled',
         \A i \in DOMAIN prefills : prefills[i].all \subseteq Requests
  PROVE  Chunks'
<1>1. ASSUME NEW i \in DOMAIN prefills
      PROVE  /\ \A r \in prefills[i].all : ids'[r] = <<>> /\ (r \in finished' => r \in canceled')
             /\ \A r \in Range(prefills[i].ready) : left'[r] = 0
  BY DEF Chunks
<1> QED BY <1>1 DEF Chunks

\* A request that was not added is nowhere.
LEMMA FreshFacts ==
  ASSUME IInv, NEW r \in Requests, r \notin known \cup dropped
  PROVE  /\ ids[r] = <<>> /\ r \notin finished \cup held \cup canceled
         /\ r \notin Range(prefillRids) \cup Range(decodeRids)
         /\ ~Flying(r) /\ ~LastChunkInFlight(r) /\ inflight[r] = 0
         /\ tokens[r] = <<>> /\ ended[r] = 0
<1>0. Types /\ Counted /\ Standing /\ Texts /\ Chunks /\ Places
  BY DEF IInv
<1>1. ids[r] = <<>> /\ r \notin finished \cup held \cup canceled /\ ~Flying(r)
  BY <1>0 DEF Standing
<1>2. r \notin Range(prefillRids) \cup Range(decodeRids)
  BY <1>0 DEF Places
<1>3. ~LastChunkInFlight(r)
  BY <1>0, <1>1 DEF LastChunkInFlight, Flying, ChunksOf, Chunks
<1>4. inflight[r] = 0
  BY <1>0, <1>1, FlyingCounts
<1>5. tokens[r] = <<>>
  <2>1. Len(tokens[r]) <= 0
    BY <1>0, <1>1 DEF Texts
  <2> QED BY <1>0, <2>1 DEF Types
<1>6. ended[r] = 0
  BY <1>0, <1>1 DEF Standing, Types
<1> QED BY <1>1, <1>2, <1>3, <1>4, <1>5, <1>6

-----------------------------------------------------------------------------

\* The invariant holds at first.
LEMMA InitInv == Init => IInv
<1> SUFFICES ASSUME Init PROVE IInv
  OBVIOUS
<1>1. /\ known = {} /\ finished = {} /\ held = {} /\ canceled = {} /\ dropped = {}
      /\ left = [r \in Requests |-> 0] /\ ids = [r \in Requests |-> <<>>]
      /\ prefillRids = <<>> /\ decodeRids = <<>> /\ inflight = [r \in Requests |-> 0]
      /\ decodes = <<>> /\ prefills = <<>> /\ pc = "idle"
      /\ tokens = [r \in Requests |-> <<>>] /\ ended = [r \in Requests |-> 0]
      /\ overlap \in BOOLEAN
  BY ChunkedAssumption DEF Init
<1>2. MaxChunks \in Nat /\ MaxNew \in Nat
  BY ChunkedAssumption
<1>3. Types
  BY <1>1, <1>2 DEF Types
<1>4. Phases
  BY <1>1 DEF Phases
<1>5. \A r : DecodesOf(r) = {} /\ ChunksOf(r) = {} /\ ~Flying(r)
  BY <1>1 DEF DecodesOf, ChunksOf, Flying
<1>6. Counted
  <2>1. ASSUME NEW r \in Requests PROVE InFlight(r) = 0
    <3>1. Cardinality(DecodesOf(r)) = 0 /\ Cardinality(ChunksOf(r)) = 0
      BY <1>5, FS_EmptySet
    <3> QED BY <3>1, InFlightIs
  <2> QED BY <1>1, <2>1 DEF Counted
<1>7. Standing
  BY <1>1, <1>5 DEF Standing
<1>8. Decodings
  BY <1>1 DEF Decodings
<1>9. Texts
  BY <1>1, <1>2 DEF Texts
<1>10. Chunks
  BY <1>1 DEF Chunks
<1>11. Places
  <2>1. IsInjective(prefillRids) /\ IsInjective(decodeRids)
    BY <1>1 DEF IsInjective
  <2>2. Range(prefillRids) = {} /\ Range(decodeRids) = {}
    BY <1>1 DEF Range
  <2> QED BY <1>1, <2>1, <2>2 DEF Places
<1> QED BY <1>3, <1>4, <1>6, <1>7, <1>8, <1>9, <1>10, <1>11 DEF IInv

\* A new session has one place: the queue of prompts, or that of decodes.
LEMMA AddRequestInv == ASSUME IInv, NEW r \in Requests, AddRequest(r) PROVE IInv'
<1>0. Types /\ Phases /\ Counted /\ Standing /\ Decodings /\ Texts /\ Chunks /\ Places
  BY DEF IInv
<1>1. /\ UNCHANGED <<overlap, finished, ids, decodeRids, inflight, canceled, decodes, prefills>>
      /\ UNCHANGED <<pc, launched, tokens, ended, dropped>>
      /\ known' = known \cup {r} /\ held' = held \cup {r}
      /\ prefillRids' = Append(prefillRids, r) /\ r \notin known \cup dropped
  BY DEF AddRequest, Fresh, pending, caller
<1>2. PICK n \in 1..MaxChunks : left' = [left EXCEPT ![r] = n]
  BY DEF AddRequest
<1>3. /\ ids[r] = <<>> /\ r \notin finished \cup held \cup canceled
      /\ r \notin Range(prefillRids) \cup Range(decodeRids)
      /\ ~Flying(r) /\ ~LastChunkInFlight(r)
  BY <1>1, FreshFacts
<1>4. /\ prefillRids' \in Seq(Requests) /\ IsInjective(prefillRids')
      /\ Range(prefillRids') = Range(prefillRids) \cup {r}
  BY <1>0, <1>1, <1>3, AppendQueue DEF Types, Places
<1>5. /\ left' \in [Requests -> 0..MaxChunks] /\ left'[r] > 0
      /\ \A q \in Requests \ {r} : left'[q] = left[q]
  BY <1>0, <1>2, ChunkedAssumption DEF Types
<1>6. Types' /\ Phases'
  BY <1>0, <1>1, <1>4, <1>5 DEF Types, Phases
<1>7. /\ Counted'
      /\ \A q : /\ Flying(q)' <=> Flying(q)
                /\ LastChunkInFlight(q)' <=> LastChunkInFlight(q)
                /\ LastTokenInFlight(q)' <=> LastTokenInFlight(q)
  BY <1>0, <1>1, FlightKept
<1>8. Standing'
  BY <1>0, <1>1, <1>3, <1>7 DEF Standing
<1>9. Decodings'
  BY <1>0, <1>1 DEF Decodings
<1>10. Texts'
  BY <1>0, <1>1, <1>3, ChunkedAssumption DEF Texts
<1>11. Chunks'
  <2>1. \A q \in Requests : (\E i \in DOMAIN prefills : q \in prefills[i].all) => q # r
    BY <1>3 DEF Flying, ChunksOf
  <2>2. \A i \in DOMAIN prefills : prefills[i].all \subseteq Requests
    BY <1>0, ChunkTypes
  <2>3. UNCHANGED prefills
    BY <1>1
  <2> QED BY <1>0, <1>1, <1>5, <2>1, <2>2, <2>3, ChunksKept
<1>12. Places'
  <2>1. ASSUME NEW q \in known' \ finished'
        PROVE  /\ ids'[q] = <<>> => /\ q \notin Range(decodeRids)'
                                    /\ q \in Range(prefillRids)' <=> left'[q] > 0
                                    /\ LastChunkInFlight(q)' <=> left'[q] = 0
               /\ ids'[q] # <<>> => /\ q \notin Range(prefillRids)'
                                    /\ q \in Range(decodeRids)' \/ LastTokenInFlight(q)'
    <3>1. CASE q = r
      <4>1. left'[r] # 0
        BY <1>5
      <4> QED BY <1>1, <1>3, <1>4, <1>5, <1>7, <3>1, <4>1
    <3>2. CASE q # r
      <4>1. q \in known \ finished /\ q \in Requests
        BY <1>0, <1>1, <3>2 DEF Types
      <4> QED BY <1>0, <1>1, <1>4, <1>5, <1>7, <3>2, <4>1 DEF Places
    <3> QED BY <3>1, <3>2
  <2> QED BY <1>0, <1>1, <1>4, <2>1 DEF Places
<1> QED BY <1>6, <1>7, <1>8, <1>9, <1>10, <1>11, <1>12 DEF IInv

LEMMA AddCachedInv == ASSUME IInv, NEW r \in Requests, AddCached(r) PROVE IInv'
<1>0. Types /\ Phases /\ Counted /\ Standing /\ Decodings /\ Texts /\ Chunks /\ Places
  BY DEF IInv
<1>1. /\ UNCHANGED <<overlap, left, prefillRids, inflight, canceled, decodes, prefills>>
      /\ UNCHANGED <<pc, launched, dropped>>
      /\ known' = known \cup {r} /\ ids' = [ids EXCEPT ![r] = <<1>>]
      /\ r \notin known \cup dropped
  BY DEF AddCached, Fresh, pending
<1>2. /\ ids[r] = <<>> /\ r \notin finished \cup held \cup canceled
      /\ r \notin Range(prefillRids) \cup Range(decodeRids)
      /\ ~Flying(r) /\ ~LastChunkInFlight(r) /\ tokens[r] = <<>> /\ ended[r] = 0
  BY <1>1, FreshFacts
<1>3. PICK over \in BOOLEAN :
        /\ MaxNew = 1 => over
        /\ finished' = IF over THEN finished \cup {r} ELSE finished
        /\ held' = IF over THEN held ELSE held \cup {r}
        /\ decodeRids' = IF over THEN decodeRids ELSE Append(decodeRids, r)
        /\ ended' = IF over THEN [q \in Requests |-> IF q \in {r} THEN ended[q] + 1 ELSE ended[q]] ELSE ended
  BY DEF AddCached, Reported
<1>4. /\ decodeRids' \in Seq(Requests) /\ IsInjective(decodeRids')
      /\ Range(decodeRids') = IF over THEN Range(decodeRids) ELSE Range(decodeRids) \cup {r}
  <2>1. decodeRids \in Seq(Requests) /\ IsInjective(decodeRids) /\ r \notin Range(decodeRids)
    BY <1>0, <1>2 DEF Types, Places
  <2>2. /\ Append(decodeRids, r) \in Seq(Requests) /\ IsInjective(Append(decodeRids, r))
        /\ Range(Append(decodeRids, r)) = Range(decodeRids) \cup {r}
    BY <2>1, AppendQueue
  <2>3. CASE over
    BY <1>3, <2>1, <2>3
  <2>4. CASE ~over
    BY <1>3, <2>2, <2>4
  <2> QED BY <2>3, <2>4
<1>5. tokens' = [q \in Requests |-> IF q \in DOMAIN [x \in {r} |-> 1] THEN Append(tokens[q], [x \in {r} |-> 1][q])
                                                               ELSE tokens[q]]
  BY DEF AddCached, Returned
<1>6. /\ tokens' \in [Requests -> Seq(Nat)] /\ tokens'[r] = <<1>>
      /\ \A q \in Requests \ {r} : tokens'[q] = tokens[q]
  <2>1. tokens' = [tokens EXCEPT ![r] = <<1>>]
    <3>1. Append(tokens[r], [x \in {r} |-> 1][r]) = <<1>>
      BY <1>2
    <3> QED BY <1>0, <1>1, <1>5, <3>1 DEF Types
  <2> QED BY <1>0, <2>1 DEF Types
<1>7. /\ ended' \in [Requests -> 0..1]
      /\ ended'[r] = 1 => over
      /\ \A q \in Requests \ {r} : ended'[q] = ended[q]
  <2>1. ended \in [Requests -> 0..1]
    BY <1>0 DEF Types
  <2>2. CASE over
    <3>1. ended' = [q \in Requests |-> IF q \in {r} THEN ended[q] + 1 ELSE ended[q]]
      BY <1>3, <2>2
    <3> QED BY <1>2, <2>1, <2>2, <3>1
  <2>3. CASE ~over
    BY <1>2, <1>3, <2>1, <2>3
  <2> QED BY <2>2, <2>3
<1>8. /\ ids' \in [Requests -> Seq(Nat)] /\ ids'[r] = <<1>>
      /\ \A q \in Requests \ {r} : ids'[q] = ids[q]
  BY <1>0, <1>1 DEF Types
<1>9. Types' /\ Phases'
  <2>1. finished' \subseteq Requests /\ held' \subseteq Requests /\ known' \subseteq Requests
    BY <1>0, <1>1, <1>3 DEF Types
  <2>2. /\ overlap' \in BOOLEAN /\ left' \in [Requests -> 0..MaxChunks]
        /\ prefillRids' \in Seq(Requests) /\ inflight' \in [Requests -> Nat]
        /\ canceled' \subseteq Requests /\ dropped' \subseteq Requests
        /\ decodes' \in Seq(SUBSET EntrySet) /\ prefills' \in Seq(ChunkSet)
    BY <1>0, <1>1 DEF Types
  <2>3. Types'
    BY <1>4, <1>6, <1>7, <1>8, <2>1, <2>2 DEF Types
  <2> QED BY <1>0, <1>1, <2>3 DEF Phases
<1>10. /\ Counted'
       /\ \A q : /\ Flying(q)' <=> Flying(q)
                 /\ LastChunkInFlight(q)' <=> LastChunkInFlight(q)
       /\ \A q \in Requests \ {r} : LastTokenInFlight(q)' <=> LastTokenInFlight(q)
  BY <1>0, <1>1, <1>8, FlightKept
<1>11. Standing'
  BY <1>0, <1>1, <1>2, <1>3, <1>7, <1>8, <1>10 DEF Standing
<1>12. \A i \in DOMAIN decodes : \A x \in decodes[i] : x.rid # r /\ x.rid \in Requests
  BY <1>0, <1>2 DEF Flying, DecodesOf, Types, EntrySet
<1>13. Decodings'
  <2>1. \A p \in DOMAIN ids'[r] : ids'[r][p] # Placeholder
    BY <1>8 DEF Placeholder
  <2>2. UNCHANGED decodes
    BY <1>1
  <2>3. \A q \in Requests : ids'[q] = ids[q] \/ \A p \in DOMAIN ids'[q] : ids'[q][p] # Placeholder
    BY <1>8, <2>1
  <2>4. \A i \in DOMAIN decodes : \A x \in decodes[i] :
            /\ ids'[x.rid] = ids[x.rid]
            /\ x.rid \in finished' \ canceled' => x.rid \in finished \ canceled
    BY <1>1, <1>3, <1>8, <1>12
  <2> QED BY <1>0, <2>2, <2>3, <2>4, DecodingsKept
<1>14. Texts'
  <2> SUFFICES ASSUME NEW q \in Requests
               PROVE  /\ Len(ids'[q]) <= MaxNew
                      /\ q \in known' \ finished' => Len(tokens'[q]) < MaxNew
                      /\ q \notin dropped' =>
                           /\ Len(tokens'[q]) <= Len(ids'[q])
                           /\ \A p \in DOMAIN ids'[q] :
                                ids'[q][p] = Placeholder <=> p > Len(tokens'[q])
    BY DEF Texts
  <2>0. CASE q # r
    <3>1. q \in known' \ finished' => q \in known \ finished
      BY <1>1, <1>3, <2>0
    <3> QED BY <1>0, <1>1, <1>6, <1>8, <2>0, <3>1 DEF Texts
  <2>1. Len(ids'[r]) = 1 /\ Len(tokens'[r]) = 1 /\ DOMAIN ids'[r] = {1} /\ ids'[r][1] = 1
    BY <1>6, <1>8
  <2>2. MaxNew \in Nat \ {0} /\ (MaxNew # 1 => 1 < MaxNew)
    BY ChunkedAssumption
  <2>3. CASE q = r
    <3>1. r \in known' \ finished' => MaxNew # 1
      BY <1>3
    <3>2. \A p \in DOMAIN ids'[r] : ids'[r][p] # Placeholder /\ ~(p > Len(tokens'[r]))
      BY <2>1 DEF Placeholder
    <3>3. Len(ids'[r]) <= MaxNew /\ Len(tokens'[r]) <= Len(ids'[r])
      BY <2>1, <2>2
    <3>4. r \in known' \ finished' => Len(tokens'[r]) < MaxNew
      BY <2>1, <2>2, <3>1
    <3> QED BY <2>3, <3>2, <3>3, <3>4
  <2> QED BY <2>0, <2>3
<1>15. Chunks'
  <2>1. \A q \in Requests : (\E i \in DOMAIN prefills : q \in prefills[i].all) => q # r
    BY <1>2 DEF Flying, ChunksOf
  <2>2. \A i \in DOMAIN prefills : prefills[i].all \subseteq Requests
    BY <1>0, ChunkTypes
  <2>3. UNCHANGED prefills
    BY <1>1
  <2> QED BY <1>0, <1>1, <1>3, <1>8, <2>1, <2>2, <2>3, ChunksKept
<1>16. Places'
  <2>1. ASSUME NEW q \in known' \ finished'
        PROVE  /\ ids'[q] = <<>> => /\ q \notin Range(decodeRids)'
                                    /\ q \in Range(prefillRids)' <=> left'[q] > 0
                                    /\ LastChunkInFlight(q)' <=> left'[q] = 0
               /\ ids'[q] # <<>> => /\ q \notin Range(prefillRids)'
                                    /\ q \in Range(decodeRids)' \/ LastTokenInFlight(q)'
    <3>1. CASE q = r
      <4>1. ids'[r] # <<>> /\ ~over
        BY <1>3, <1>8, <2>1, <3>1
      <4> QED BY <1>1, <1>2, <1>4, <3>1, <4>1
    <3>2. CASE q # r
      <4>1. q \in known \ finished /\ q \in Requests
        BY <1>0, <1>1, <1>3, <3>2 DEF Types
      <4> QED BY <1>0, <1>1, <1>4, <1>8, <1>10, <3>2, <4>1 DEF Places
    <3> QED BY <3>1, <3>2
  <2> QED BY <1>0, <1>1, <1>4, <2>1 DEF Places
<1> QED BY <1>9, <1>10, <1>11, <1>13, <1>14, <1>15, <1>16 DEF IInv

\* A session with a batch in flight is marked and keeps its blocks.
LEMMA DiscardInv == ASSUME IInv, NEW r \in Requests, Discard(r) PROVE IInv'
<1>0. Types /\ Phases /\ Counted /\ Standing /\ Decodings /\ Texts /\ Chunks /\ Places
  BY DEF IInv
<1>1. /\ UNCHANGED <<overlap, left, ids, prefillRids, decodeRids, inflight, decodes, prefills>>
      /\ UNCHANGED <<pc, launched, tokens, ended>>
      /\ r \in known \ canceled /\ dropped' = dropped \cup {r}
  BY DEF Discard, queued
<1>2. \/ /\ ~Flying(r) /\ known' = known \ {r} /\ held' = held \ {r}
         /\ UNCHANGED <<finished, canceled>>
      \/ /\ Flying(r) /\ finished' = finished \cup {r} /\ canceled' = canceled \cup {r}
         /\ UNCHANGED <<known, held>>
  BY <1>0, FlyingCounts DEF Discard, Discards
<1>3. /\ Counted'
      /\ \A q : /\ Flying(q)' <=> Flying(q)
                /\ LastChunkInFlight(q)' <=> LastChunkInFlight(q)
                /\ LastTokenInFlight(q)' <=> LastTokenInFlight(q)
  BY <1>0, <1>1, FlightKept
<1>4. Types' /\ Phases'
  BY <1>0, <1>1, <1>2 DEF Types, Phases
<1>5. Standing'
  BY <1>0, <1>1, <1>2, <1>3 DEF Standing
<1>6. Decodings'
  <2>1. UNCHANGED decodes
    BY <1>1
  <2>2. finished' \ canceled' \subseteq finished \ canceled
    BY <1>2
  <2> QED BY <1>0, <1>1, <2>1, <2>2, DecodingsKept
<1>7. Texts'
  BY <1>0, <1>1, <1>2 DEF Texts
<1>8. Chunks'
  <2>1. \A i \in DOMAIN prefills : prefills[i].all \subseteq Requests
    BY <1>0, ChunkTypes
  <2>2. UNCHANGED prefills
    BY <1>1
  <2> QED BY <1>0, <1>1, <1>2, <2>1, <2>2, ChunksKept
<1>9. Places'
  BY <1>0, <1>1, <1>2, <1>3 DEF Places
<1> QED BY <1>3, <1>4, <1>5, <1>6, <1>7, <1>8, <1>9 DEF IInv

\* Steps that only change the phase and take sessions that are over from the queues.
LEMMA QueuesKept ==
  ASSUME IInv,
         UNCHANGED <<overlap, known, finished, held, left, ids>>,
         UNCHANGED <<inflight, canceled, decodes, prefills, tokens, ended, dropped>>,
         prefillRids' \in Seq(Requests), IsInjective(prefillRids'),
         Range(prefillRids') \subseteq Range(prefillRids),
         \A r \in Range(prefillRids) : Alive(r) => r \in Range(prefillRids'),
         decodeRids' \in Seq(Requests), IsInjective(decodeRids'),
         Range(decodeRids') \subseteq Range(decodeRids),
         \A r \in Range(decodeRids) : Alive(r) => r \in Range(decodeRids'),
         Phases'
  PROVE  IInv'
<1>0. Types /\ Phases /\ Counted /\ Standing /\ Decodings /\ Texts /\ Chunks /\ Places
  BY DEF IInv
<1>1. Types'
  BY <1>0 DEF Types
<1>2. /\ Counted'
      /\ \A q : /\ Flying(q)' <=> Flying(q)
                /\ LastChunkInFlight(q)' <=> LastChunkInFlight(q)
                /\ LastTokenInFlight(q)' <=> LastTokenInFlight(q)
  BY <1>0, FlightKept
<1>3. Standing'
  BY <1>0, <1>2 DEF Standing
<1>4. Decodings'
  BY <1>0 DEF Decodings
<1>5. Texts'
  BY <1>0 DEF Texts
<1>6. Chunks'
  BY <1>0 DEF Chunks
<1>7. Places'
  <2>1. ASSUME NEW q \in known \ finished
        PROVE  /\ q \in Range(prefillRids') <=> q \in Range(prefillRids)
               /\ q \in Range(decodeRids') <=> q \in Range(decodeRids)
    BY DEF Alive
  <2>2. Range(prefillRids') \cup Range(decodeRids') \subseteq known' \cup dropped'
    BY <1>0 DEF Places
  <2>3. ASSUME NEW q \in known' \ finished'
        PROVE  /\ ids'[q] = <<>> => /\ q \notin Range(decodeRids')
                                    /\ q \in Range(prefillRids') <=> left'[q] > 0
                                    /\ LastChunkInFlight(q)' <=> left'[q] = 0
               /\ ids'[q] # <<>> => /\ q \notin Range(prefillRids')
                                    /\ q \in Range(decodeRids') \/ LastTokenInFlight(q)'
    BY <1>0, <1>2, <2>1 DEF Places
  <2> QED BY <2>2, <2>3 DEF Places
<1> QED BY <1>1, <1>2, <1>3, <1>4, <1>5, <1>6, <1>7 DEF IInv

LEMMA PhaseKept ==
  ASSUME IInv, UNCHANGED <<overlap, sessions, queued, pending, caller>>, Phases'
  PROVE  IInv'
<1>1. /\ UNCHANGED <<overlap, known, finished, held, left, ids>>
      /\ UNCHANGED <<inflight, canceled, decodes, prefills, tokens, ended, dropped>>
      /\ UNCHANGED <<prefillRids, decodeRids>>
  BY DEF sessions, queued, pending, caller
<1>2. prefillRids \in Seq(Requests) /\ decodeRids \in Seq(Requests)
      /\ IsInjective(prefillRids) /\ IsInjective(decodeRids)
  BY DEF IInv, Types, Places
<1> QED BY <1>1, <1>2, QueuesKept

\* The call of step, has_unfinished, and a step with nothing to take.
LEMMA StepCallInv == ASSUME IInv, StepCall PROVE IInv'
<1>1. /\ UNCHANGED <<overlap, known, finished, held, left, ids>>
      /\ UNCHANGED <<inflight, canceled, decodes, prefills, tokens, ended, dropped>>
      /\ pc = "idle" /\ pc' = "decode"
  BY DEF StepCall, sessions, pending, caller
<1>2. /\ prefillRids \in Seq(Requests) /\ IsInjective(prefillRids)
      /\ decodeRids \in Seq(Requests) /\ IsInjective(decodeRids)
  BY DEF IInv, Types, Places
<1>3. /\ prefillRids' \in {prefillRids, Trim(prefillRids)}
      /\ decodeRids' \in {decodeRids, Trim(decodeRids)}
  BY DEF StepCall, queued
<1>4. Phases'
  BY <1>1 DEF IInv, Phases
<1>5. /\ prefillRids' \in Seq(Requests) /\ IsInjective(prefillRids')
      /\ Range(prefillRids') \subseteq Range(prefillRids)
      /\ \A r \in Range(prefillRids) : Alive(r) => r \in Range(prefillRids')
  BY <1>2, <1>3, TrimFacts
<1>6. /\ decodeRids' \in Seq(Requests) /\ IsInjective(decodeRids')
      /\ Range(decodeRids') \subseteq Range(decodeRids)
      /\ \A r \in Range(decodeRids) : Alive(r) => r \in Range(decodeRids')
  BY <1>2, <1>3, TrimFacts
<1> QED BY <1>1, <1>4, <1>5, <1>6, QueuesKept

LEMMA AllOverInv == ASSUME IInv, AllOver PROVE IInv'
<1>1. /\ UNCHANGED <<overlap, known, finished, held, left, ids>>
      /\ UNCHANGED <<inflight, canceled, decodes, prefills, tokens, ended, dropped>>
      /\ pc' = pc /\ prefillRids' = Trim(prefillRids) /\ decodeRids' = Trim(decodeRids)
  BY DEF AllOver, HasUnfinished, sessions, pending, caller
<1>2. /\ prefillRids \in Seq(Requests) /\ IsInjective(prefillRids)
      /\ decodeRids \in Seq(Requests) /\ IsInjective(decodeRids)
  BY DEF IInv, Types, Places
<1>4. Phases'
  BY <1>1 DEF IInv, Phases
<1>5. /\ prefillRids' \in Seq(Requests) /\ IsInjective(prefillRids')
      /\ Range(prefillRids') \subseteq Range(prefillRids)
      /\ \A r \in Range(prefillRids) : Alive(r) => r \in Range(prefillRids')
  BY <1>1, <1>2, TrimFacts
<1>6. /\ decodeRids' \in Seq(Requests) /\ IsInjective(decodeRids')
      /\ Range(decodeRids') \subseteq Range(decodeRids)
      /\ \A r \in Range(decodeRids) : Alive(r) => r \in Range(decodeRids')
  BY <1>1, <1>2, TrimFacts
<1> QED BY <1>1, <1>4, <1>5, <1>6, QueuesKept

LEMMA NoDecodeDueInv == ASSUME IInv, NoDecodeDue PROVE IInv'
<1>1. UNCHANGED <<overlap, sessions, queued, pending, caller>>
  BY DEF NoDecodeDue
<1>2. Phases'
  <2>1. /\ UNCHANGED <<overlap, decodes, prefills>>
        /\ pc = "takeDecode" /\ pc' = "takePrefill" /\ ~(Len(decodes) > 1)
    BY DEF NoDecodeDue, pending, DecodesDue
  <2>2. Len(decodes) \in Nat
    BY DEF IInv, Types
  <2> QED BY <2>1, <2>2 DEF IInv, Phases
<1> QED BY <1>1, <1>2, PhaseKept

LEMMA NoPrefillDueInv == ASSUME IInv, NoPrefillDue PROVE IInv'
<1>1. UNCHANGED <<overlap, sessions, queued, pending, caller>>
  BY DEF NoPrefillDue
<1>2. Phases'
  <2>1. /\ UNCHANGED <<overlap, decodes, prefills>>
        /\ pc = "takePrefill" /\ pc' = "idle" /\ ~(Len(prefills) > 1)
    BY DEF NoPrefillDue, pending, PrefillsDue
  <2>2. Len(prefills) \in Nat
    BY DEF IInv, Types
  <2> QED BY <2>1, <2>2 DEF IInv, Phases
<1> QED BY <1>1, <1>2, PhaseKept

-----------------------------------------------------------------------------

\* Without overlap nothing is in flight between two phases.
LEMMA NothingFlies ==
  ASSUME IInv, ~overlap
  PROVE  /\ decodes = <<>> /\ prefills = <<>>
         /\ \A r \in Requests : /\ ~Flying(r) /\ ~LastChunkInFlight(r) /\ ~LastTokenInFlight(r)
                                /\ Committed(r) = Len(ids[r])
                                /\ r \notin dropped => Len(tokens[r]) = Len(ids[r])
<1>0. Types /\ Phases /\ Decodings /\ Texts
  BY DEF IInv
<1>1. decodes = <<>> /\ prefills = <<>>
  BY <1>0 DEF Phases
<1>2. DOMAIN decodes = {} /\ DOMAIN prefills = {}
  BY <1>1
<1>3. ASSUME NEW r \in Requests
      PROVE  /\ ~Flying(r) /\ ~LastChunkInFlight(r) /\ ~LastTokenInFlight(r)
             /\ Committed(r) = Len(ids[r])
             /\ r \notin dropped => Len(tokens[r]) = Len(ids[r])
  <2>1. ~Flying(r) /\ ~LastChunkInFlight(r) /\ ~LastTokenInFlight(r)
    BY <1>2 DEF Flying, DecodesOf, ChunksOf, LastChunkInFlight, LastTokenInFlight
  <2>2. \A p \in DOMAIN ids[r] : ids[r][p] # Placeholder
    BY <1>0, <1>2 DEF Decodings
  <2>3. PICK n \in Nat : n = Len(ids[r]) /\ DOMAIN ids[r] = 1..n
    BY <1>0 DEF Types
  <2>4. Cardinality(1..n) = n
    <3>1. 1 \in Int /\ n \in Int /\ Cardinality(1..n) = IF 1 > n THEN 0 ELSE n - 1 + 1
      BY FS_Interval
    <3> QED BY <3>1
  <2>5. Committed(r) = n
    <3>1. {i \in DOMAIN ids[r] : ids[r][i] # Placeholder} = 1..n
      BY <2>2, <2>3
    <3> QED BY <2>4, <3>1 DEF Committed
  <2>6. ASSUME r \notin dropped PROVE Len(tokens[r]) = n
    <3>0. /\ Len(tokens[r]) <= Len(ids[r])
          /\ \A p \in DOMAIN ids[r] : ids[r][p] = Placeholder <=> p > Len(tokens[r])
      BY <1>0, <2>6 DEF Texts
    <3>1. /\ Len(tokens[r]) <= n /\ Len(tokens[r]) \in Nat
          /\ \A p \in 1..n : ~(p > Len(tokens[r]))
      <4>1. tokens[r] \in Seq(Nat)
        BY <1>0 DEF Types
      <4> QED BY <2>2, <2>3, <3>0, <4>1
    <3>2. n = 0 \/ n \in 1..n
      BY <2>3
    <3> QED BY <3>1, <3>2
  <2> QED BY <2>1, <2>3, <2>5, <2>6
<1> QED BY <1>1, <1>3

\* A step without overlap gives a token each to sessions that are not over.
LEMMA GetsKept ==
  ASSUME IInv, ~overlap, NEW S, S \subseteq known \ finished, NEW eos, eos \subseteq S,
         NEW fin, fin = LastOf(S, eos), Gets(S, fin), left' \in [Requests -> 0..MaxChunks],
         UNCHANGED <<overlap, known, dropped, inflight, canceled, decodes, prefills>>
  PROVE  /\ fin \subseteq S /\ finished' = finished \cup fin
         /\ ids' \in [Requests -> Seq(Nat)] /\ tokens' \in [Requests -> Seq(Nat)]
         /\ ended' \in [Requests -> 0..1] /\ finished' \subseteq Requests /\ held' \subseteq Requests
         /\ \A r \in S : ids'[r] # <<>>
         /\ \A r \in Requests \ S : ids'[r] = ids[r]
         /\ Counted' /\ Standing' /\ Decodings' /\ Texts' /\ Chunks'
         /\ \A r \in Requests : ~LastChunkInFlight(r)' /\ ~LastTokenInFlight(r)'
<1>0. Types /\ Counted /\ Standing /\ Decodings /\ Texts /\ Chunks
  BY DEF IInv
<1>1. /\ finished' = finished \cup fin /\ held' = held \ fin
      /\ ids' = [r \in Requests |-> IF r \in S THEN Append(ids[r], Len(ids[r]) + 1) ELSE ids[r]]
      /\ ended' = [r \in Requests |-> IF r \in fin THEN ended[r] + 1 ELSE ended[r]]
      /\ tokens' = [r \in Requests |-> IF r \in S THEN Append(tokens[r], Len(ids[r]) + 1)
                                                  ELSE tokens[r]]
  BY DEF Gets, Reported, Returned
<1>2. /\ fin \subseteq S /\ S \subseteq Requests
      /\ \A r \in S : r \notin fin => ~(Committed(r) + 1 >= MaxNew)
  BY <1>0 DEF LastOf, Types
<1>3. /\ decodes = <<>> /\ prefills = <<>>
      /\ \A r \in Requests : /\ ~Flying(r) /\ ~LastChunkInFlight(r) /\ ~LastTokenInFlight(r)
                             /\ Committed(r) = Len(ids[r])
                             /\ r \notin dropped => Len(tokens[r]) = Len(ids[r])
  BY NothingFlies
<1>4. DOMAIN decodes' = {} /\ DOMAIN prefills' = {}
  BY <1>3
<1>5. \A r \in S : r \in held /\ r \notin finished /\ r \notin dropped /\ ended[r] = 0
  BY <1>0, <1>2 DEF Standing, Types
<1>6. \A r \in Requests : ~Flying(r)' /\ ~LastChunkInFlight(r)' /\ ~LastTokenInFlight(r)'
  BY <1>4 DEF Flying, DecodesOf, ChunksOf, LastChunkInFlight, LastTokenInFlight
<1>7. ASSUME NEW r \in S
      PROVE  /\ ids'[r] \in Seq(Nat) /\ Len(ids'[r]) = Len(ids[r]) + 1
             /\ DOMAIN ids'[r] = 1..(Len(ids[r]) + 1) /\ Len(ids[r]) \in Nat
             /\ \A p \in DOMAIN ids'[r] : ids'[r][p] # Placeholder
             /\ tokens'[r] \in Seq(Nat) /\ Len(tokens'[r]) = Len(ids[r]) + 1
             /\ ids'[r] # <<>>
  <2>1. PICK q \in Seq(Nat), n \in Nat : q = ids[r] /\ n = Len(q)
    BY <1>0, <1>2 DEF Types
  <2>2. PICK z : z = Append(q, n + 1)
    OBVIOUS
  <2>3. /\ z \in Seq(Nat) /\ Len(z) = n + 1 /\ DOMAIN z = DOMAIN q \cup {n + 1}
        /\ z[n + 1] = n + 1 /\ \A i \in DOMAIN q : z[i] = q[i]
    BY <2>1, <2>2, AppendFacts
  <2>4. DOMAIN z = 1..(n + 1) /\ z # <<>>
    BY <2>1, <2>3
  <2>5. ids'[r] = z
    BY <1>1, <1>2, <2>1, <2>2
  <2>6. \A p \in DOMAIN q : q[p] # Placeholder
    BY <1>0, <1>2, <1>3, <2>1 DEF Decodings
  <2>7. \A p \in DOMAIN z : z[p] # Placeholder
    BY <2>1, <2>3, <2>6 DEF Placeholder
  <2>8. tokens'[r] = Append(tokens[r], n + 1) /\ tokens[r] \in Seq(Nat) /\ Len(tokens[r]) = n
    BY <1>0, <1>1, <1>2, <1>3, <1>5, <2>1 DEF Types
  <2>9. tokens'[r] \in Seq(Nat) /\ Len(tokens'[r]) = n + 1
    <3>1. n + 1 \in Nat
      OBVIOUS
    <3> QED BY <2>8, <3>1, AppendFacts
  <2> QED BY <2>1, <2>3, <2>4, <2>5, <2>7, <2>9
<1>8. \A r \in Requests \ S : ids'[r] = ids[r] /\ tokens'[r] = tokens[r]
  BY <1>1
<1>9. ids' \in [Requests -> Seq(Nat)]
  <2>1. \A r \in Requests : ids'[r] \in Seq(Nat)
    BY <1>0, <1>7, <1>8 DEF Types
  <2> QED BY <1>1, <2>1
<1>10. tokens' \in [Requests -> Seq(Nat)]
  <2>1. \A r \in Requests : tokens'[r] \in Seq(Nat)
    BY <1>0, <1>7, <1>8 DEF Types
  <2> QED BY <1>1, <2>1
<1>11. ended' \in [Requests -> 0..1]
  <2>1. \A r \in Requests : ended'[r] \in 0..1
    BY <1>0, <1>1, <1>2, <1>5 DEF Types
  <2> QED BY <1>1, <2>1
<1>12. finished' \subseteq Requests /\ held' \subseteq Requests
  BY <1>0, <1>1, <1>2 DEF Types
<1>13. Counted'
  BY <1>0, FlightKept
<1>14. Standing'
  <2>1. /\ held' \subseteq known' /\ known' \ finished' \subseteq held'
        /\ known' \cap dropped' = canceled' /\ canceled' \subseteq finished'
        /\ finished' \subseteq known' \cup dropped'
    BY <1>0, <1>1, <1>2 DEF Standing
  <2>2. ASSUME NEW r \in Requests
        PROVE  /\ ended'[r] = 1 => r \in finished'
               /\ ids'[r] # <<>> => r \in known' \cup dropped'
    <3>1. CASE r \in S
      BY <1>0, <1>1, <1>2, <1>5, <3>1 DEF Standing
    <3>2. CASE r \notin S
      BY <1>0, <1>1, <1>2, <1>8, <3>2 DEF Standing
    <3> QED BY <3>1, <3>2
  <2> QED BY <1>6, <2>1, <2>2 DEF Standing
<1>15. Decodings'
  <2>1. \A r \in Requests : \A p \in DOMAIN ids'[r] : ids'[r][p] # Placeholder
    BY <1>0, <1>3, <1>7, <1>8 DEF Decodings
  <2> QED BY <1>4, <2>1 DEF Decodings
<1>16. Texts'
  <2> SUFFICES ASSUME NEW q \in Requests
               PROVE  /\ Len(ids'[q]) <= MaxNew
                      /\ q \in known' \ finished' => Len(tokens'[q]) < MaxNew
                      /\ q \notin dropped' =>
                           /\ Len(tokens'[q]) <= Len(ids'[q])
                           /\ \A p \in DOMAIN ids'[q] :
                                ids'[q][p] = Placeholder <=> p > Len(tokens'[q])
    BY DEF Texts
  <2>1. CASE q \notin S
    BY <1>0, <1>1, <1>8, <2>1 DEF Texts
  <2>2. CASE q \in S
    <3>1. Len(ids[q]) < MaxNew /\ MaxNew \in Nat
      <4>1. Len(tokens[q]) < MaxNew /\ q \notin dropped /\ q \in Requests
        BY <1>0, <1>2, <1>5, <2>2 DEF Texts
      <4> QED BY <1>3, <4>1, ChunkedAssumption
    <3>2. q \notin finished' => ~(Len(ids[q]) + 1 >= MaxNew)
      BY <1>1, <1>2, <1>3, <2>2
    <3>3. PICK n \in Nat : n = Len(ids[q])
      BY <1>7, <2>2
    <3>4. /\ Len(ids'[q]) = n + 1 /\ Len(tokens'[q]) = n + 1 /\ DOMAIN ids'[q] = 1..(n + 1)
          /\ \A p \in DOMAIN ids'[q] : ids'[q][p] # Placeholder
      BY <1>7, <2>2, <3>3
    <3> QED BY <3>1, <3>2, <3>3, <3>4
  <2> QED BY <2>1, <2>2
<1>17. Chunks'
  BY <1>4 DEF Chunks
<1> QED BY <1>1, <1>2, <1>6, <1>7, <1>8, <1>9, <1>10, <1>11, <1>12, <1>13, <1>14, <1>15, <1>16, <1>17

\* The batches of decodes and of chunks are those of the queues that may go on.
LEMMA DecodeBatchFacts ==
  ASSUME IInv
  PROVE  /\ DecodeBatch \in Seq(Requests) /\ IsInjective(DecodeBatch)
         /\ DecodeRest \in Seq(Requests) /\ IsInjective(DecodeRest)
         /\ Range(DecodeBatch) \subseteq Range(decodeRids) \cap ToDecode
         /\ Range(DecodeRest) \subseteq Range(decodeRids)
         /\ Range(DecodeBatch) \cap Range(DecodeRest) = {}
         /\ Range(decodeRids) \cap ToDecode \subseteq Range(DecodeBatch) \cup Range(DecodeRest)
<1>1. decodeRids \in Seq(Requests) /\ IsInjective(decodeRids) /\ MaxBatch \in Nat
  BY ChunkedAssumption DEF IInv, Types, Places
<1> QED BY <1>1, SelectedFacts DEF DecodeBatch, DecodeRest

LEMMA ChunkBatchFacts ==
  ASSUME IInv
  PROVE  /\ ChunkBatch \in Seq(Requests) /\ IsInjective(ChunkBatch)
         /\ ChunkRest \in Seq(Requests) /\ IsInjective(ChunkRest)
         /\ Range(ChunkBatch) \subseteq Range(prefillRids) \cap ToPrefill
         /\ Range(ChunkRest) \subseteq Range(prefillRids)
         /\ Range(ChunkBatch) \cap Range(ChunkRest) = {}
         /\ Range(prefillRids) \cap ToPrefill \subseteq Range(ChunkBatch) \cup Range(ChunkRest)
         /\ UnfinishedOnes \in Seq(Requests) /\ IsInjective(UnfinishedOnes)
         /\ Range(UnfinishedOnes) = {r \in Range(ChunkBatch) : left[r] > 1}
         /\ ReadyOnes \in Seq(Requests) /\ IsInjective(ReadyOnes)
         /\ Range(ReadyOnes) = {r \in Range(ChunkBatch) : left[r] = 1}
         /\ ChunkRest \o UnfinishedOnes \in Seq(Requests) /\ IsInjective(ChunkRest \o UnfinishedOnes)
         /\ Range(ChunkRest \o UnfinishedOnes) = Range(ChunkRest) \cup {r \in Range(ChunkBatch) : left[r] > 1}
<1>1. prefillRids \in Seq(Requests) /\ IsInjective(prefillRids) /\ MaxPrefill \in Nat
  BY ChunkedAssumption DEF IInv, Types, Places
<1>2. /\ ChunkBatch \in Seq(Requests) /\ IsInjective(ChunkBatch)
      /\ ChunkRest \in Seq(Requests) /\ IsInjective(ChunkRest)
      /\ Range(ChunkBatch) \subseteq Range(prefillRids) \cap ToPrefill
      /\ Range(ChunkRest) \subseteq Range(prefillRids)
      /\ Range(ChunkBatch) \cap Range(ChunkRest) = {}
      /\ Range(prefillRids) \cap ToPrefill \subseteq Range(ChunkBatch) \cup Range(ChunkRest)
  BY <1>1, SelectedFacts DEF ChunkBatch, ChunkRest
<1>3. Range(ChunkBatch) \subseteq Requests
  BY <1>2, SeqFacts
<1>4. /\ UnfinishedOnes \in Seq(Requests) /\ IsInjective(UnfinishedOnes)
      /\ Range(UnfinishedOnes) = {r \in Range(ChunkBatch) : left[r] > 1}
  <2>1. Range(ChunkBatch) \cap {r \in Requests : Unfinished(r)} = {r \in Range(ChunkBatch) : left[r] > 1}
    BY <1>3 DEF Unfinished
  <2> QED BY <1>2, <2>1, AmongFacts DEF UnfinishedOnes
<1>5. /\ ReadyOnes \in Seq(Requests) /\ IsInjective(ReadyOnes)
      /\ Range(ReadyOnes) = {r \in Range(ChunkBatch) : left[r] = 1}
  <2>1. Range(ChunkBatch) \cap {r \in Requests : Ready(r)} = {r \in Range(ChunkBatch) : left[r] = 1}
    BY <1>3 DEF Ready
  <2> QED BY <1>2, <2>1, AmongFacts DEF ReadyOnes
<1>6. Range(ChunkRest) \cap Range(UnfinishedOnes) = {}
  BY <1>2, <1>4
<1>7. /\ ChunkRest \o UnfinishedOnes \in Seq(Requests) /\ IsInjective(ChunkRest \o UnfinishedOnes)
      /\ Range(ChunkRest \o UnfinishedOnes) = Range(ChunkRest) \cup Range(UnfinishedOnes)
  BY <1>2, <1>4, <1>6, ConcatQueue
<1> QED BY <1>2, <1>4, <1>5, <1>7

\* What is left of the prompts after the chunks of a batch.
LEMMA GivenFacts ==
  ASSUME IInv, GivenChunks
  PROVE  /\ left' \in [Requests -> 0..MaxChunks]
         /\ \A r \in Range(ChunkBatch) : left[r] \in Nat \ {0} /\ left'[r] = left[r] - 1
                                         /\ r \in known \ finished /\ r \in Requests /\ ids[r] = <<>>
                                         /\ r \in Range(prefillRids)
         /\ \A r \in Requests \ Range(ChunkBatch) : left'[r] = left[r]
<1>1. left' = [r \in Requests |-> IF r \in Range(ChunkBatch) THEN left[r] - 1 ELSE left[r]]
  BY DEF GivenChunks
<1>2. left \in [Requests -> 0..MaxChunks] /\ MaxChunks \in Nat
  BY ChunkedAssumption DEF IInv, Types
<1>3. \A r \in Range(ChunkBatch) : /\ r \in Requests /\ r \in known \ finished /\ left[r] > 0
                                   /\ r \in Range(prefillRids)
  BY ChunkBatchFacts DEF ToPrefill, Prefillable, Alive
<1>4. \A r \in Range(ChunkBatch) : ids[r] = <<>>
  BY <1>3 DEF IInv, Places
<1>5. \A r \in Range(ChunkBatch) : left[r] \in Nat \ {0} /\ left[r] - 1 \in 0..MaxChunks
  BY <1>2, <1>3
<1>6. left' \in [Requests -> 0..MaxChunks]
  BY <1>1, <1>2, <1>5
<1> QED BY <1>1, <1>3, <1>4, <1>5, <1>6

\* A step without overlap.
LEMMA SyncDecodeInv == ASSUME IInv, SyncDecode PROVE IInv'
<1>0. Types /\ Phases /\ Counted /\ Standing /\ Decodings /\ Texts /\ Chunks /\ Places
  BY DEF IInv
<1>1. /\ UNCHANGED <<overlap, known, left, prefillRids, dropped>>
      /\ UNCHANGED <<inflight, canceled, decodes, prefills>>
      /\ ~overlap /\ pc' = "prefill"
  BY DEF SyncDecode, pending
<1>2. PICK S : S = Range(DecodeBatch)
  OBVIOUS
<1>3. PICK eos \in SUBSET S : /\ Gets(S, LastOf(S, eos))
                              /\ decodeRids' = DecodeRest \o Among(DecodeBatch, Requests \ LastOf(S, eos))
  BY <1>2 DEF SyncDecode
<1>4. PICK fin : fin = LastOf(S, eos)
  OBVIOUS
<1>5. /\ DecodeBatch \in Seq(Requests) /\ IsInjective(DecodeBatch)
      /\ DecodeRest \in Seq(Requests) /\ IsInjective(DecodeRest)
      /\ S \subseteq Range(decodeRids) \cap ToDecode
      /\ Range(DecodeRest) \subseteq Range(decodeRids)
      /\ S \cap Range(DecodeRest) = {}
      /\ Range(decodeRids) \cap ToDecode \subseteq S \cup Range(DecodeRest)
  BY <1>2, DecodeBatchFacts
<1>6. /\ S \subseteq known \ finished /\ S \subseteq Requests
      /\ \A r \in S : ids[r] # <<>>
      /\ \A r \in Requests : r \in known \ finished /\ ids[r] # <<>> => r \in ToDecode
  BY <1>1, <1>5 DEF ToDecode, Decodable, Alive
<1>7. /\ fin \subseteq S /\ finished' = finished \cup fin
      /\ ids' \in [Requests -> Seq(Nat)] /\ tokens' \in [Requests -> Seq(Nat)]
      /\ ended' \in [Requests -> 0..1] /\ finished' \subseteq Requests /\ held' \subseteq Requests
      /\ \A r \in S : ids'[r] # <<>>
      /\ \A r \in Requests \ S : ids'[r] = ids[r]
      /\ Counted' /\ Standing' /\ Decodings' /\ Texts' /\ Chunks'
      /\ \A r \in Requests : ~LastChunkInFlight(r)' /\ ~LastTokenInFlight(r)'
  <2>1. left' \in [Requests -> 0..MaxChunks]
    BY <1>0, <1>1 DEF Types
  <2>2. UNCHANGED <<overlap, known, dropped, inflight, canceled, decodes, prefills>>
    BY <1>1
  <2>3. eos \subseteq S /\ Gets(S, fin) /\ S \subseteq known \ finished
    BY <1>3, <1>4, <1>6
  <2>4. ~overlap
    BY <1>1
  <2>5. fin = LastOf(S, eos)
    BY <1>4
  <2> QED BY ONLY ZenonT(60), IInv, <2>4, <2>5, <2>1, <2>2, <2>3, GetsKept
<1>8. PICK t : t = Among(DecodeBatch, Requests \ fin)
  OBVIOUS
<1>9. t \in Seq(Requests) /\ IsInjective(t) /\ Range(t) = S \ fin
  <2>1. t \in Seq(Requests) /\ IsInjective(t) /\ Range(t) = Range(DecodeBatch) \cap (Requests \ fin)
    BY <1>5, <1>8, AmongFacts
  <2> QED BY <1>2, <1>6, <2>1
<1>10. /\ decodeRids' \in Seq(Requests) /\ IsInjective(decodeRids')
       /\ Range(decodeRids') = Range(DecodeRest) \cup (S \ fin)
  <2>1. Range(DecodeRest) \cap Range(t) = {} /\ decodeRids' = DecodeRest \o t
    BY <1>3, <1>4, <1>5, <1>8, <1>9
  <2> QED BY <1>5, <1>9, <2>1, ConcatQueue
<1>11. Types'
  BY <1>0, <1>1, <1>7, <1>10 DEF Types
<1>12. Phases'
  <2>1. decodes = <<>> /\ prefills = <<>>
    BY <1>1, NothingFlies
  <2> QED BY <1>0, <1>1, <2>1 DEF Phases
<1>13. Places'
  <2>1. ASSUME NEW q \in known' \ finished'
        PROVE  /\ ids'[q] = <<>> => /\ q \notin Range(decodeRids')
                                    /\ q \in Range(prefillRids') <=> left'[q] > 0
                                    /\ LastChunkInFlight(q)' <=> left'[q] = 0
               /\ ids'[q] # <<>> => /\ q \notin Range(prefillRids')
                                    /\ q \in Range(decodeRids') \/ LastTokenInFlight(q)'
    <3>1. q \in Requests /\ q \in known \ finished /\ q \notin fin
      BY <1>0, <1>1, <1>7 DEF Types
    <3>2. ~LastChunkInFlight(q) /\ ~LastTokenInFlight(q)
      BY <1>1, <3>1, NothingFlies
    <3>3. CASE q \in S
      <4>1. ids[q] # <<>> /\ q \notin Range(prefillRids) /\ q \in Range(decodeRids')
        BY <1>0, <1>6, <1>10, <3>1, <3>3 DEF Places
      <4> QED BY <1>1, <1>7, <3>1, <3>3, <4>1
    <3>4. CASE q \notin S
      <4>1. ids'[q] = ids[q]
        BY <1>7, <3>1, <3>4
      <4>2. q \in Range(decodeRids') <=> q \in Range(DecodeRest)
        BY <1>10, <3>4
      <4>3. CASE ids[q] = <<>>
        BY <1>0, <1>1, <1>5, <1>7, <3>1, <3>2, <4>1, <4>2, <4>3 DEF Places
      <4>4. CASE ids[q] # <<>>
        <5>1. q \in Range(decodeRids) /\ q \notin Range(prefillRids)
          BY <1>0, <3>1, <3>2, <4>4 DEF Places
        <5>2. q \in Range(DecodeRest)
          BY <1>5, <1>6, <3>1, <3>4, <4>4, <5>1
        <5> QED BY <1>1, <4>1, <4>2, <4>4, <5>1, <5>2
      <4> QED BY <4>3, <4>4
    <3> QED BY <3>3, <3>4
  <2>2. Range(prefillRids') \cup Range(decodeRids') \subseteq known' \cup dropped'
    BY <1>0, <1>1, <1>5, <1>10 DEF Places
  <2>3. IsInjective(prefillRids') /\ IsInjective(decodeRids')
    BY <1>0, <1>1, <1>10 DEF Places
  <2> QED BY <2>1, <2>2, <2>3 DEF Places
<1> QED BY <1>7, <1>11, <1>12, <1>13 DEF IInv

LEMMA SyncPrefillInv == ASSUME IInv, SyncPrefill PROVE IInv'
<1>0. Types /\ Phases /\ Counted /\ Standing /\ Decodings /\ Texts /\ Chunks /\ Places
  BY DEF IInv
<1>1. /\ UNCHANGED <<overlap, known, dropped>>
      /\ UNCHANGED <<inflight, canceled, decodes, prefills>>
      /\ ~overlap /\ pc' = "idle" /\ GivenChunks /\ prefillRids' = ChunkRest \o UnfinishedOnes
  BY DEF SyncPrefill, pending
<1>2. PICK S, B : S = Range(ReadyOnes) /\ B = Range(ChunkBatch)
  OBVIOUS
<1>3. PICK eos \in SUBSET S : /\ Gets(S, LastOf(S, eos))
                              /\ decodeRids' = decodeRids \o Among(ReadyOnes, Requests \ LastOf(S, eos))
  BY <1>2 DEF SyncPrefill
<1>4. PICK fin : fin = LastOf(S, eos)
  OBVIOUS
<1>5. /\ ReadyOnes \in Seq(Requests) /\ IsInjective(ReadyOnes)
      /\ S = {r \in B : left[r] = 1}
      /\ B \subseteq Range(prefillRids) \cap ToPrefill
      /\ Range(ChunkRest) \subseteq Range(prefillRids) /\ B \cap Range(ChunkRest) = {}
      /\ Range(prefillRids) \cap ToPrefill \subseteq B \cup Range(ChunkRest)
      /\ prefillRids' \in Seq(Requests) /\ IsInjective(prefillRids')
      /\ Range(prefillRids') = Range(ChunkRest) \cup {r \in B : left[r] > 1}
  BY <1>1, <1>2, ChunkBatchFacts
<1>6. /\ left' \in [Requests -> 0..MaxChunks]
      /\ \A r \in B : /\ left[r] \in Nat \ {0} /\ left'[r] = left[r] - 1
                      /\ r \in known \ finished /\ r \in Requests /\ ids[r] = <<>>
                      /\ r \in Range(prefillRids)
      /\ \A r \in Requests \ B : left'[r] = left[r]
  BY <1>1, <1>2, GivenFacts
<1>7. /\ fin \subseteq S /\ finished' = finished \cup fin
      /\ ids' \in [Requests -> Seq(Nat)] /\ tokens' \in [Requests -> Seq(Nat)]
      /\ ended' \in [Requests -> 0..1] /\ finished' \subseteq Requests /\ held' \subseteq Requests
      /\ \A r \in S : ids'[r] # <<>>
      /\ \A r \in Requests \ S : ids'[r] = ids[r]
      /\ Counted' /\ Standing' /\ Decodings' /\ Texts' /\ Chunks'
      /\ \A r \in Requests : ~LastChunkInFlight(r)' /\ ~LastTokenInFlight(r)'
  <2>1. left' \in [Requests -> 0..MaxChunks]
    BY <1>6
  <2>2. UNCHANGED <<overlap, known, dropped, inflight, canceled, decodes, prefills>>
    BY <1>1
  <2>3. eos \subseteq S /\ Gets(S, fin) /\ S \subseteq known \ finished
    BY <1>3, <1>4, <1>5, <1>6
  <2> QED BY ONLY IInv, <1>1, <1>4, <2>1, <2>2, <2>3, GetsKept
<1>8. PICK t : t = Among(ReadyOnes, Requests \ fin)
  OBVIOUS
<1>9. t \in Seq(Requests) /\ IsInjective(t) /\ Range(t) = S \ fin
  <2>1. t \in Seq(Requests) /\ IsInjective(t) /\ Range(t) = Range(ReadyOnes) \cap (Requests \ fin)
    BY <1>5, <1>8, AmongFacts
  <2> QED BY <1>2, <1>5, <1>6, <2>1
<1>10. /\ decodeRids' \in Seq(Requests) /\ IsInjective(decodeRids')
       /\ Range(decodeRids') = Range(decodeRids) \cup (S \ fin)
  <2>1. \A r \in S : r \notin Range(decodeRids)
    BY <1>0, <1>5, <1>6 DEF Places
  <2>2. Range(decodeRids) \cap Range(t) = {} /\ decodeRids' = decodeRids \o t
    BY <1>3, <1>4, <1>8, <1>9, <2>1
  <2>3. decodeRids \in Seq(Requests) /\ IsInjective(decodeRids)
    BY <1>0 DEF Types, Places
  <2> QED BY <1>9, <2>2, <2>3, ConcatQueue
<1>11. Types'
  BY <1>0, <1>1, <1>5, <1>6, <1>7, <1>10 DEF Types
<1>12. Phases'
  <2>1. decodes = <<>> /\ prefills = <<>>
    BY <1>1, NothingFlies
  <2> QED BY <1>0, <1>1, <2>1 DEF Phases
<1>13. Places'
  <2>1. ASSUME NEW q \in known' \ finished'
        PROVE  /\ ids'[q] = <<>> => /\ q \notin Range(decodeRids')
                                    /\ q \in Range(prefillRids') <=> left'[q] > 0
                                    /\ LastChunkInFlight(q)' <=> left'[q] = 0
               /\ ids'[q] # <<>> => /\ q \notin Range(prefillRids')
                                    /\ q \in Range(decodeRids') \/ LastTokenInFlight(q)'
    <3>1. q \in Requests /\ q \in known \ finished /\ q \notin fin
      BY <1>0, <1>1, <1>7 DEF Types
    <3>2. ~LastChunkInFlight(q) /\ ~LastTokenInFlight(q)
      BY <1>1, <3>1, NothingFlies
    <3>3. CASE q \in S
      <4>1. left[q] = 1 /\ q \in B
        BY <1>5, <3>3
      <4>2. q \notin Range(prefillRids')
        BY <1>5, <4>1
      <4> QED BY <1>7, <1>10, <3>1, <3>3, <4>2
    <3>4. CASE q \in B /\ q \notin S
      <4>0. left[q] \in Nat \ {0} /\ left[q] # 1 /\ left'[q] = left[q] - 1 /\ ids[q] = <<>>
        BY <1>5, <1>6, <3>4
      <4>1. left[q] \in Nat /\ left[q] > 1 /\ left'[q] = left[q] - 1 /\ ids'[q] = <<>>
        <5>1. q \in Requests \ S
          BY <3>1, <3>4
        <5>2. ids'[q] = ids[q]
          BY <1>7, <5>1
        <5> QED BY <4>0, <5>2
      <4>2. q \notin Range(decodeRids) /\ q \notin Range(decodeRids')
        BY <1>0, <1>6, <1>10, <3>1, <3>4 DEF Places
      <4>3. q \in Range(prefillRids') /\ left'[q] > 0 /\ left'[q] # 0
        BY <1>5, <3>4, <4>1
      <4> QED BY <1>7, <3>1, <4>1, <4>2, <4>3
    <3>5. CASE q \notin B
      <4>1. left'[q] = left[q] /\ ids'[q] = ids[q] /\ q \notin S
        BY <1>5, <1>6, <1>7, <3>1, <3>5
      <4>2. q \in Range(decodeRids') <=> q \in Range(decodeRids)
        BY <1>10, <4>1
      <4>3. CASE ids[q] = <<>>
        <5>1. /\ q \notin Range(decodeRids) /\ q \in Range(prefillRids) <=> left[q] > 0
              /\ left[q] # 0
          BY <1>0, <3>1, <3>2, <4>3 DEF Places
        <5>2. left[q] \in Nat
          BY <1>0, <3>1, ChunkedAssumption DEF Types
        <5>3. q \in Range(prefillRids) /\ left[q] > 0
          BY <5>1, <5>2
        <5>4. q \in Range(ChunkRest)
          BY <1>5, <3>1, <3>5, <5>3 DEF ToPrefill, Prefillable, Alive
        <5> QED BY <1>5, <1>7, <3>1, <4>1, <4>2, <4>3, <5>1, <5>3, <5>4
      <4>4. CASE ids[q] # <<>>
        <5>1. q \in Range(decodeRids) /\ q \notin Range(prefillRids)
          BY <1>0, <3>1, <3>2, <4>4 DEF Places
        <5>2. q \notin Range(prefillRids')
          BY <1>5, <5>1, <3>5
        <5> QED BY <4>1, <4>2, <4>4, <5>1, <5>2
      <4> QED BY <4>3, <4>4
    <3> QED BY <3>3, <3>4, <3>5
  <2>2. Range(prefillRids') \cup Range(decodeRids') \subseteq known' \cup dropped'
    BY <1>0, <1>1, <1>5, <1>6, <1>10 DEF Places
  <2>3. IsInjective(prefillRids') /\ IsInjective(decodeRids')
    BY <1>5, <1>10
  <2> QED BY <2>1, <2>2, <2>3 DEF Places
<1> QED BY <1>7, <1>11, <1>12, <1>13 DEF IInv

-----------------------------------------------------------------------------

\* A launch appends a placeholder for each of the batch, which is below
\* max_new_tokens and goes to the end of the queue.
LEMMA LaunchDecodeInv == ASSUME IInv, LaunchDecode PROVE IInv'
<1>0. Types /\ Phases /\ Counted /\ Standing /\ Decodings /\ Texts /\ Chunks /\ Places
  BY DEF IInv
<1> DEFINE B == Range(DecodeBatch)
           E == {[rid |-> r, pos |-> Pos(r)] : r \in B}
<1>1. /\ UNCHANGED <<overlap, known, finished, held, left, prefillRids, canceled, prefills>>
      /\ UNCHANGED <<tokens, ended, dropped>>
      /\ overlap /\ pc = "decode" /\ pc' = "prefill"
      /\ decodeRids' = DecodeRest \o DecodeBatch
      /\ decodes' = IF DecodeBatch = <<>> THEN decodes ELSE Append(decodes, E)
      /\ ids' = [r \in Requests |-> IF r \in B THEN Append(ids[r], Placeholder) ELSE ids[r]]
      /\ inflight' = [r \in Requests |-> IF r \in B THEN inflight[r] + 1 ELSE inflight[r]]
  BY DEF LaunchDecode, Launched, caller
<1>2. /\ DecodeBatch \in Seq(Requests) /\ IsInjective(DecodeBatch)
      /\ DecodeRest \in Seq(Requests) /\ IsInjective(DecodeRest)
      /\ B \subseteq Range(decodeRids) \cap ToDecode
      /\ Range(DecodeRest) \subseteq Range(decodeRids)
      /\ B \cap Range(DecodeRest) = {}
      /\ Range(decodeRids) \cap ToDecode \subseteq B \cup Range(DecodeRest)
  BY DecodeBatchFacts
<1>3. ASSUME NEW r \in B
      PROVE  /\ r \in Requests /\ r \in known \ finished /\ ids[r] # <<>> /\ Len(ids[r]) < MaxNew
             /\ r \in held /\ r \notin dropped
  <2>1. r \in Requests /\ r \in known \ finished /\ ids[r] # <<>> /\ Len(ids[r]) < MaxNew
    BY <1>1, <1>2 DEF ToDecode, Decodable, Alive
  <2> QED BY <1>0, <2>1 DEF Standing
<1>4. /\ decodeRids' \in Seq(Requests) /\ IsInjective(decodeRids')
      /\ Range(decodeRids') = Range(DecodeRest) \cup B
  BY <1>1, <1>2, ConcatQueue
<1>5. PICK n \in Nat : n = Len(decodes) /\ DOMAIN decodes = 1..n
  BY <1>0 DEF Types
<1>6. E \in SUBSET EntrySet
  <2>1. ASSUME NEW r \in B PROVE [rid |-> r, pos |-> Pos(r)] \in EntrySet
    <3>1. Len(ids[r]) \in Nat
      BY <1>0, <1>3 DEF Types
    <3>2. Pos(r) \in Nat \ {0}
      BY <3>1 DEF Pos
    <3> QED BY <1>3, <3>2 DEF EntrySet
  <2> QED BY <2>1
<1>7. \A x \in E : x.rid \in B /\ x.pos = Len(ids[x.rid]) + 1
  BY DEF Pos
<1>8. ASSUME NEW r \in B PROVE \E x \in E : x.rid = r /\ x.pos = Len(ids[r]) + 1
  <2>1. [rid |-> r, pos |-> Pos(r)] \in E
    OBVIOUS
  <2>2. [rid |-> r, pos |-> Pos(r)].rid = r /\ [rid |-> r, pos |-> Pos(r)].pos = Len(ids[r]) + 1
    BY DEF Pos
  <2> HIDE DEF E
  <2> QED BY <2>1, <2>2
<1>9. \A x, y \in E : x.rid = y.rid => x = y
  OBVIOUS
<1> HIDE DEF E
<1>10. /\ decodes' \in Seq(SUBSET EntrySet) /\ Len(decodes') <= n + 1 /\ Len(decodes') \in Nat
       /\ \A i \in DOMAIN decodes : i \in DOMAIN decodes' /\ decodes'[i] = decodes[i]
       /\ \A i \in DOMAIN decodes' : \/ i \in DOMAIN decodes /\ decodes'[i] = decodes[i]
                                     \/ i = n + 1 /\ decodes'[i] = E
       /\ B # {} => n + 1 \in DOMAIN decodes' /\ decodes'[n + 1] = E
  <2>1. decodes \in Seq(SUBSET EntrySet)
    BY <1>0 DEF Types
  <2>2. CASE DecodeBatch = <<>>
    <3>1. decodes' = decodes /\ B = {}
      BY <1>1, <2>2 DEF Range
    <3> QED BY <1>5, <2>1, <3>1
  <2>3. CASE DecodeBatch # <<>>
    <3>1. PICK z : z = Append(decodes, E)
      OBVIOUS
    <3>2. /\ z \in Seq(SUBSET EntrySet) /\ Len(z) = n + 1
          /\ DOMAIN z = DOMAIN decodes \cup {n + 1} /\ z[n + 1] = E
          /\ \A i \in DOMAIN decodes : z[i] = decodes[i]
      BY <1>5, <1>6, <2>1, <3>1, AppendFacts
    <3>3. decodes' = z
      BY <1>1, <2>3, <3>1
    <3> QED BY <1>5, <3>2, <3>3
  <2> QED BY <2>2, <2>3
<1>11. ASSUME NEW r \in Requests
       PROVE  /\ DecodesOf(r)' = (IF r \in B THEN DecodesOf(r) \cup {n + 1} ELSE DecodesOf(r))
              /\ ChunksOf(r)' = ChunksOf(r)
              /\ LastChunkInFlight(r)' <=> LastChunkInFlight(r)
  <2>1. ChunksOf(r)' = ChunksOf(r) /\ (LastChunkInFlight(r)' <=> LastChunkInFlight(r))
    BY <1>1 DEF ChunksOf, LastChunkInFlight
  <2>2. (\E x \in E : x.rid = r) <=> r \in B
    BY <1>7, <1>8
  <2>3. n + 1 \notin DOMAIN decodes
    BY <1>5
  <2>4. DecodesOf(r)' = {i \in DOMAIN decodes' : \E x \in decodes'[i] : x.rid = r}
    BY DEF DecodesOf
  <2>5. CASE r \in B
    <3>1. n + 1 \in DOMAIN decodes' /\ decodes'[n + 1] = E
      BY <1>10, <2>5
    <3> QED BY <1>10, <2>1, <2>2, <2>4, <2>5, <3>1 DEF DecodesOf
  <2>6. CASE r \notin B
    BY <1>10, <2>1, <2>2, <2>4, <2>6 DEF DecodesOf
  <2> QED BY <2>5, <2>6
<1>12. Counted'
  <2> SUFFICES ASSUME NEW r \in Requests PROVE inflight'[r] = InFlight(r)'
    BY DEF Counted
  <2>1. InFlight(r)' = Cardinality(DecodesOf(r)') + Cardinality(ChunksOf(r)')
    BY DEF InFlight, DecodesOf, ChunksOf
  <2>2. /\ Cardinality(DecodesOf(r)) \in Nat /\ Cardinality(ChunksOf(r)) \in Nat
        /\ inflight[r] = Cardinality(DecodesOf(r)) + Cardinality(ChunksOf(r))
    BY <1>0, FlyingCounts
  <2>3. Cardinality(DecodesOf(r) \cup {n + 1}) = Cardinality(DecodesOf(r)) + 1
    <3>1. DecodesOf(r) \subseteq 1..n
      BY <1>5 DEF DecodesOf
    <3> QED BY <3>1, IndexAppend
  <2>4. inflight'[r] = IF r \in B THEN inflight[r] + 1 ELSE inflight[r]
    BY <1>1
  <2>5. CASE r \in B
    <3>1. /\ Cardinality(DecodesOf(r)') = Cardinality(DecodesOf(r)) + 1
          /\ Cardinality(ChunksOf(r)') = Cardinality(ChunksOf(r))
      BY <1>11, <2>3, <2>5
    <3> QED BY <2>1, <2>2, <2>4, <2>5, <3>1
  <2>6. CASE r \notin B
    <3>1. /\ Cardinality(DecodesOf(r)') = Cardinality(DecodesOf(r))
          /\ Cardinality(ChunksOf(r)') = Cardinality(ChunksOf(r))
      BY <1>11, <2>6
    <3> QED BY <2>1, <2>2, <2>4, <2>6, <3>1
  <2> QED BY <2>5, <2>6
<1>13. ASSUME NEW r \in B
       PROVE  /\ ids'[r] \in Seq(Nat) /\ Len(ids[r]) \in Nat /\ Len(ids'[r]) = Len(ids[r]) + 1
              /\ DOMAIN ids'[r] = DOMAIN ids[r] \cup {Len(ids[r]) + 1}
              /\ DOMAIN ids[r] = 1..Len(ids[r])
              /\ ids'[r][Len(ids[r]) + 1] = Placeholder
              /\ \A p \in DOMAIN ids[r] : ids'[r][p] = ids[r][p]
              /\ ids'[r] # <<>>
  <2>1. PICK q \in Seq(Nat), m \in Nat : q = ids[r] /\ m = Len(q)
    BY <1>0, <1>3 DEF Types
  <2>2. PICK z : z = Append(q, Placeholder)
    OBVIOUS
  <2>3. /\ z \in Seq(Nat) /\ Len(z) = m + 1 /\ DOMAIN z = DOMAIN q \cup {m + 1}
        /\ z[m + 1] = Placeholder /\ \A i \in DOMAIN q : z[i] = q[i]
    <3>1. Placeholder \in Nat
      BY DEF Placeholder
    <3> QED BY <2>1, <2>2, <3>1, AppendFacts
  <2>4. ids'[r] = z
    BY <1>1, <1>3, <2>1, <2>2
  <2>5. z # <<>> /\ DOMAIN q = 1..m
    BY <2>1, <2>3
  <2> QED BY <2>1, <2>3, <2>4, <2>5
<1>14. \A r \in Requests \ B : ids'[r] = ids[r]
  BY <1>1
<1>15. Types'
  <2>1. ids' \in [Requests -> Seq(Nat)]
    <3>1. \A r \in Requests : ids'[r] \in Seq(Nat)
      BY <1>0, <1>13, <1>14 DEF Types
    <3> QED BY <1>1, <3>1
  <2>2. inflight' \in [Requests -> Nat]
    <3>1. inflight \in [Requests -> Nat]
      BY <1>0 DEF Types
    <3> HIDE DEF B
    <3> QED BY <1>1, <3>1
  <2> QED BY <1>0, <1>1, <1>4, <1>10, <2>1, <2>2 DEF Types
<1>16. Phases'
  <2>1. Len(decodes) <= 1 /\ Len(prefills) <= 1
    BY <1>0, <1>1 DEF Phases
  <2> QED BY <1>1, <1>5, <1>10, <2>1 DEF Phases
<1>17. Standing'
  <2>1. \A r \in Requests : Flying(r)' => Flying(r) \/ r \in B
    BY <1>11 DEF Flying
  <2>2. ASSUME NEW r \in Requests
        PROVE  /\ Flying(r)' => r \in held'
               /\ ended'[r] = 1 => r \in finished' /\ ~Flying(r)'
               /\ ids'[r] # <<>> => r \in known' \cup dropped'
    <3>1. CASE r \in B
      BY <1>0, <1>1, <1>3, <3>1 DEF Standing
    <3>2. CASE r \notin B
      BY <1>0, <1>1, <1>14, <2>1, <3>2 DEF Standing
    <3> QED BY <3>1, <3>2
  <2>3. /\ held' \subseteq known' /\ known' \ finished' \subseteq held'
        /\ known' \cap dropped' = canceled' /\ canceled' \subseteq finished'
        /\ finished' \subseteq known' \cup dropped'
    BY <1>0, <1>1 DEF Standing
  <2> QED BY <2>2, <2>3 DEF Standing
<1>18. Decodings'
  <2>1. (\A i \in DOMAIN decodes : \A x, y \in decodes[i] : x.rid = y.rid => x = y)'
    BY <1>0, <1>9, <1>10 DEF Decodings
  <2>2. (\A i, j \in DOMAIN decodes : \A x \in decodes[i], y \in decodes[j] :
          i < j /\ x.rid = y.rid => x.pos < y.pos)'
    <3> SUFFICES ASSUME NEW i \in DOMAIN decodes', NEW j \in DOMAIN decodes',
                        NEW x \in decodes'[i], NEW y \in decodes'[j], i < j, x.rid = y.rid
                 PROVE  x.pos < y.pos
      OBVIOUS
    <3>1. i \in DOMAIN decodes /\ decodes'[i] = decodes[i]
      BY <1>5, <1>10
    <3>2. CASE j \in DOMAIN decodes /\ decodes'[j] = decodes[j]
      BY <1>0, <3>1, <3>2 DEF Decodings
    <3>3. CASE decodes'[j] = E
      <4>1. y.rid \in B /\ y.pos = Len(ids[y.rid]) + 1
        BY <1>7, <3>3
      <4>2. x.pos \in DOMAIN ids[x.rid]
        BY <1>0, <3>1 DEF Decodings
      <4>3. DOMAIN ids[y.rid] = 1..Len(ids[y.rid]) /\ Len(ids[y.rid]) \in Nat
        BY <1>13, <4>1
      <4> QED BY <4>1, <4>2, <4>3
    <3> QED BY <1>10, <3>2, <3>3
  <2>3. (\A i \in DOMAIN decodes : \A x \in decodes[i] :
          /\ x.pos \in DOMAIN ids[x.rid] /\ ids[x.rid][x.pos] = Placeholder
          /\ x.rid \in finished \ canceled => x.pos = Len(ids[x.rid]))'
    <3> SUFFICES ASSUME NEW i \in DOMAIN decodes', NEW x \in decodes'[i]
                 PROVE  /\ x.pos \in DOMAIN ids'[x.rid] /\ ids'[x.rid][x.pos] = Placeholder
                        /\ x.rid \in finished' \ canceled' => x.pos = Len(ids'[x.rid])
      OBVIOUS
    <3>1. CASE i \in DOMAIN decodes /\ decodes'[i] = decodes[i]
      <4>1. /\ x.pos \in DOMAIN ids[x.rid] /\ ids[x.rid][x.pos] = Placeholder
            /\ x.rid \in finished \ canceled => x.pos = Len(ids[x.rid])
        BY <1>0, <3>1 DEF Decodings
      <4>2. x.rid \in Requests
        BY <1>0, <3>1, EntryTypes
      <4>3. CASE x.rid \in B
        <5>1. x.pos \in DOMAIN ids'[x.rid] /\ ids'[x.rid][x.pos] = ids[x.rid][x.pos]
          BY <1>13, <4>1, <4>3
        <5> QED BY <1>1, <1>3, <4>1, <4>3, <5>1
      <4>4. CASE x.rid \notin B
        BY <1>1, <1>14, <4>1, <4>2, <4>4
      <4> QED BY <4>3, <4>4
    <3>2. CASE decodes'[i] = E
      <4>1. x.rid \in B /\ x.pos = Len(ids[x.rid]) + 1
        BY <1>7, <3>2
      <4> QED BY <1>1, <1>3, <1>13, <4>1
    <3> QED BY <1>10, <3>1, <3>2
  <2>4. (\A r \in Requests : \A p \in DOMAIN ids[r] :
          ids[r][p] = Placeholder => \E i \in DOMAIN decodes : \E x \in decodes[i] : x.rid = r /\ x.pos = p)'
    <3> SUFFICES ASSUME NEW r \in Requests, NEW p \in DOMAIN ids'[r], ids'[r][p] = Placeholder
                 PROVE  \E i \in DOMAIN decodes' : \E x \in decodes'[i] : x.rid = r /\ x.pos = p
      OBVIOUS
    <3>1. CASE p \in DOMAIN ids[r] /\ ids[r][p] = Placeholder
      <4>1. \E i \in DOMAIN decodes : \E x \in decodes[i] : x.rid = r /\ x.pos = p
        BY <1>0, <3>1 DEF Decodings
      <4> QED BY <1>10, <4>1
    <3>2. CASE r \in B /\ p = Len(ids[r]) + 1
      <4>1. n + 1 \in DOMAIN decodes' /\ decodes'[n + 1] = E
        BY <1>10, <3>2
      <4> QED BY <1>8, <3>2, <4>1
    <3>3. \/ p \in DOMAIN ids[r] /\ ids[r][p] = Placeholder
          \/ r \in B /\ p = Len(ids[r]) + 1
      BY <1>13, <1>14
    <3> QED BY <3>1, <3>2, <3>3
  <2> QED BY <2>1, <2>2, <2>3, <2>4 DEF Decodings
<1>19. Texts'
  <2> SUFFICES ASSUME NEW q \in Requests
               PROVE  /\ Len(ids'[q]) <= MaxNew
                      /\ q \in known' \ finished' => Len(tokens'[q]) < MaxNew
                      /\ q \notin dropped' =>
                           /\ Len(tokens'[q]) <= Len(ids'[q])
                           /\ \A p \in DOMAIN ids'[q] :
                                ids'[q][p] = Placeholder <=> p > Len(tokens'[q])
    BY DEF Texts
  <2>1. CASE q \notin B
    BY <1>0, <1>1, <1>14, <2>1 DEF Texts
  <2>2. CASE q \in B
    <3>1. /\ q \in known \ finished => Len(tokens[q]) < MaxNew
          /\ Len(tokens[q]) <= Len(ids[q])
          /\ \A p \in DOMAIN ids[q] : ids[q][p] = Placeholder <=> p > Len(tokens[q])
      BY <1>0, <1>3, <2>2 DEF Texts
    <3>2. PICK m \in Nat, l \in Nat : m = Len(ids[q]) /\ l = Len(tokens[q])
      BY <1>0 DEF Types
    <3>3. /\ Len(ids'[q]) = m + 1 /\ DOMAIN ids'[q] = DOMAIN ids[q] \cup {m + 1}
          /\ ids'[q][m + 1] = Placeholder
          /\ \A p \in DOMAIN ids[q] : ids'[q][p] = ids[q][p]
      BY <1>13, <2>2, <3>2
    <3>4. m < MaxNew /\ MaxNew \in Nat /\ l <= m
      BY <1>3, <2>2, <3>1, <3>2, ChunkedAssumption
    <3>5. Len(tokens'[q]) = l
      BY <1>1, <3>2
    <3>6. Len(ids'[q]) <= MaxNew /\ l <= Len(ids'[q]) /\ m + 1 > l
      BY <3>2, <3>3, <3>4
    <3>7. \A p \in DOMAIN ids'[q] : ids'[q][p] = Placeholder <=> p > l
      BY <3>1, <3>2, <3>3, <3>6
    <3> QED BY <1>1, <3>1, <3>2, <3>5, <3>6, <3>7
  <2> QED BY <2>1, <2>2
<1>20. Chunks'
  <2>1. \A i \in DOMAIN prefills : prefills[i].all \subseteq Requests
    BY <1>0, ChunkTypes
  <2>2. UNCHANGED prefills
    BY <1>1
  <2>3. \A r \in Requests : (\E i \in DOMAIN prefills : r \in prefills[i].all) => ids'[r] = ids[r]
    BY <1>0, <1>3, <1>14 DEF Chunks
  <2> QED BY <1>0, <1>1, <2>1, <2>2, <2>3, ChunksKept
<1>21. Places'
  <2>1. ASSUME NEW q \in known' \ finished'
        PROVE  /\ ids'[q] = <<>> => /\ q \notin Range(decodeRids')
                                    /\ q \in Range(prefillRids') <=> left'[q] > 0
                                    /\ LastChunkInFlight(q)' <=> left'[q] = 0
               /\ ids'[q] # <<>> => /\ q \notin Range(prefillRids')
                                    /\ q \in Range(decodeRids') \/ LastTokenInFlight(q)'
    <3>1. q \in Requests /\ q \in known \ finished
      BY <1>0, <1>1 DEF Types
    <3>2. CASE q \in B
      <4>1. q \notin Range(prefillRids) /\ ids'[q] # <<>>
        BY <1>0, <1>3, <1>13, <3>1, <3>2 DEF Places
      <4> QED BY <1>1, <1>4, <3>2, <4>1
    <3>3. CASE q \notin B
      <4>1. ids'[q] = ids[q] /\ (q \in Range(decodeRids') <=> q \in Range(DecodeRest))
        BY <1>4, <1>14, <3>1, <3>3
      <4>2. CASE ids[q] = <<>>
        <5>1. /\ q \notin Range(decodeRids)
              /\ q \in Range(prefillRids) <=> left[q] > 0
              /\ LastChunkInFlight(q) <=> left[q] = 0
          BY <1>0, <3>1, <4>2 DEF Places
        <5> QED BY <1>1, <1>2, <1>11, <3>1, <4>1, <4>2, <5>1
      <4>3. CASE ids[q] # <<>>
        <5>1. q \notin Range(prefillRids) /\ (q \in Range(decodeRids) \/ LastTokenInFlight(q))
          BY <1>0, <3>1, <4>3 DEF Places
        <5>2. CASE LastTokenInFlight(q)
          <6>1. LastTokenInFlight(q)'
            BY <1>10, <4>1, <5>2 DEF LastTokenInFlight
          <6> QED BY <1>1, <4>1, <4>3, <5>1, <6>1
        <5>3. CASE q \in ToDecode /\ q \in Range(decodeRids)
          BY <1>1, <1>2, <3>3, <4>1, <4>3, <5>1, <5>3
        <5>4. CASE q \notin ToDecode
          <6>1. ~(Len(ids[q]) < MaxNew)
            BY <3>1, <4>3, <5>4 DEF ToDecode, Decodable, Alive
          <6>2. /\ Len(ids[q]) <= MaxNew /\ Len(tokens[q]) < MaxNew
                /\ \A p \in DOMAIN ids[q] : ids[q][p] = Placeholder <=> p > Len(tokens[q])
            <7>1. q \notin dropped
              BY <1>0, <3>1 DEF Standing
            <7> QED BY <1>0, <3>1, <7>1 DEF Texts
          <6>3. Len(ids[q]) = MaxNew /\ MaxNew \in DOMAIN ids[q] /\ MaxNew > Len(tokens[q])
            <7>1. /\ Len(ids[q]) \in Nat /\ DOMAIN ids[q] = 1..Len(ids[q]) /\ MaxNew \in Nat \ {0}
                  /\ Len(tokens[q]) \in Nat
              BY <1>0, <3>1, ChunkedAssumption DEF Types
            <7> QED BY <6>1, <6>2, <7>1
          <6>4. \E i \in DOMAIN decodes : \E x \in decodes[i] : x.rid = q /\ x.pos = MaxNew
            BY <1>0, <3>1, <6>2, <6>3 DEF Decodings
          <6>5. LastTokenInFlight(q)'
            BY <1>10, <4>1, <6>3, <6>4 DEF LastTokenInFlight
          <6> QED BY <1>1, <4>1, <4>3, <5>1, <6>5
        <5> QED BY <5>1, <5>2, <5>3, <5>4
      <4> QED BY <4>2, <4>3
    <3> QED BY <3>2, <3>3
  <2>2. Range(prefillRids') \cup Range(decodeRids') \subseteq known' \cup dropped'
    BY <1>0, <1>1, <1>2, <1>4 DEF Places
  <2>3. IsInjective(prefillRids') /\ IsInjective(decodeRids')
    BY <1>0, <1>1, <1>4 DEF Places
  <2> QED BY <2>1, <2>2, <2>3 DEF Places
<1> QED BY <1>12, <1>15, <1>16, <1>17, <1>18, <1>19, <1>20, <1>21 DEF IInv

\* A launch gives a chunk of each prompt, and those with more return to the
\* queue.
LEMMA LaunchPrefillInv == ASSUME IInv, LaunchPrefill PROVE IInv'
<1>0. Types /\ Phases /\ Counted /\ Standing /\ Decodings /\ Texts /\ Chunks /\ Places
  BY DEF IInv
<1> DEFINE B == Range(ChunkBatch)
           E == [all |-> B, ready |-> ReadyOnes]
<1>1. /\ UNCHANGED <<overlap, known, finished, held, ids, decodeRids, canceled, decodes>>
      /\ UNCHANGED <<tokens, ended, dropped>>
      /\ overlap /\ pc = "prefill" /\ pc' = "takeDecode" /\ GivenChunks
      /\ prefillRids' = ChunkRest \o UnfinishedOnes
      /\ prefills' = IF ChunkBatch = <<>> THEN prefills ELSE Append(prefills, E)
      /\ inflight' = [r \in Requests |-> IF r \in B THEN inflight[r] + 1 ELSE inflight[r]]
  BY DEF LaunchPrefill, Launched, caller
<1>2. /\ ReadyOnes \in Seq(Requests) /\ IsInjective(ReadyOnes)
      /\ Range(ReadyOnes) = {r \in B : left[r] = 1}
      /\ B \subseteq Range(prefillRids) \cap ToPrefill
      /\ Range(ChunkRest) \subseteq Range(prefillRids) /\ B \cap Range(ChunkRest) = {}
      /\ Range(prefillRids) \cap ToPrefill \subseteq B \cup Range(ChunkRest)
      /\ prefillRids' \in Seq(Requests) /\ IsInjective(prefillRids')
      /\ Range(prefillRids') = Range(ChunkRest) \cup {r \in B : left[r] > 1}
  BY <1>1, ChunkBatchFacts
<1>3. /\ left' \in [Requests -> 0..MaxChunks]
      /\ \A r \in B : /\ left[r] \in Nat \ {0} /\ left'[r] = left[r] - 1
                      /\ r \in known \ finished /\ r \in Requests /\ ids[r] = <<>>
                      /\ r \in Range(prefillRids)
      /\ \A r \in Requests \ B : left'[r] = left[r]
  BY <1>1, GivenFacts
<1>4. \A r \in B : r \in held /\ r \notin dropped
  BY <1>0, <1>3 DEF Standing
<1>5. PICK n \in Nat : n = Len(prefills) /\ DOMAIN prefills = 1..n
  BY <1>0 DEF Types
<1>6. E \in ChunkSet /\ E.all = B /\ E.ready = ReadyOnes
  BY <1>2, <1>3 DEF ChunkSet
<1> HIDE DEF E
<1>10. /\ prefills' \in Seq(ChunkSet) /\ Len(prefills') <= n + 1 /\ Len(prefills') \in Nat
       /\ \A i \in DOMAIN prefills : i \in DOMAIN prefills' /\ prefills'[i] = prefills[i]
       /\ \A i \in DOMAIN prefills' : \/ i \in DOMAIN prefills /\ prefills'[i] = prefills[i]
                                      \/ i = n + 1 /\ prefills'[i] = E
       /\ B # {} => n + 1 \in DOMAIN prefills' /\ prefills'[n + 1] = E
  <2> HIDE DEF ChunkSet
  <2>1. prefills \in Seq(ChunkSet)
    BY <1>0 DEF Types
  <2>2. CASE ChunkBatch = <<>>
    <3>1. prefills' = prefills /\ B = {}
      BY <1>1, <2>2 DEF Range
    <3> QED BY <1>5, <2>1, <3>1
  <2>3. CASE ChunkBatch # <<>>
    <3>1. PICK z : z = Append(prefills, E)
      OBVIOUS
    <3>2. /\ z \in Seq(ChunkSet) /\ Len(z) = n + 1
          /\ DOMAIN z = DOMAIN prefills \cup {n + 1} /\ z[n + 1] = E
          /\ \A i \in DOMAIN prefills : z[i] = prefills[i]
      BY <1>5, <1>6, <2>1, <3>1, AppendFacts
    <3>3. prefills' = z
      BY <1>1, <2>3, <3>1
    <3> QED BY <1>5, <3>2, <3>3
  <2> QED BY <2>2, <2>3
<1>11. ASSUME NEW r \in Requests
       PROVE  /\ ChunksOf(r)' = (IF r \in B THEN ChunksOf(r) \cup {n + 1} ELSE ChunksOf(r))
              /\ DecodesOf(r)' = DecodesOf(r)
              /\ LastTokenInFlight(r)' <=> LastTokenInFlight(r)
              /\ LastChunkInFlight(r)' <=> LastChunkInFlight(r) \/ r \in Range(ReadyOnes)
  <2>1. DecodesOf(r)' = DecodesOf(r) /\ (LastTokenInFlight(r)' <=> LastTokenInFlight(r))
    BY <1>1 DEF DecodesOf, LastTokenInFlight
  <2>2. ChunksOf(r)' = {i \in DOMAIN prefills' : r \in prefills'[i].all}
    BY DEF ChunksOf
  <2>3. ChunksOf(r)' = (IF r \in B THEN ChunksOf(r) \cup {n + 1} ELSE ChunksOf(r))
    <3>1. CASE r \in B
      <4>1. n + 1 \in DOMAIN prefills' /\ prefills'[n + 1] = E
        BY <1>10, <3>1
      <4> QED BY <1>6, <1>10, <2>2, <3>1, <4>1 DEF ChunksOf
    <3>2. CASE r \notin B
      BY <1>6, <1>10, <2>2, <3>2 DEF ChunksOf
    <3> QED BY <3>1, <3>2
  <2>4. LastChunkInFlight(r)' <=> \E i \in DOMAIN prefills' : r \in Range(prefills'[i].ready)
    BY DEF LastChunkInFlight
  <2>5. ASSUME LastChunkInFlight(r) PROVE LastChunkInFlight(r)'
    BY <1>10, <2>4, <2>5 DEF LastChunkInFlight
  <2>6. ASSUME r \in Range(ReadyOnes) PROVE LastChunkInFlight(r)'
    <3>1. B # {}
      BY <1>2, <2>6
    <3>2. n + 1 \in DOMAIN prefills' /\ prefills'[n + 1].ready = ReadyOnes
      BY <1>6, <1>10, <3>1
    <3> QED BY <2>4, <2>6, <3>2
  <2>7. ASSUME LastChunkInFlight(r)' PROVE LastChunkInFlight(r) \/ r \in Range(ReadyOnes)
    <3>1. PICK i \in DOMAIN prefills' : r \in Range(prefills'[i].ready)
      BY <2>4, <2>7
    <3> QED BY <1>6, <1>10, <3>1 DEF LastChunkInFlight
  <2> QED BY <2>1, <2>3, <2>5, <2>6, <2>7
<1>12. Counted'
  <2> SUFFICES ASSUME NEW r \in Requests PROVE inflight'[r] = InFlight(r)'
    BY DEF Counted
  <2>1. InFlight(r)' = Cardinality(DecodesOf(r)') + Cardinality(ChunksOf(r)')
    BY DEF InFlight, DecodesOf, ChunksOf
  <2>2. /\ Cardinality(DecodesOf(r)) \in Nat /\ Cardinality(ChunksOf(r)) \in Nat
        /\ inflight[r] = Cardinality(DecodesOf(r)) + Cardinality(ChunksOf(r))
    BY <1>0, FlyingCounts
  <2>3. Cardinality(ChunksOf(r) \cup {n + 1}) = Cardinality(ChunksOf(r)) + 1
    <3>1. ChunksOf(r) \subseteq 1..n
      BY <1>5 DEF ChunksOf
    <3> QED BY <3>1, IndexAppend
  <2>4. inflight'[r] = IF r \in B THEN inflight[r] + 1 ELSE inflight[r]
    BY <1>1
  <2>5. CASE r \in B
    <3>1. /\ Cardinality(ChunksOf(r)') = Cardinality(ChunksOf(r)) + 1
          /\ Cardinality(DecodesOf(r)') = Cardinality(DecodesOf(r))
      BY <1>11, <2>3, <2>5
    <3> QED BY <2>1, <2>2, <2>4, <2>5, <3>1
  <2>6. CASE r \notin B
    <3>1. /\ Cardinality(DecodesOf(r)') = Cardinality(DecodesOf(r))
          /\ Cardinality(ChunksOf(r)') = Cardinality(ChunksOf(r))
      BY <1>11, <2>6
    <3> QED BY <2>1, <2>2, <2>4, <2>6, <3>1
  <2> QED BY <2>5, <2>6
<1>15. Types'
  <2>1. inflight' \in [Requests -> Nat]
    <3>1. inflight \in [Requests -> Nat]
      BY <1>0 DEF Types
    <3> HIDE DEF B
    <3> QED BY <1>1, <3>1
  <2> QED BY <1>0, <1>1, <1>2, <1>3, <1>10, <2>1 DEF Types
<1>16. Phases'
  <2>1. Len(decodes) <= 2 /\ Len(prefills) <= 1
    BY <1>0, <1>1 DEF Phases
  <2> QED BY <1>1, <1>5, <1>10, <2>1 DEF Phases
<1>17. Standing'
  <2>1. \A r \in Requests : Flying(r)' => Flying(r) \/ r \in B
    BY <1>11 DEF Flying
  <2>2. ASSUME NEW r \in Requests
        PROVE  /\ Flying(r)' => r \in held'
               /\ ended'[r] = 1 => r \in finished' /\ ~Flying(r)'
               /\ ids'[r] # <<>> => r \in known' \cup dropped'
    <3>1. CASE r \in B
      BY <1>0, <1>1, <1>3, <1>4, <3>1 DEF Standing
    <3>2. CASE r \notin B
      BY <1>0, <1>1, <2>1, <3>2 DEF Standing
    <3> QED BY <3>1, <3>2
  <2>3. /\ held' \subseteq known' /\ known' \ finished' \subseteq held'
        /\ known' \cap dropped' = canceled' /\ canceled' \subseteq finished'
        /\ finished' \subseteq known' \cup dropped'
    BY <1>0, <1>1 DEF Standing
  <2> QED BY <2>2, <2>3 DEF Standing
<1>18. Decodings'
  BY <1>0, <1>1 DEF Decodings
<1>19. Texts'
  BY <1>0, <1>1 DEF Texts
<1>20. Chunks'
  <2>1. ASSUME NEW i \in DOMAIN prefills'
        PROVE  /\ \A r \in prefills'[i].all : ids'[r] = <<>> /\ (r \in finished' => r \in canceled')
               /\ Range(prefills'[i].ready) \subseteq prefills'[i].all
               /\ IsInjective(prefills'[i].ready)
               /\ \A r \in Range(prefills'[i].ready) : left'[r] = 0
    <3>1. CASE i \in DOMAIN prefills /\ prefills'[i] = prefills[i]
      <4>1. \A r \in Range(prefills[i].ready) : r \in Requests /\ left[r] = 0
        BY <1>0, <3>1, ChunkTypes DEF Chunks
      <4>2. \A r \in Range(prefills[i].ready) : r \notin B
        BY <1>3, <4>1
      <4> QED BY <1>0, <1>1, <1>3, <3>1, <4>1, <4>2 DEF Chunks
    <3>2. CASE prefills'[i] = E
      <4>1. \A r \in Range(ReadyOnes) : r \in B /\ left[r] = 1
        BY <1>2
      <4>2. \A r \in Range(ReadyOnes) : left'[r] = 0
        BY <1>3, <4>1
      <4> QED BY <1>1, <1>2, <1>3, <1>6, <3>2, <4>1, <4>2
    <3> QED BY <1>10, <3>1, <3>2
  <2>2. ASSUME NEW i \in DOMAIN prefills', NEW j \in DOMAIN prefills', i < j
        PROVE  Range(prefills'[i].ready) \cap prefills'[j].all = {}
    <3>1. i \in DOMAIN prefills /\ prefills'[i] = prefills[i]
      BY <1>5, <1>10, <2>2
    <3>2. CASE j \in DOMAIN prefills /\ prefills'[j] = prefills[j]
      BY <1>0, <2>2, <3>1, <3>2 DEF Chunks
    <3>3. CASE prefills'[j] = E
      <4>1. \A r \in Range(prefills[i].ready) : left[r] = 0
        BY <1>0, <3>1 DEF Chunks
      <4>2. \A r \in B : left[r] # 0
        BY <1>3
      <4> QED BY <1>6, <3>1, <3>3, <4>1, <4>2
    <3> QED BY <1>10, <3>2, <3>3
  <2> QED BY <2>1, <2>2 DEF Chunks
<1>21. Places'
  <2>1. ASSUME NEW q \in known' \ finished'
        PROVE  /\ ids'[q] = <<>> => /\ q \notin Range(decodeRids')
                                    /\ q \in Range(prefillRids') <=> left'[q] > 0
                                    /\ LastChunkInFlight(q)' <=> left'[q] = 0
               /\ ids'[q] # <<>> => /\ q \notin Range(prefillRids')
                                    /\ q \in Range(decodeRids') \/ LastTokenInFlight(q)'
    <3>1. q \in Requests /\ q \in known \ finished
      BY <1>0, <1>1 DEF Types
    <3>2. CASE ids[q] # <<>>
      <4>1. q \notin Range(prefillRids) /\ (q \in Range(decodeRids) \/ LastTokenInFlight(q))
        BY <1>0, <3>1, <3>2 DEF Places
      <4>2. q \notin Range(prefillRids')
        BY <1>2, <4>1
      <4> QED BY <1>1, <1>11, <3>1, <3>2, <4>1, <4>2
    <3>3. CASE ids[q] = <<>>
      <4>1. /\ q \notin Range(decodeRids)
            /\ q \in Range(prefillRids) <=> left[q] > 0
            /\ LastChunkInFlight(q) <=> left[q] = 0
        BY <1>0, <3>1, <3>3 DEF Places
      <4>2. left[q] \in Nat
        BY <1>0, <3>1, ChunkedAssumption DEF Types
      <4>3. q \in Range(prefillRids') <=> left'[q] > 0
        <5>1. CASE q \in B
          <6>1. q \notin Range(ChunkRest) /\ left[q] \in Nat \ {0} /\ left'[q] = left[q] - 1
            BY <1>2, <1>3, <5>1
          <6>2. left'[q] > 0 <=> left[q] > 1
            BY <6>1
          <6> QED BY <1>2, <5>1, <6>1, <6>2
        <5>2. CASE q \notin B
          <6>1. left'[q] = left[q]
            BY <1>3, <3>1, <5>2
          <6>2. q \in Range(ChunkRest) <=> q \in Range(prefillRids)
            BY <1>2, <3>1, <4>1, <5>2 DEF ToPrefill, Prefillable, Alive
          <6> QED BY <1>2, <4>1, <5>2, <6>1, <6>2
        <5> QED BY <5>1, <5>2
      <4>4. LastChunkInFlight(q)' <=> left'[q] = 0
        <5>1. CASE q \in B
          <6>1. left[q] \in Nat \ {0} /\ left'[q] = left[q] - 1 /\ ~LastChunkInFlight(q)
            BY <1>3, <4>1, <5>1
          <6>2. left'[q] = 0 <=> left[q] = 1
            BY <6>1
          <6> QED BY <1>2, <1>11, <3>1, <5>1, <6>1, <6>2
        <5>2. CASE q \notin B
          <6>1. left'[q] = left[q] /\ q \notin Range(ReadyOnes)
            BY <1>2, <1>3, <3>1, <5>2
          <6> QED BY <1>11, <3>1, <4>1, <6>1
        <5> QED BY <5>1, <5>2
      <4> QED BY <1>1, <3>3, <4>1, <4>3, <4>4
    <3> QED BY <3>2, <3>3
  <2>2. Range(prefillRids') \cup Range(decodeRids') \subseteq known' \cup dropped'
    BY <1>0, <1>1, <1>2, <1>3 DEF Places
  <2>3. IsInjective(prefillRids') /\ IsInjective(decodeRids')
    BY <1>0, <1>1, <1>2 DEF Places
  <2> QED BY <2>1, <2>2, <2>3 DEF Places
<1> QED BY <1>12, <1>15, <1>16, <1>17, <1>18, <1>19, <1>20, <1>21 DEF IInv

-----------------------------------------------------------------------------

\* Where the tokens of a caller that listens end the placeholders begin.
LEMMA CommittedIs ==
  ASSUME IInv, NEW r \in Requests, r \notin dropped
  PROVE  Committed(r) = Len(tokens[r]) /\ Len(tokens[r]) \in Nat
<1>1. /\ Len(tokens[r]) <= Len(ids[r])
      /\ \A p \in DOMAIN ids[r] : ids[r][p] = Placeholder <=> p > Len(tokens[r])
  BY DEF IInv, Texts
<1>2. PICK m \in Nat, l \in Nat : m = Len(ids[r]) /\ l = Len(tokens[r]) /\ DOMAIN ids[r] = 1..m
  BY DEF IInv, Types
<1>3. {p \in DOMAIN ids[r] : ids[r][p] # Placeholder} = 1..l
  BY <1>1, <1>2
<1>4. Cardinality(1..l) = l
  <2>1. 1 \in Int /\ l \in Int /\ Cardinality(1..l) = IF 1 > l THEN 0 ELSE l - 1 + 1
    BY FS_Interval
  <2> QED BY <2>1
<1> QED BY <1>2, <1>3, <1>4 DEF Committed

\* The oldest batch of decodes: each of its entries is a placeholder of its own
\* request, the first one; a later batch has only later ones.
LEMMA TailDecodes ==
  ASSUME IInv, decodes # <<>>, decodes' = Tail(decodes), UNCHANGED prefills
  PROVE  /\ 1 \in DOMAIN decodes /\ Entries = decodes[1] /\ Len(decodes) \in Nat
         /\ decodes' \in Seq(SUBSET EntrySet) /\ Len(decodes') = Len(decodes) - 1
         /\ \A i \in DOMAIN decodes' : i \in Nat \ {0} /\ i + 1 \in DOMAIN decodes /\ decodes'[i] = decodes[i + 1]
         /\ \A k \in DOMAIN decodes : k # 1 =>
              \E i \in DOMAIN decodes' : k = i + 1 /\ decodes'[i] = decodes[k]
         /\ \A r \in Requests :
              /\ DecodesOf(r) \subseteq 1..Len(decodes)
              /\ DecodesOf(r)' = {i \in 1..(Len(decodes) - 1) : i + 1 \in DecodesOf(r)}
              /\ 1 \in DecodesOf(r) <=> \E x \in decodes[1] : x.rid = r
              /\ ChunksOf(r)' = ChunksOf(r)
              /\ LastChunkInFlight(r)' <=> LastChunkInFlight(r)
<1>1. decodes \in Seq(SUBSET EntrySet)
  BY DEF IInv, Types
<1>2. PICK z : z = Tail(decodes)
  OBVIOUS
<1>3. PICK n \in Nat \ {0} : n = Len(decodes)
  BY <1>1
<1>4. /\ z \in Seq(SUBSET EntrySet) /\ Len(z) = n - 1 /\ DOMAIN decodes = 1..n
      /\ Head(decodes) = decodes[1] /\ 1 \in DOMAIN decodes
      /\ \A i \in DOMAIN z : i + 1 \in DOMAIN decodes /\ i \in Nat \ {0} /\ z[i] = decodes[i + 1]
  BY <1>1, <1>2, <1>3, TailFacts
<1>5. DOMAIN z = 1..(n - 1)
  BY <1>3, <1>4
<1>6. ASSUME NEW k \in DOMAIN decodes, k # 1
      PROVE  \E i \in DOMAIN z : k = i + 1 /\ z[i] = decodes[k]
  <2>1. PICK i : i = k - 1
    OBVIOUS
  <2>2. i \in 1..(n - 1) /\ k = i + 1
    BY <1>3, <1>4, <1>6, <2>1
  <2> QED BY <1>4, <1>5, <2>2
<1>7. decodes' = z
  BY <1>2
<1>8. ASSUME NEW r \in Requests
      PROVE  /\ DecodesOf(r) \subseteq 1..n
             /\ DecodesOf(r)' = {i \in 1..(n - 1) : i + 1 \in DecodesOf(r)}
             /\ 1 \in DecodesOf(r) <=> \E x \in decodes[1] : x.rid = r
  <2>1. DecodesOf(r)' = {i \in DOMAIN z : \E x \in z[i] : x.rid = r}
    BY <1>7 DEF DecodesOf
  <2>2. \A i \in 1..(n - 1) : i + 1 \in DecodesOf(r) <=> \E x \in z[i] : x.rid = r
    BY <1>4, <1>5 DEF DecodesOf
  <2> QED BY <1>4, <1>5, <2>1, <2>2 DEF DecodesOf
<1>9. \A r \in Requests : ChunksOf(r)' = ChunksOf(r) /\ (LastChunkInFlight(r)' <=> LastChunkInFlight(r))
  BY DEF ChunksOf, LastChunkInFlight
<1> QED BY <1>3, <1>4, <1>6, <1>7, <1>8, <1>9 DEF Entries

\* What stands of the entry whose token arrives.
LEMMA EntryFacts ==
  ASSUME IInv, 1 \in DOMAIN decodes, NEW e \in decodes[1]
  PROVE  /\ e.rid \in Requests /\ e.pos \in Nat \ {0} /\ Len(ids[e.rid]) \in Nat /\ ids[e.rid] \in Seq(Nat)
         /\ DOMAIN ids[e.rid] = 1..Len(ids[e.rid])
         /\ e.pos \in DOMAIN ids[e.rid] /\ ids[e.rid][e.pos] = Placeholder
         /\ Flying(e.rid) /\ e.rid \in held /\ e.rid \in known /\ ended[e.rid] = 0
         /\ \A y \in decodes[1] : y.rid = e.rid => y = e
         /\ e.rid \notin dropped => e.pos = Len(tokens[e.rid]) + 1
         /\ e.rid \in finished \ canceled => e.pos = Len(ids[e.rid])
         /\ e.rid \notin finished => e.rid \notin dropped
<1>0. Types /\ Standing /\ Decodings /\ Texts
  BY DEF IInv
<1>1. e.rid \in Requests /\ e.pos \in Nat \ {0}
  BY <1>0, EntryTypes
<1>2. /\ Len(ids[e.rid]) \in Nat /\ DOMAIN ids[e.rid] = 1..Len(ids[e.rid])
      /\ ids[e.rid] \in Seq(Nat)
  BY <1>0, <1>1 DEF Types
<1>3. /\ e.pos \in DOMAIN ids[e.rid] /\ ids[e.rid][e.pos] = Placeholder
      /\ e.rid \in finished \ canceled => e.pos = Len(ids[e.rid])
  BY <1>0 DEF Decodings
<1>4. \A y \in decodes[1] : y.rid = e.rid => y = e
  BY <1>0 DEF Decodings
<1>5. Flying(e.rid)
  BY DEF Flying, DecodesOf
<1>6. e.rid \in held /\ e.rid \in known /\ ended[e.rid] = 0
  <2>1. ended[e.rid] \in 0..1 /\ ended[e.rid] # 1
    BY <1>0, <1>1, <1>5 DEF Standing, Types
  <2> QED BY <1>0, <1>1, <1>5, <2>1 DEF Standing
<1>7. ASSUME e.rid \notin dropped PROVE e.pos = Len(tokens[e.rid]) + 1
  <2>1. PICK l \in Nat : l = Len(tokens[e.rid])
    BY <1>0, <1>1 DEF Types
  <2>2. \A p \in DOMAIN ids[e.rid] : ids[e.rid][p] = Placeholder <=> p > l
    BY <1>0, <1>1, <1>7, <2>1 DEF Texts
  <2>3. e.pos > l
    BY <1>3, <2>2
  <2>4. l + 1 \in DOMAIN ids[e.rid] /\ l + 1 <= e.pos
    BY <1>1, <1>2, <1>3, <2>3
  <2>5. ids[e.rid][l + 1] = Placeholder
    BY <2>2, <2>4
  <2>6. PICK i \in DOMAIN decodes : \E y \in decodes[i] : y.rid = e.rid /\ y.pos = l + 1
    BY <1>0, <1>1, <2>4, <2>5 DEF Decodings
  <2>7. PICK y \in decodes[i] : y.rid = e.rid /\ y.pos = l + 1
    BY <2>6
  <2>8. CASE i = 1
    BY <1>4, <2>1, <2>7, <2>8
  <2>9. CASE i # 1
    <3>1. 1 < i
      <4>1. DOMAIN decodes = 1..Len(decodes) /\ Len(decodes) \in Nat
        BY <1>0 DEF Types
      <4> QED BY <2>9, <4>1
    <3>2. e.pos < y.pos
      BY <1>0, <2>7, <3>1 DEF Decodings
    <3> QED BY <1>1, <2>1, <2>4, <2>7, <3>2
  <2> QED BY <2>8, <2>9
<1>8. e.rid \notin finished => e.rid \notin dropped
  BY <1>0, <1>6 DEF Standing
<1> QED BY <1>1, <1>2, <1>3, <1>4, <1>5, <1>6, <1>7, <1>8

\* At most one more token of its request is in flight, and it is the last.
LEMMA LaterEntry ==
  ASSUME IInv, 1 \in DOMAIN decodes, NEW e \in decodes[1],
         NEW k \in DOMAIN decodes, k # 1, NEW x \in decodes[k], x.rid = e.rid
  PROVE  /\ e.pos < x.pos /\ x.pos \in Nat
         /\ x.rid \notin finished \ canceled
         /\ x.rid \notin dropped => x.pos = Len(ids[x.rid])
<1>0. Types /\ Phases /\ Decodings /\ Texts
  BY DEF IInv
<1>1. DOMAIN decodes = 1..Len(decodes) /\ Len(decodes) \in Nat /\ Len(decodes) <= 2
  BY <1>0 DEF Types, Phases
<1>2. k = 2 /\ 1 < k /\ \A i \in DOMAIN decodes : i = 1 \/ i = k
  BY <1>1
<1>3. e.pos < x.pos
  BY <1>0, <1>2 DEF Decodings
<1>4. /\ e.rid \in Requests /\ e.pos \in Nat \ {0} /\ Len(ids[e.rid]) \in Nat
      /\ DOMAIN ids[e.rid] = 1..Len(ids[e.rid])
      /\ \A y \in decodes[1] : y.rid = e.rid => y = e
      /\ e.rid \in finished \ canceled => e.pos = Len(ids[e.rid])
  BY EntryFacts
<1>5. x.pos \in DOMAIN ids[x.rid] /\ ids[x.rid][x.pos] = Placeholder
  BY <1>0 DEF Decodings
<1>6. x.rid \notin finished \ canceled
  BY <1>3, <1>4, <1>5
<1>7. ASSUME x.rid \notin dropped PROVE x.pos = Len(ids[x.rid])
  <2>1. PICK m \in Nat, l \in Nat : m = Len(ids[x.rid]) /\ l = Len(tokens[x.rid])
    BY <1>0, <1>4 DEF Types
  <2>2. \A p \in DOMAIN ids[x.rid] : ids[x.rid][p] = Placeholder <=> p > l
    BY <1>0, <1>4, <1>7, <2>1 DEF Texts
  <2>3. x.pos \in Nat /\ x.pos > l /\ x.pos <= m /\ m \in DOMAIN ids[x.rid] /\ m > l
    BY <1>4, <1>5, <2>1, <2>2
  <2>4. ids[x.rid][m] = Placeholder
    BY <2>2, <2>3
  <2>5. PICK i \in DOMAIN decodes : \E y \in decodes[i] : y.rid = x.rid /\ y.pos = m
    BY <1>0, <1>4, <2>3, <2>4 DEF Decodings
  <2>6. PICK y \in decodes[i] : y.rid = x.rid /\ y.pos = m
    BY <2>5
  <2>7. CASE i = 1
    <3>1. y = e
      BY <1>4, <2>6, <2>7
    <3>2. e.pos = m /\ e.pos \in Nat
      BY <1>4, <2>6, <3>1
    <3> QED BY <1>3, <2>1, <2>3, <3>2
  <2>8. CASE i = k
    <3>1. y = x
      BY <1>0, <2>6, <2>8 DEF Decodings
    <3> QED BY <2>1, <2>6, <3>1
  <2> QED BY <1>2, <2>7, <2>8
<1> QED BY <1>3, <1>4, <1>5, <1>6, <1>7

\* The two RuntimeErrors are not raised.
LEMMA NotRaised == ASSUME IInv, decodes # <<>> PROVE ~Raises
<1>1. 1 \in DOMAIN decodes /\ Entries = decodes[1]
  <2>1. decodes \in Seq(SUBSET EntrySet)
    BY DEF IInv, Types
  <2> QED BY <2>1, TailFacts DEF Entries
<1>2. ASSUME NEW x \in Entries PROVE InRange(x) /\ ids[x.rid][x.pos] = Placeholder
  BY <1>1, EntryFacts DEF InRange
<1> QED BY <1>2 DEF Raises, OfCanceled, OfToken

\* What taking the oldest batch of decodes does: R are its requests, G those of
\* them that are forgotten, fin those that get their last token.
LEMMA TakeEntriesFacts ==
  ASSUME IInv, 1 \in DOMAIN decodes, Entries = decodes[1], TakeEntries
  PROVE  \E R, G, fin \in SUBSET Requests :
           /\ \A r : r \in R <=> \E x \in decodes[1] : x.rid = r
           /\ G = {r \in R : r \in canceled /\ inflight[r] <= 1}
           /\ fin \subseteq R \ finished
           /\ \A r \in R \ finished : r \notin fin => Len(tokens[r]) + 1 < MaxNew
           /\ known' = known \ G /\ canceled' = canceled \ G /\ finished' = finished \cup fin
           /\ held' = held \ {r \in R : r \in finished \cup fin /\ inflight[r] <= 1}
           /\ ended' = [r \in Requests |->
                 IF r \in {q \in R : q \in finished \cup fin /\ inflight[q] <= 1} \ dropped
                 THEN ended[r] + 1 ELSE ended[r]]
           /\ inflight' = [r \in Requests |-> IF r \in R THEN inflight[r] - 1 ELSE inflight[r]]
           /\ ids' = [r \in Requests |-> ids'[r]] /\ \A r \in Requests \ R : ids'[r] = ids[r]
           /\ \A x \in decodes[1] :
                ids'[x.rid] = IF x.rid \in finished \ canceled
                              THEN RemoveAt(ids[x.rid], Len(ids[x.rid]))
                              ELSE [ids[x.rid] EXCEPT ![x.pos] = x.pos]
           /\ tokens' = [r \in Requests |-> tokens'[r]] /\ \A r \in Requests \ (R \ finished) : tokens'[r] = tokens[r]
           /\ \A x \in decodes[1] : x.rid \notin finished =>
                tokens'[x.rid] = Append(tokens[x.rid], x.pos)
<1>0. Types /\ Standing
  BY DEF IInv
<1> DEFINE R == {IdOf(x) : x \in Entries}
           T == {IdOf(x) : x \in OfToken}
           X == {IdOf(x) : x \in OfExtra}
           C == {IdOf(x) : x \in OfCanceled}
           entry(r) == CHOOSE x \in Entries : x.rid = r
           G == {r \in C : NoneLeft(r)}
           over(fin) == {r \in fin \cup X : NoneLeft(r)}
<1>1. /\ inflight' = [r \in Requests |-> IF r \in R THEN inflight[r] - 1 ELSE inflight[r]]
      /\ known' = known \ G /\ canceled' = canceled \ G
      /\ ids' = [r \in Requests |-> IF r \in R THEN Resolved(entry(r)) ELSE ids[r]]
      /\ Returned([r \in T |-> entry(r).pos])
      /\ \E eos \in SUBSET T :
           /\ finished' = finished \cup LastOf(T, eos)
           /\ held' = held \ (G \cup over(LastOf(T, eos)))
           /\ Reported(over(LastOf(T, eos)))
  BY DEF TakeEntries, Landed, Forgotten
<1>2. PICK eos \in SUBSET T :
           /\ finished' = finished \cup LastOf(T, eos)
           /\ held' = held \ (G \cup over(LastOf(T, eos)))
           /\ Reported(over(LastOf(T, eos)))
  BY <1>1
<1>3. PICK fin : fin = LastOf(T, eos)
  OBVIOUS
<1>4. \A r : r \in R <=> \E x \in decodes[1] : x.rid = r
  BY DEF IdOf
<1>5. /\ \A r : r \in T <=> r \in R \ finished
      /\ \A r : r \in X <=> r \in R /\ r \in finished \ canceled
      /\ \A r : r \in C <=> r \in R /\ r \in canceled
  BY <1>4 DEF IdOf, OfToken, OfExtra, OfCanceled
<1>6. ASSUME NEW x \in decodes[1] PROVE entry(x.rid) = x
  <2>1. \A y \in decodes[1] : y.rid = x.rid => y = x
    BY EntryFacts
  <2> QED BY <2>1
<1> HIDE DEF R, T, X, C, entry
<1>7. R \subseteq Requests
  BY <1>4, EntryFacts
<1>8. \A r \in R : r \in finished \/ (r \notin finished /\ r \notin dropped)
  BY <1>4, EntryFacts
<1>9. fin \subseteq T /\ \A r \in T : r \notin fin => ~(Committed(r) + 1 >= MaxNew)
  BY <1>3 DEF LastOf
<1>10. fin \subseteq R \ finished
  BY <1>5, <1>9
<1>11. ASSUME NEW r \in R \ finished, r \notin fin PROVE Len(tokens[r]) + 1 < MaxNew
  <2>1. r \notin dropped /\ r \in Requests /\ ~(Committed(r) + 1 >= MaxNew)
    BY <1>5, <1>7, <1>8, <1>9, <1>11
  <2>2. Committed(r) = Len(tokens[r]) /\ Len(tokens[r]) \in Nat
    BY <2>1, CommittedIs
  <2> QED BY <2>1, <2>2, ChunkedAssumption
<1>12. G = {r \in R : r \in canceled /\ inflight[r] <= 1}
  BY <1>5 DEF NoneLeft
<1>13. canceled \subseteq finished /\ canceled \subseteq dropped
  BY <1>0 DEF Standing
<1>14. /\ G \cup over(fin) = {r \in R : r \in finished \cup fin /\ inflight[r] <= 1}
       /\ over(fin) \ dropped = {q \in R : q \in finished \cup fin /\ inflight[q] <= 1} \ dropped
  BY <1>5, <1>10, <1>13 DEF NoneLeft
<1>15. ended' = [r \in Requests |-> IF r \in over(fin) \ dropped THEN ended[r] + 1 ELSE ended[r]]
  <2>1. over(fin) \ dropped = over(fin)
    <3>1. ASSUME NEW r \in R, r \notin canceled PROVE r \notin dropped
      <4>1. PICK x \in decodes[1] : x.rid = r
        BY <1>4
      <4>2. r \in known
        BY <4>1, EntryFacts
      <4> QED BY <1>0, <3>1, <4>2 DEF Standing
    <3>2. \A r \in over(fin) : r \in R /\ r \notin canceled
      BY <1>5, <1>10, <1>13
    <3> QED BY <3>1, <3>2
  <2> HIDE DEF over
  <2> QED BY <1>2, <1>3, <2>1 DEF Reported
<1>16. ASSUME NEW x \in decodes[1]
       PROVE  ids'[x.rid] = IF x.rid \in finished \ canceled
                            THEN RemoveAt(ids[x.rid], Len(ids[x.rid]))
                            ELSE [ids[x.rid] EXCEPT ![x.pos] = x.pos]
  <2>1. x.rid \in R /\ x.rid \in Requests
    BY <1>4, <1>7
  <2>2. ids'[x.rid] = Resolved(x)
    BY <1>1, <1>6, <2>1
  <2>3. x \in OfExtra <=> x.rid \in finished \ canceled
    BY DEF OfExtra
  <2>4. x.rid \in finished \ canceled => x.pos = Len(ids[x.rid])
    BY EntryFacts
  <2>5. InRange(x)
    BY EntryFacts DEF InRange
  <2> QED BY <2>2, <2>3, <2>4, <2>5 DEF Resolved
<1>17. tokens' = [r \in Requests |-> IF r \in T
                                    THEN Append(tokens[r], [q \in T |-> entry(q).pos][r]) ELSE tokens[r]]
  BY <1>1 DEF Returned
<1>18. ASSUME NEW x \in decodes[1], x.rid \notin finished
       PROVE  tokens'[x.rid] = Append(tokens[x.rid], x.pos)
  <2>1. x.rid \in T /\ x.rid \in Requests
    BY <1>4, <1>5, <1>7, <1>8, <1>18
  <2>2. [q \in T |-> entry(q).pos][x.rid] = x.pos
    BY <1>6, <2>1
  <2> QED BY <1>17, <2>1, <2>2
<1>19. tokens' = [r \in Requests |-> tokens'[r]] /\ \A r \in Requests \ (R \ finished) : tokens'[r] = tokens[r]
  BY <1>5, <1>17
<1>20. ids' = [r \in Requests |-> ids'[r]] /\ \A r \in Requests \ R : ids'[r] = ids[r]
  BY <1>1
<1>21. /\ finished' = finished \cup fin
       /\ held' = held \ {r \in R : r \in finished \cup fin /\ inflight[r] <= 1}
       /\ ended' = [r \in Requests |->
                 IF r \in {q \in R : q \in finished \cup fin /\ inflight[q] <= 1} \ dropped
                 THEN ended[r] + 1 ELSE ended[r]]
  <2> HIDE DEF over, G
  <2> QED BY <1>2, <1>3, <1>14, <1>15
<1>22. known' = known \ G /\ canceled' = canceled \ G
  BY <1>1
<1>23. R \in SUBSET Requests /\ G \in SUBSET Requests /\ fin \in SUBSET Requests
  BY <1>7, <1>10, <1>12
<1>24. inflight' = [r \in Requests |-> IF r \in R THEN inflight[r] - 1 ELSE inflight[r]]
  BY <1>1
<1> HIDE DEF G
<1> QED
  BY ONLY <1>4, <1>10, <1>11, <1>12, <1>16, <1>18, <1>19, <1>20, <1>21, <1>22, <1>23, <1>24

\* The ids of a request whose token arrives: e is put into its place, or the
\* last placeholder is taken out again.
LEMMA ResolvedFacts ==
  ASSUME IInv, 1 \in DOMAIN decodes, NEW e \in decodes[1],
         ids'[e.rid] = IF e.rid \in finished \ canceled
                       THEN RemoveAt(ids[e.rid], Len(ids[e.rid]))
                       ELSE [ids[e.rid] EXCEPT ![e.pos] = e.pos]
  PROVE  /\ ids'[e.rid] \in Seq(Nat) /\ Len(ids'[e.rid]) <= Len(ids[e.rid])
         /\ DOMAIN ids'[e.rid] \subseteq DOMAIN ids[e.rid]
         /\ \A p \in DOMAIN ids'[e.rid] : ids'[e.rid][p] = IF p = e.pos THEN p ELSE ids[e.rid][p]
         /\ e.rid \in finished \ canceled =>
              Len(ids'[e.rid]) = Len(ids[e.rid]) - 1 /\ e.pos \notin DOMAIN ids'[e.rid]
         /\ e.rid \notin finished \ canceled =>
              Len(ids'[e.rid]) = Len(ids[e.rid]) /\ DOMAIN ids'[e.rid] = DOMAIN ids[e.rid]
<1>0. PICK z : z = ids'[e.rid]
  OBVIOUS
<1>1. PICK q \in Seq(Nat), m \in Nat : q = ids[e.rid] /\ m = Len(q) /\ DOMAIN q = 1..m
  BY EntryFacts
<1>2. e.pos \in Nat \ {0} /\ e.pos \in 1..m /\ q # <<>>
  BY <1>1, EntryFacts
<1>3. CASE e.rid \in finished \ canceled
  <2>1. e.pos = m
    BY <1>1, <1>3, EntryFacts
  <2>2. z = RemoveAt(q, Len(q))
    BY <1>0, <1>1, <1>3
  <2>3. z \in Seq(Nat) /\ Len(z) = m - 1 /\ \A p \in 1..(m - 1) : z[p] = q[p]
    BY <1>1, <1>2, <2>2, RemoveLast
  <2>4. DOMAIN z = 1..(m - 1)
    BY <1>1, <2>3
  <2>5. Len(z) <= m /\ DOMAIN z \subseteq 1..m /\ m \notin DOMAIN z
    BY <2>3, <2>4
  <2>6. \A p \in DOMAIN z : p # e.pos /\ z[p] = q[p]
    BY <2>1, <2>3, <2>4, <2>5
  <2> QED BY ONLY <1>0, <1>1, <1>3, <2>1, <2>3, <2>5, <2>6
<1>4. CASE e.rid \notin finished \ canceled
  <2>1. z = [q EXCEPT ![e.pos] = e.pos]
    BY <1>0, <1>1, <1>4
  <2>2. q \in [1..m -> Nat]
    BY <1>1
  <2>3. z \in [1..m -> Nat] /\ \A p \in 1..m : z[p] = IF p = e.pos THEN p ELSE q[p]
    BY <1>2, <2>1, <2>2
  <2>4. z \in Seq(Nat) /\ Len(z) = m /\ DOMAIN z = 1..m
    BY <1>1, <2>3
  <2> QED BY ONLY <1>0, <1>1, <1>4, <2>3, <2>4
<1> QED BY <1>3, <1>4

\* Results that are tokens fill their placeholders; those of sessions that are
\* over are cut off.
LEMMA TakeEntriesInv == ASSUME IInv, decodes # <<>>, pc = "takeDecode", TakeEntries PROVE IInv'
<1>0. Types /\ Phases /\ Counted /\ Standing /\ Decodings /\ Texts /\ Chunks /\ Places
  BY DEF IInv
<1>1. /\ UNCHANGED <<overlap, left, prefillRids, decodeRids, prefills, dropped>>
      /\ decodes' = Tail(decodes) /\ pc' = "takePrefill"
  BY DEF TakeEntries, queued
<1>2. /\ 1 \in DOMAIN decodes /\ Entries = decodes[1] /\ Len(decodes) \in Nat
      /\ decodes' \in Seq(SUBSET EntrySet) /\ Len(decodes') = Len(decodes) - 1
      /\ \A i \in DOMAIN decodes' : i \in Nat \ {0} /\ i + 1 \in DOMAIN decodes /\ decodes'[i] = decodes[i + 1]
      /\ \A k \in DOMAIN decodes : k # 1 =>
           \E i \in DOMAIN decodes' : k = i + 1 /\ decodes'[i] = decodes[k]
      /\ \A r \in Requests :
           /\ DecodesOf(r) \subseteq 1..Len(decodes)
           /\ DecodesOf(r)' = {i \in 1..(Len(decodes) - 1) : i + 1 \in DecodesOf(r)}
           /\ 1 \in DecodesOf(r) <=> \E x \in decodes[1] : x.rid = r
           /\ ChunksOf(r)' = ChunksOf(r)
           /\ LastChunkInFlight(r)' <=> LastChunkInFlight(r)
  <2>1. UNCHANGED prefills
    BY <1>1
  <2> QED BY ONLY IInv, decodes # <<>>, <1>1, <2>1, TailDecodes
<1>3. PICK R, G, fin \in SUBSET Requests :
           /\ \A r : r \in R <=> \E x \in decodes[1] : x.rid = r
           /\ G = {r \in R : r \in canceled /\ inflight[r] <= 1}
           /\ fin \subseteq R \ finished
           /\ \A r \in R \ finished : r \notin fin => Len(tokens[r]) + 1 < MaxNew
           /\ known' = known \ G /\ canceled' = canceled \ G /\ finished' = finished \cup fin
           /\ held' = held \ {r \in R : r \in finished \cup fin /\ inflight[r] <= 1}
           /\ ended' = [r \in Requests |->
                 IF r \in {q \in R : q \in finished \cup fin /\ inflight[q] <= 1} \ dropped
                 THEN ended[r] + 1 ELSE ended[r]]
           /\ inflight' = [r \in Requests |-> IF r \in R THEN inflight[r] - 1 ELSE inflight[r]]
           /\ ids' = [r \in Requests |-> ids'[r]] /\ \A r \in Requests \ R : ids'[r] = ids[r]
           /\ \A x \in decodes[1] :
                ids'[x.rid] = IF x.rid \in finished \ canceled
                              THEN RemoveAt(ids[x.rid], Len(ids[x.rid]))
                              ELSE [ids[x.rid] EXCEPT ![x.pos] = x.pos]
           /\ tokens' = [r \in Requests |-> tokens'[r]] /\ \A r \in Requests \ (R \ finished) : tokens'[r] = tokens[r]
           /\ \A x \in decodes[1] : x.rid \notin finished =>
                tokens'[x.rid] = Append(tokens[x.rid], x.pos)
  BY <1>2, TakeEntriesFacts
<1>4. ASSUME NEW e \in decodes[1]
      PROVE  /\ ids'[e.rid] \in Seq(Nat) /\ Len(ids'[e.rid]) <= Len(ids[e.rid])
             /\ DOMAIN ids'[e.rid] \subseteq DOMAIN ids[e.rid]
             /\ \A p \in DOMAIN ids'[e.rid] : ids'[e.rid][p] = IF p = e.pos THEN p ELSE ids[e.rid][p]
             /\ e.rid \in finished \ canceled =>
                  Len(ids'[e.rid]) = Len(ids[e.rid]) - 1 /\ e.pos \notin DOMAIN ids'[e.rid]
             /\ e.rid \notin finished \ canceled =>
                  Len(ids'[e.rid]) = Len(ids[e.rid]) /\ DOMAIN ids'[e.rid] = DOMAIN ids[e.rid]
  <2>1. 1 \in DOMAIN decodes /\ e \in decodes[1]
    BY <1>2
  <2>2. ids'[e.rid] = IF e.rid \in finished \ canceled
                      THEN RemoveAt(ids[e.rid], Len(ids[e.rid]))
                      ELSE [ids[e.rid] EXCEPT ![e.pos] = e.pos]
    BY <1>3
  <2> QED BY ONLY IInv, <2>1, <2>2, ResolvedFacts
<1>5. \A r \in R : /\ r \in Requests /\ Flying(r) /\ r \in held /\ r \in known /\ ended[r] = 0
                   /\ ids[r] # <<>> /\ (r \notin finished => r \notin dropped)
                   /\ 1 \in DecodesOf(r)
  <2> SUFFICES ASSUME NEW r \in R
               PROVE  /\ r \in Requests /\ Flying(r) /\ r \in held /\ r \in known /\ ended[r] = 0
                      /\ ids[r] # <<>> /\ (r \notin finished => r \notin dropped)
                      /\ 1 \in DecodesOf(r)
    OBVIOUS
  <2>1. PICK e \in decodes[1] : e.rid = r
    BY <1>3
  <2>2. /\ r \in Requests /\ Flying(r) /\ r \in held /\ r \in known /\ ended[r] = 0
        /\ (r \notin finished => r \notin dropped)
        /\ e.pos \in DOMAIN ids[r]
    BY <1>2, <2>1, EntryFacts
  <2>3. ids[r] # <<>>
    BY <2>2
  <2> QED BY <1>2, <2>1, <2>2, <2>3
<1>6. \A r \in Requests \ R : 1 \notin DecodesOf(r)
  BY <1>2, <1>3
<1>7. canceled \subseteq finished /\ canceled \subseteq dropped
  BY <1>0 DEF Standing
<1>8. ASSUME NEW r \in Requests
      PROVE  /\ inflight'[r] = InFlight(r)'
             /\ Flying(r)' => Flying(r)
             /\ r \in R => (inflight[r] <= 1 <=> ~Flying(r)')
             /\ inflight'[r] \in Nat
  <2>1. InFlight(r)' = Cardinality(DecodesOf(r)') + Cardinality(ChunksOf(r)')
    BY DEF InFlight, DecodesOf, ChunksOf
  <2>2. /\ Cardinality(DecodesOf(r)) \in Nat /\ Cardinality(ChunksOf(r)) \in Nat
        /\ inflight[r] = Cardinality(DecodesOf(r)) + Cardinality(ChunksOf(r))
        /\ inflight[r] \in Nat
    BY <1>0, FlyingCounts DEF Types
  <2>3. PICK n \in Nat \ {0} : n = Len(decodes)
    BY <1>2, <1>0 DEF Types
  <2>4. PICK D, F : D = DecodesOf(r) /\ F = {i \in 1..(n - 1) : i + 1 \in D}
    OBVIOUS
  <2>5. D \subseteq 1..n /\ DecodesOf(r)' = F
    BY <1>2, <2>3, <2>4
  <2>6. /\ Cardinality(F) \in Nat /\ Cardinality(D) \in Nat
        /\ Cardinality(D) = IF 1 \in D THEN Cardinality(F) + 1 ELSE Cardinality(F)
    <3>1. n \in Nat \ {0} /\ D \subseteq 1..n
      BY <2>5
    <3>2. LET X == {i \in 1..(n - 1) : i + 1 \in D}
          IN  /\ Cardinality(X) \in Nat /\ Cardinality(D) \in Nat
              /\ Cardinality(D) = IF 1 \in D THEN Cardinality(X) + 1 ELSE Cardinality(X)
      BY ONLY <3>1, IndexTail
    <3> QED BY <2>4, <3>2
  <2>7. ChunksOf(r)' = ChunksOf(r)
    BY <1>2
  <2>8. inflight'[r] = Cardinality(F) + Cardinality(ChunksOf(r))
    <3>1. inflight'[r] = IF r \in R THEN inflight[r] - 1 ELSE inflight[r]
      BY <1>3
    <3>2. CASE r \in R
      <4>1. 1 \in D
        BY <1>5, <2>4, <3>2
      <4> QED BY <2>2, <2>4, <2>6, <3>1, <3>2, <4>1
    <3>3. CASE r \notin R
      <4>1. 1 \notin D
        BY <1>6, <2>4, <3>3
      <4> QED BY <2>2, <2>4, <2>6, <3>1, <3>3, <4>1
    <3> QED BY <3>2, <3>3
  <2>9. /\ Cardinality(F) = 0 <=> F = {}
        /\ Cardinality(ChunksOf(r)) = 0 <=> ChunksOf(r) = {}
    <3>1. IsFiniteSet(F)
      <4>1. F \subseteq 1..n
        BY <2>3, <2>4
      <4> QED BY <4>1, IndexAppend
    <3>2. IsFiniteSet(ChunksOf(r))
      <4>1. ChunksOf(r) \subseteq 1..Len(prefills) /\ Len(prefills) \in Nat
        BY <1>0 DEF ChunksOf, Types
      <4> QED BY <4>1, IndexAppend
    <3> QED BY <3>1, <3>2, FS_EmptySet
  <2>10. Flying(r)' <=> F # {} \/ ChunksOf(r) # {}
    BY <2>5, <2>7 DEF Flying
  <2>11. Flying(r)' => Flying(r)
    BY <2>4, <2>10 DEF Flying
  <2>12. r \in R => (inflight[r] <= 1 <=> ~Flying(r)')
    <3> SUFFICES ASSUME r \in R PROVE inflight[r] <= 1 <=> ~Flying(r)'
      OBVIOUS
    <3>1. inflight[r] = Cardinality(F) + 1 + Cardinality(ChunksOf(r))
      BY <1>5, <2>2, <2>4, <2>6
    <3>2. inflight[r] <= 1 <=> Cardinality(F) = 0 /\ Cardinality(ChunksOf(r)) = 0
      BY <2>2, <2>6, <3>1
    <3> QED BY <2>9, <2>10, <3>2
  <2>13. inflight'[r] = InFlight(r)' /\ inflight'[r] \in Nat
    BY <2>1, <2>2, <2>5, <2>6, <2>7, <2>8
  <2> QED BY <2>11, <2>12, <2>13
<1>9. Counted'
  BY <1>8 DEF Counted
<1>10. Types'
  <2>1. ids' \in [Requests -> Seq(Nat)]
    <3>1. \A r \in Requests : ids'[r] \in Seq(Nat)
      <4> SUFFICES ASSUME NEW r \in Requests PROVE ids'[r] \in Seq(Nat)
        OBVIOUS
      <4>1. CASE r \in R
        <5>1. PICK e \in decodes[1] : e.rid = r
          BY <1>3, <4>1
        <5> QED BY <1>4, <5>1
      <4>2. CASE r \notin R
        BY <1>0, <1>3, <4>2 DEF Types
      <4> QED BY <4>1, <4>2
    <3> QED BY <1>3, <3>1
  <2>2. tokens' \in [Requests -> Seq(Nat)]
    <3>1. \A r \in Requests : tokens'[r] \in Seq(Nat)
      <4> SUFFICES ASSUME NEW r \in Requests PROVE tokens'[r] \in Seq(Nat)
        OBVIOUS
      <4>0. tokens[r] \in Seq(Nat)
        BY <1>0 DEF Types
      <4>1. CASE r \in R \ finished
        <5>1. PICK e \in decodes[1] : e.rid = r
          BY <1>3, <4>1
        <5>2. e.pos \in Nat /\ tokens'[r] = Append(tokens[r], e.pos)
          BY <1>2, <1>3, <4>1, <5>1, EntryFacts
        <5> QED BY <4>0, <5>2, AppendFacts
      <4>2. CASE r \notin R \ finished
        BY <1>3, <4>0, <4>2
      <4> QED BY <4>1, <4>2
    <3> QED BY <1>3, <3>1
  <2>3. inflight' \in [Requests -> Nat]
    <3>1. \A r \in Requests : inflight'[r] \in Nat
      BY <1>8
    <3>2. DOMAIN inflight' = Requests
      BY <1>3
    <3>3. inflight' = [r \in Requests |-> inflight'[r]]
      BY <1>3
    <3> QED BY <3>1, <3>3
  <2>4. ended' \in [Requests -> 0..1]
    <3>1. ended \in [Requests -> 0..1]
      BY <1>0 DEF Types
    <3>2. \A r \in Requests : ended'[r] \in 0..1
      BY <1>3, <1>5, <3>1
    <3>3. ended' = [r \in Requests |-> ended'[r]]
      BY <1>3
    <3> QED BY <3>2, <3>3
  <2>5. /\ known' \subseteq Requests /\ finished' \subseteq Requests /\ held' \subseteq Requests
        /\ canceled' \subseteq Requests
    BY <1>0, <1>3 DEF Types
  <2> QED BY <1>0, <1>1, <1>2, <2>1, <2>2, <2>3, <2>4, <2>5 DEF Types
<1>11. Phases'
  <2>1. Len(decodes) <= 2 /\ Len(prefills) <= 2
    BY <1>0 DEF Phases
  <2>2. Len(decodes') <= 1
    BY <1>2, <2>1
  <2>3. overlap
    BY <1>0 DEF Phases
  <2> QED BY <1>1, <2>1, <2>2, <2>3 DEF Phases
<1>12. Standing'
  <2>1. held' \subseteq known'
    BY <1>0, <1>3, <1>7 DEF Standing
  <2>2. known' \ finished' \subseteq held'
    BY <1>0, <1>3 DEF Standing
  <2>3. known' \cap dropped' = canceled' /\ canceled' \subseteq finished'
    BY <1>0, <1>1, <1>3 DEF Standing
  <2>4. finished' \subseteq known' \cup dropped'
    BY <1>0, <1>1, <1>3, <1>5, <1>7 DEF Standing
  <2>5. ASSUME NEW r \in Requests, Flying(r)' PROVE r \in held'
    BY <1>0, <1>3, <1>8, <2>5 DEF Standing
  <2>6. ASSUME NEW r \in Requests, ended'[r] = 1 PROVE r \in finished' /\ ~Flying(r)'
    <3>1. CASE r \in {q \in R : q \in finished \cup fin /\ inflight[q] <= 1} \ dropped
      BY <1>3, <1>8, <3>1
    <3>2. CASE r \notin {q \in R : q \in finished \cup fin /\ inflight[q] <= 1} \ dropped
      <4>1. ended[r] = 1
        BY <1>3, <2>6, <3>2
      <4> QED BY <1>0, <1>3, <1>8, <4>1 DEF Standing
    <3> QED BY <3>1, <3>2
  <2>7. ASSUME NEW r \in Requests, ids'[r] # <<>> PROVE r \in known' \cup dropped'
    <3>1. ids[r] # <<>>
      BY <1>3, <1>5, <2>7
    <3> QED BY <1>0, <1>1, <1>3, <1>7, <3>1 DEF Standing
  <2> QED BY <2>1, <2>2, <2>3, <2>4, <2>5, <2>6, <2>7 DEF Standing
<1>13. Decodings'
  <2>1. (\A i \in DOMAIN decodes : \A x, y \in decodes[i] : x.rid = y.rid => x = y)'
    <3> SUFFICES ASSUME NEW i \in DOMAIN decodes' PROVE \A x, y \in decodes'[i] : x.rid = y.rid => x = y
      OBVIOUS
    <3> QED BY <1>0, <1>2 DEF Decodings
  <2>2. (\A i, j \in DOMAIN decodes : \A x \in decodes[i], y \in decodes[j] :
          i < j /\ x.rid = y.rid => x.pos < y.pos)'
    <3> SUFFICES ASSUME NEW i \in DOMAIN decodes', NEW j \in DOMAIN decodes', i < j
                 PROVE  \A x \in decodes'[i], y \in decodes'[j] : x.rid = y.rid => x.pos < y.pos
      OBVIOUS
    <3>1. PICK k, l \in DOMAIN decodes : k = i + 1 /\ l = j + 1 /\ decodes'[i] = decodes[k] /\ decodes'[j] = decodes[l]
      BY <1>2
    <3>2. k < l
      BY <1>2, <3>1
    <3> QED BY <1>0, <3>1, <3>2 DEF Decodings
  <2>3. (\A i \in DOMAIN decodes : \A x \in decodes[i] :
          /\ x.pos \in DOMAIN ids[x.rid] /\ ids[x.rid][x.pos] = Placeholder
          /\ x.rid \in finished \ canceled => x.pos = Len(ids[x.rid]))'
    <3> SUFFICES ASSUME NEW i \in DOMAIN decodes', NEW x \in decodes'[i]
                 PROVE  /\ x.pos \in DOMAIN ids'[x.rid] /\ ids'[x.rid][x.pos] = Placeholder
                        /\ x.rid \in finished' \ canceled' => x.pos = Len(ids'[x.rid])
      OBVIOUS
    <3>1. PICK k \in DOMAIN decodes : k = i + 1 /\ decodes'[i] = decodes[k]
      BY <1>2
    <3>2. k # 1 /\ x \in decodes[k] /\ x.rid \in Requests
      BY <1>0, <1>2, <3>1, EntryTypes
    <3>3. /\ x.pos \in DOMAIN ids[x.rid] /\ ids[x.rid][x.pos] = Placeholder
          /\ x.rid \in finished \ canceled => x.pos = Len(ids[x.rid])
      BY <1>0, <3>2 DEF Decodings
    <3>4. CASE x.rid \notin R
      <4>1. ids'[x.rid] = ids[x.rid] /\ (x.rid \in finished' \ canceled' => x.rid \in finished \ canceled)
        BY <1>3, <3>2, <3>4
      <4> QED BY <3>3, <4>1
    <3>5. CASE x.rid \in R
      <4>1. PICK e \in decodes[1] : e.rid = x.rid
        BY <1>3, <3>5
      <4>2. /\ e.pos < x.pos /\ x.pos \in Nat /\ x.rid \notin finished \ canceled
            /\ x.rid \notin dropped => x.pos = Len(ids[x.rid])
        BY <1>2, <3>2, <4>1, LaterEntry
      <4>3. e.pos \in Nat /\ e.pos # x.pos
        BY <1>2, <4>2, EntryFacts
      <4>4. Len(ids'[x.rid]) = Len(ids[x.rid]) /\ DOMAIN ids'[x.rid] = DOMAIN ids[x.rid]
        BY <1>4, <4>1, <4>2
      <4>5. x.pos \in DOMAIN ids'[x.rid] /\ ids'[x.rid][x.pos] = Placeholder
        <5>1. \A p \in DOMAIN ids'[x.rid] : ids'[x.rid][p] = IF p = e.pos THEN p ELSE ids[x.rid][p]
          <6>1. \A p \in DOMAIN ids'[e.rid] :
                  ids'[e.rid][p] = IF p = e.pos THEN p ELSE ids[e.rid][p]
            BY <1>4
          <6> QED BY ONLY <4>1, <6>1
        <5> QED BY <3>3, <4>3, <4>4, <5>1
      <4>6. x.rid \in finished' \ canceled' => x.pos = Len(ids'[x.rid])
        <5>1. CASE x.rid \in canceled
          <6>1. Flying(x.rid)'
            BY <3>2 DEF Flying, DecodesOf
          <6> QED BY <1>3, <1>8, <3>2, <3>5, <5>1, <6>1
        <5>2. CASE x.rid \notin canceled
          <6>1. x.rid \notin finished /\ x.rid \notin dropped
            BY <1>5, <3>5, <4>2, <5>2
          <6> QED BY <4>2, <4>4, <6>1
        <5> QED BY <5>1, <5>2
      <4> QED BY <4>5, <4>6
    <3> QED BY <3>4, <3>5
  <2>4. (\A r \in Requests : \A p \in DOMAIN ids[r] :
          ids[r][p] = Placeholder => \E i \in DOMAIN decodes : \E x \in decodes[i] : x.rid = r /\ x.pos = p)'
    <3> SUFFICES ASSUME NEW r \in Requests, NEW p \in DOMAIN ids'[r], ids'[r][p] = Placeholder
                 PROVE  \E i \in DOMAIN decodes' : \E x \in decodes'[i] : x.rid = r /\ x.pos = p
      OBVIOUS
    <3>1. /\ p \in DOMAIN ids[r] /\ ids[r][p] = Placeholder
          /\ \A e \in decodes[1] : e.rid = r => p # e.pos
      <4>1. CASE r \in R
        <5>1. PICK e \in decodes[1] : e.rid = r
          BY <1>3, <4>1
        <5>2. e.pos \in Nat \ {0} /\ \A y \in decodes[1] : y.rid = r => y = e
          BY <1>2, <5>1, EntryFacts
        <5>3. p # e.pos
          BY <1>4, <5>1, <5>2 DEF Placeholder
        <5> QED BY <1>4, <5>1, <5>2, <5>3
      <4>2. CASE r \notin R
        BY <1>3, <4>2
      <4> QED BY <4>1, <4>2
    <3>2. PICK k \in DOMAIN decodes : \E x \in decodes[k] : x.rid = r /\ x.pos = p
      BY <1>0, <3>1 DEF Decodings
    <3>3. k # 1
      BY <3>1, <3>2
    <3>4. PICK i \in DOMAIN decodes' : decodes'[i] = decodes[k]
      BY <1>2, <3>3
    <3> QED BY <3>2, <3>4
  <2> QED BY <2>1, <2>2, <2>3, <2>4 DEF Decodings
<1>14. ASSUME NEW q \in R, q \notin finished
       PROVE  \E l, m \in Nat, e \in decodes[1] :
                /\ e.rid = q /\ e.pos = l + 1 /\ l = Len(tokens[q]) /\ Len(tokens'[q]) = l + 1
                /\ m = Len(ids[q]) /\ Len(ids'[q]) = m /\ DOMAIN ids[q] = 1..m /\ DOMAIN ids'[q] = 1..m
                /\ l < m /\ q \notin dropped
  <2>1. PICK e \in decodes[1] : e.rid = q
    BY <1>3
  <2>2. q \in Requests /\ q \notin dropped /\ q \notin finished \ canceled
    BY <1>5, <1>14
  <2>3. PICK l \in Nat, m \in Nat : l = Len(tokens[q]) /\ m = Len(ids[q])
    BY <1>0, <2>2 DEF Types
  <2>4. e.pos = l + 1 /\ DOMAIN ids[q] = 1..m /\ e.pos \in 1..m
    BY <1>2, <2>1, <2>2, <2>3, EntryFacts
  <2>5. Len(tokens'[q]) = l + 1
    <3>1. tokens'[q] = Append(tokens[q], e.pos) /\ tokens[q] \in Seq(Nat) /\ e.pos \in Nat
      <4>1. tokens[q] \in Seq(Nat)
        BY <1>0, <2>2 DEF Types
      <4>2. e.pos \in Nat
        BY <2>3, <2>4
      <4>3. tokens'[e.rid] = Append(tokens[e.rid], e.pos)
        BY <1>3, <1>14, <2>1
      <4> QED BY <2>1, <4>1, <4>2, <4>3
    <3> QED BY <2>3, <3>1, AppendFacts
  <2>6. Len(ids'[q]) = m /\ DOMAIN ids'[q] = 1..m
    BY <1>4, <2>1, <2>2, <2>3, <2>4
  <2>7. l < m
    BY <2>3, <2>4
  <2> QED BY <2>1, <2>2, <2>3, <2>4, <2>5, <2>6, <2>7
<1>15. Texts'
  <2> SUFFICES ASSUME NEW q \in Requests
               PROVE  /\ Len(ids'[q]) <= MaxNew
                      /\ q \in known' \ finished' => Len(tokens'[q]) < MaxNew
                      /\ q \notin dropped' =>
                           /\ Len(tokens'[q]) <= Len(ids'[q])
                           /\ \A p \in DOMAIN ids'[q] :
                                ids'[q][p] = Placeholder <=> p > Len(tokens'[q])
    BY DEF Texts
  <2>0. /\ Len(ids[q]) <= MaxNew
        /\ q \in known \ finished => Len(tokens[q]) < MaxNew
        /\ q \notin dropped =>
             /\ Len(tokens[q]) <= Len(ids[q])
             /\ \A p \in DOMAIN ids[q] : ids[q][p] = Placeholder <=> p > Len(tokens[q])
    BY <1>0 DEF Texts
  <2>1. CASE q \notin R
    <3>1. ids'[q] = ids[q] /\ tokens'[q] = tokens[q] /\ (q \in known' \ finished' => q \in known \ finished)
      BY <1>3, <2>1
    <3> QED BY <1>1, <2>0, <3>1
  <2>2. CASE q \in R /\ q \notin finished
    <3>1. PICK l, m \in Nat, e \in decodes[1] :
                /\ e.rid = q /\ e.pos = l + 1 /\ l = Len(tokens[q]) /\ Len(tokens'[q]) = l + 1
                /\ m = Len(ids[q]) /\ Len(ids'[q]) = m /\ DOMAIN ids[q] = 1..m /\ DOMAIN ids'[q] = 1..m
                /\ l < m /\ q \notin dropped
      BY <1>14, <2>2
    <3>2. q \in known' \ finished' => l + 1 < MaxNew
      BY <1>3, <2>2, <3>1
    <3>3. \A p \in 1..m : ids'[q][p] = IF p = l + 1 THEN p ELSE ids[q][p]
      <4>1. \A p \in DOMAIN ids'[e.rid] :
              ids'[e.rid][p] = IF p = e.pos THEN p ELSE ids[e.rid][p]
        BY <1>4
      <4> QED BY ONLY <3>1, <4>1
    <3>4. \A p \in 1..m : ids[q][p] = Placeholder <=> p > l
      BY <2>0, <3>1
    <3>5. \A p \in 1..m : ids'[q][p] = Placeholder <=> p > l + 1
      BY <3>3, <3>4 DEF Placeholder
    <3>6. l + 1 <= m
      BY <3>1
    <3> QED BY <2>0, <3>1, <3>2, <3>5, <3>6
  <2>3. CASE q \in R /\ q \in finished \ canceled
    <3>1. PICK e \in decodes[1] : e.rid = q
      BY <1>3, <2>3
    <3>2. q \notin dropped
      BY <1>0, <1>5, <2>3 DEF Standing
    <3>3. PICK l \in Nat, m \in Nat : l = Len(tokens[q]) /\ m = Len(ids[q])
      BY <1>0 DEF Types
    <3>4. e.pos = l + 1 /\ e.pos = m /\ DOMAIN ids[q] = 1..m /\ e.pos \in 1..m
      <4>1. 1 \in DOMAIN decodes /\ e \in decodes[1]
        BY <1>2, <3>1
      <4>2. /\ e.pos \in DOMAIN ids[e.rid] /\ DOMAIN ids[e.rid] = 1..Len(ids[e.rid])
            /\ e.rid \notin dropped => e.pos = Len(tokens[e.rid]) + 1
            /\ e.rid \in finished \ canceled => e.pos = Len(ids[e.rid])
        BY ONLY IInv, <4>1, EntryFacts
      <4>3. /\ e.pos \in DOMAIN ids[q] /\ DOMAIN ids[q] = 1..Len(ids[q])
            /\ e.pos = Len(tokens[q]) + 1 /\ e.pos = Len(ids[q])
        BY ONLY <2>3, <3>1, <3>2, <4>2
      <4> QED BY ONLY <3>3, <4>3
    <3>5. /\ Len(ids'[q]) = m - 1 /\ DOMAIN ids'[q] \subseteq 1..m /\ e.pos \notin DOMAIN ids'[q]
          /\ \A p \in DOMAIN ids'[q] : ids'[q][p] = ids[q][p]
      BY <1>4, <2>3, <3>1, <3>3, <3>4
    <3>6. tokens'[q] = tokens[q] /\ q \in finished'
      BY <1>3, <2>3
    <3>7. Len(ids'[q]) <= MaxNew /\ l <= Len(ids'[q])
      BY <2>0, <3>3, <3>4, <3>5, ChunkedAssumption
    <3> QED BY <2>0, <3>2, <3>3, <3>4, <3>5, <3>6, <3>7
  <2>4. CASE q \in R /\ q \in canceled
    <3>1. PICK e \in decodes[1] : e.rid = q
      BY <1>3, <2>4
    <3>2. Len(ids'[q]) = Len(ids[q])
      BY <1>4, <2>4, <3>1
    <3>3. q \in dropped' /\ q \in finished'
      BY <1>1, <1>3, <1>7, <2>4
    <3> QED BY <2>0, <3>2, <3>3
  <2> QED BY <2>1, <2>2, <2>3, <2>4
<1>16. Chunks'
  <2>1. \A i \in DOMAIN prefills : prefills[i].all \subseteq Requests
    BY <1>0, ChunkTypes
  <2>2. UNCHANGED prefills
    BY <1>1
  <2>3. \A r \in Requests : (\E i \in DOMAIN prefills : r \in prefills[i].all) => r \notin R
    BY <1>0, <1>5 DEF Chunks
  <2>4. \A r \in Requests : (\E i \in DOMAIN prefills : r \in prefills[i].all) =>
            /\ ids'[r] = ids[r] /\ (left[r] = 0 => left'[r] = 0)
            /\ r \in finished' => r \in finished \/ r \in canceled'
            /\ r \in canceled => r \in canceled'
    BY <1>1, <1>3, <2>3
  <2> QED BY <1>0, <2>1, <2>2, <2>4, ChunksKept
<1>17. Places'
  <2>1. ASSUME NEW q \in known' \ finished'
        PROVE  /\ ids'[q] = <<>> => /\ q \notin Range(decodeRids')
                                    /\ q \in Range(prefillRids') <=> left'[q] > 0
                                    /\ LastChunkInFlight(q)' <=> left'[q] = 0
               /\ ids'[q] # <<>> => /\ q \notin Range(prefillRids')
                                    /\ q \in Range(decodeRids') \/ LastTokenInFlight(q)'
    <3>1. q \in Requests /\ q \in known \ finished /\ q \notin fin
      BY <1>0, <1>3 DEF Types
    <3>2. /\ ids[q] = <<>> => /\ q \notin Range(decodeRids)
                              /\ q \in Range(prefillRids) <=> left[q] > 0
                              /\ LastChunkInFlight(q) <=> left[q] = 0
          /\ ids[q] # <<>> => /\ q \notin Range(prefillRids)
                              /\ q \in Range(decodeRids) \/ LastTokenInFlight(q)
      BY <1>0, <3>1 DEF Places
    <3>3. CASE q \notin R
      <4>1. ids'[q] = ids[q]
        BY <1>3, <3>1, <3>3
      <4>2. LastTokenInFlight(q) => LastTokenInFlight(q)'
        <5> SUFFICES ASSUME LastTokenInFlight(q) PROVE LastTokenInFlight(q)'
          OBVIOUS
        <5>1. PICK k \in DOMAIN decodes : \E x \in decodes[k] : x.rid = q
          BY DEF LastTokenInFlight
        <5>2. k # 1
          BY <1>3, <3>3, <5>1
        <5>3. PICK i \in DOMAIN decodes' : decodes'[i] = decodes[k]
          BY <1>2, <5>2
        <5>4. Len(ids'[q]) = MaxNew
          BY <4>1 DEF LastTokenInFlight
        <5> QED BY <5>1, <5>3, <5>4 DEF LastTokenInFlight
      <4>3. LastChunkInFlight(q)' <=> LastChunkInFlight(q)
        BY <1>2, <3>1
      <4> QED BY <1>1, <3>2, <4>1, <4>2, <4>3
    <3>4. CASE q \in R
      <4>1. PICK l, m \in Nat, e \in decodes[1] :
                /\ e.rid = q /\ e.pos = l + 1 /\ l = Len(tokens[q]) /\ Len(tokens'[q]) = l + 1
                /\ m = Len(ids[q]) /\ Len(ids'[q]) = m /\ DOMAIN ids[q] = 1..m /\ DOMAIN ids'[q] = 1..m
                /\ l < m /\ q \notin dropped
        BY <1>14, <3>1, <3>4
      <4>2. ids'[q] # <<>> /\ ids[q] # <<>>
        BY <4>1
      <4>3. LastTokenInFlight(q) => LastTokenInFlight(q)'
        <5> SUFFICES ASSUME LastTokenInFlight(q) PROVE LastTokenInFlight(q)'
          OBVIOUS
        <5>1. m = MaxNew /\ l + 1 < MaxNew
          BY <1>3, <3>1, <3>4, <4>1 DEF LastTokenInFlight
        <5>2. m \in DOMAIN ids[q] /\ m > l /\ m # l + 1
          BY <4>1, <5>1
        <5>3. ids[q][m] = Placeholder
          BY <1>0, <3>1, <4>1, <5>2 DEF Texts
        <5>4. PICK k \in DOMAIN decodes : \E x \in decodes[k] : x.rid = q /\ x.pos = m
          BY <1>0, <3>1, <5>2, <5>3 DEF Decodings
        <5>5. k # 1
          <6>1. \A y \in decodes[1] : y.rid = q => y = e
            BY <1>2, <4>1, EntryFacts
          <6> QED BY <4>1, <5>2, <5>4, <6>1
        <5>6. PICK i \in DOMAIN decodes' : decodes'[i] = decodes[k]
          BY <1>2, <5>5
        <5> QED BY <4>1, <5>1, <5>4, <5>6 DEF LastTokenInFlight
      <4> QED BY <1>1, <3>2, <4>2, <4>3
    <3> QED BY <3>3, <3>4
  <2>2. Range(prefillRids') \cup Range(decodeRids') \subseteq known' \cup dropped'
    BY <1>0, <1>1, <1>3, <1>7 DEF Places
  <2>3. IsInjective(prefillRids') /\ IsInjective(decodeRids')
    BY <1>0, <1>1 DEF Places
  <2> QED BY <2>1, <2>2, <2>3 DEF Places
<1> QED BY <1>9, <1>10, <1>11, <1>12, <1>13, <1>15, <1>16, <1>17 DEF IInv

\* Hence the step that takes the oldest batch of decodes.
LEMMA TakeDecodeInv == ASSUME IInv, TakeDecode PROVE IInv'
<1>1. decodes # <<>>
  <2>1. decodes \in Seq(SUBSET EntrySet) /\ DecodesDue
    BY DEF IInv, Types, TakeDecode
  <2>2. Len(decodes) > 1 => decodes # <<>>
    OBVIOUS
  <2> QED BY <2>1, <2>2 DEF DecodesDue
<1>2. ~Raises
  BY <1>1, NotRaised
<1>3. TakeEntries /\ pc = "takeDecode"
  BY <1>2 DEF TakeDecode
<1> QED BY <1>1, <1>3, TakeEntriesInv

-----------------------------------------------------------------------------

\* The oldest batch of chunks.
LEMMA TailPrefills ==
  ASSUME IInv, prefills # <<>>, prefills' = Tail(prefills), UNCHANGED decodes
  PROVE  /\ 1 \in DOMAIN prefills /\ Head(prefills) = prefills[1] /\ Len(prefills) \in Nat \ {0}
         /\ prefills' \in Seq(ChunkSet) /\ Len(prefills') = Len(prefills) - 1
         /\ \A i \in DOMAIN prefills' : i \in Nat \ {0} /\ i + 1 \in DOMAIN prefills /\ prefills'[i] = prefills[i + 1]
         /\ \A k \in DOMAIN prefills : k # 1 =>
              \E i \in DOMAIN prefills' : k = i + 1 /\ prefills'[i] = prefills[k]
         /\ \A r \in Requests :
              /\ ChunksOf(r) \subseteq 1..Len(prefills)
              /\ ChunksOf(r)' = {i \in 1..(Len(prefills) - 1) : i + 1 \in ChunksOf(r)}
              /\ 1 \in ChunksOf(r) <=> r \in prefills[1].all
              /\ DecodesOf(r)' = DecodesOf(r)
<1>1. prefills \in Seq(ChunkSet)
  BY DEF IInv, Types
<1> HIDE DEF ChunkSet
<1>2. PICK z : z = Tail(prefills)
  OBVIOUS
<1>3. PICK n \in Nat \ {0} : n = Len(prefills)
  BY <1>1
<1>4. /\ z \in Seq(ChunkSet) /\ Len(z) = n - 1 /\ DOMAIN prefills = 1..n
      /\ Head(prefills) = prefills[1] /\ 1 \in DOMAIN prefills
      /\ \A i \in DOMAIN z : i + 1 \in DOMAIN prefills /\ i \in Nat \ {0} /\ z[i] = prefills[i + 1]
  BY <1>1, <1>2, <1>3, TailFacts
<1>5. DOMAIN z = 1..(n - 1)
  BY <1>3, <1>4
<1>6. ASSUME NEW k \in DOMAIN prefills, k # 1
      PROVE  \E i \in DOMAIN z : k = i + 1 /\ z[i] = prefills[k]
  <2>1. PICK i : i = k - 1
    OBVIOUS
  <2>2. i \in 1..(n - 1) /\ k = i + 1
    BY <1>3, <1>4, <1>6, <2>1
  <2> QED BY <1>4, <1>5, <2>2
<1>7. prefills' = z
  BY <1>2
<1>8. ASSUME NEW r \in Requests
      PROVE  /\ ChunksOf(r) \subseteq 1..n
             /\ ChunksOf(r)' = {i \in 1..(n - 1) : i + 1 \in ChunksOf(r)}
             /\ 1 \in ChunksOf(r) <=> r \in prefills[1].all
             /\ DecodesOf(r)' = DecodesOf(r)
  <2>1. ChunksOf(r)' = {i \in DOMAIN z : r \in z[i].all}
    BY <1>7 DEF ChunksOf
  <2>2. \A i \in 1..(n - 1) : i + 1 \in ChunksOf(r) <=> r \in z[i].all
    BY <1>4, <1>5 DEF ChunksOf
  <2>3. DecodesOf(r)' = DecodesOf(r)
    BY DEF DecodesOf
  <2> QED BY <1>4, <1>5, <2>1, <2>2, <2>3 DEF ChunksOf
<1> QED BY <1>3, <1>4, <1>6, <1>7, <1>8

\* What taking the oldest batch of chunks does: A are its requests, G those of
\* them that are forgotten, F those that get a token, fin those that end.
LEMMA TakePrefillFacts ==
  ASSUME IInv, TakePrefill, 1 \in DOMAIN prefills, Head(prefills) = prefills[1]
  PROVE  \E A, G, F, fin \in SUBSET Requests :
           /\ A = prefills[1].all /\ G = {r \in A : r \in canceled /\ inflight[r] <= 1}
           /\ F = {r \in Range(prefills[1].ready) : r \in canceled => r \in G}
           /\ fin \subseteq F /\ \A r \in F : r \in finished => r \in fin
           /\ \A r \in F : r \notin fin /\ r \notin dropped => Len(tokens[r]) + 1 < MaxNew
           /\ known' = known \ G /\ canceled' = canceled \ G /\ finished' = finished \cup fin
           /\ held' = held \ (G \cup fin)
           /\ ended' = [r \in Requests |-> IF r \in fin THEN ended[r] + 1 ELSE ended[r]]
           /\ inflight' = [r \in Requests |-> IF r \in A THEN inflight[r] - 1 ELSE inflight[r]]
           /\ ids' = [r \in Requests |-> IF r \in F THEN Append(ids[r], 1) ELSE ids[r]]
           /\ tokens' = [r \in Requests |-> IF r \in F THEN Append(tokens[r], 1) ELSE tokens[r]]
           /\ \E t \in Seq(Requests) : /\ decodeRids' = decodeRids \o t
                                       /\ IsInjective(t) /\ Range(t) = F \ fin
<1>0. Types /\ Chunks
  BY DEF IInv
<1> DEFINE A == prefills[1].all
           G == {r \in A \cap canceled : NoneLeft(r)}
           first == Among(prefills[1].ready, Requests \ (canceled \ G))
<1>1. /\ known' = known \ G /\ canceled' = canceled \ G
      /\ inflight' = [r \in Requests |-> IF r \in A THEN inflight[r] - 1 ELSE inflight[r]]
      /\ \E eos \in SUBSET Range(first) :
           LET fin == LastOf(Range(first), eos) \cup (Range(first) \cap finished)
           IN  /\ ids' = [r \in Requests |-> IF r \in Range(first) THEN Append(ids[r], 1) ELSE ids[r]]
               /\ Returned([r \in Range(first) |-> 1])
               /\ finished' = finished \cup fin
               /\ held' = held \ (G \cup fin)
               /\ Reported(fin)
               /\ decodeRids' = decodeRids \o Among(first, Requests \ fin)
  BY DEF TakePrefill, Landed, Forgotten
<1>2. /\ prefills[1].ready \in Seq(Requests) /\ IsInjective(prefills[1].ready)
      /\ Range(prefills[1].ready) \subseteq A /\ A \subseteq Requests
  BY <1>0, ChunkTypes DEF Chunks
<1>3. G = {r \in A : r \in canceled /\ inflight[r] <= 1}
  BY DEF NoneLeft
<1>4. /\ first \in Seq(Requests) /\ IsInjective(first)
      /\ Range(first) = Range(prefills[1].ready) \cap (Requests \ (canceled \ G))
  <2> HIDE DEF G
  <2> QED BY <1>2, AmongFacts
<1>5. Range(first) = {r \in Range(prefills[1].ready) : r \in canceled => r \in G}
  <2> HIDE DEF G
  <2> QED BY ONLY <1>2, <1>4
<1> HIDE DEF G, first, A
<1>6. PICK F : F = Range(first)
  OBVIOUS
<1>7. PICK eos \in SUBSET F :
           LET fin == LastOf(F, eos) \cup (F \cap finished)
           IN  /\ ids' = [r \in Requests |-> IF r \in F THEN Append(ids[r], 1) ELSE ids[r]]
               /\ Returned([r \in F |-> 1])
               /\ finished' = finished \cup fin
               /\ held' = held \ (G \cup fin)
               /\ Reported(fin)
               /\ decodeRids' = decodeRids \o Among(first, Requests \ fin)
  BY <1>1, <1>6
<1>8. PICK fin : fin = LastOf(F, eos) \cup (F \cap finished)
  OBVIOUS
<1>9. /\ ids' = [r \in Requests |-> IF r \in F THEN Append(ids[r], 1) ELSE ids[r]]
      /\ Returned([r \in F |-> 1])
      /\ finished' = finished \cup fin
      /\ held' = held \ (G \cup fin)
      /\ Reported(fin)
      /\ decodeRids' = decodeRids \o Among(first, Requests \ fin)
  BY <1>7, <1>8
<1>10. F \subseteq Requests
  BY <1>2, <1>5, <1>6
<1>11. fin \subseteq F /\ \A r \in F : r \in finished => r \in fin
  BY <1>8 DEF LastOf
<1>12. ASSUME NEW r \in F, r \notin fin, r \notin dropped PROVE Len(tokens[r]) + 1 < MaxNew
  <2>1. ~(Committed(r) + 1 >= MaxNew) /\ r \in Requests
    BY <1>8, <1>10, <1>12 DEF LastOf
  <2>2. Committed(r) = Len(tokens[r]) /\ Len(tokens[r]) \in Nat
    BY <1>12, <2>1, CommittedIs
  <2> QED BY <2>1, <2>2, ChunkedAssumption
<1>13. tokens' = [r \in Requests |-> IF r \in F THEN Append(tokens[r], 1) ELSE tokens[r]]
  BY <1>9 DEF Returned
<1>14. ended' = [r \in Requests |-> IF r \in fin THEN ended[r] + 1 ELSE ended[r]]
  BY <1>9 DEF Reported
<1>15. \E t \in Seq(Requests) : /\ decodeRids' = decodeRids \o t
                                /\ IsInjective(t) /\ Range(t) = F \ fin
  <2>1. PICK t : t = Among(first, Requests \ fin)
    OBVIOUS
  <2>2. t \in Seq(Requests) /\ IsInjective(t) /\ Range(t) = Range(first) \cap (Requests \ fin)
    BY <1>4, <2>1, AmongFacts
  <2>3. Range(t) = F \ fin
    BY <1>6, <1>10, <2>2
  <2> QED BY <1>9, <2>1, <2>2, <2>3
<1>16. A = prefills[1].all /\ A \in SUBSET Requests
  BY <1>2 DEF A
<1>17. G \in SUBSET Requests /\ F \in SUBSET Requests /\ fin \in SUBSET Requests
  BY <1>3, <1>10, <1>11, <1>16
<1>18. F = {r \in Range(prefills[1].ready) : r \in canceled => r \in G}
  BY <1>5, <1>6
<1>19. /\ A = prefills[1].all /\ G = {r \in A : r \in canceled /\ inflight[r] <= 1}
       /\ F = {r \in Range(prefills[1].ready) : r \in canceled => r \in G}
       /\ fin \subseteq F /\ \A r \in F : r \in finished => r \in fin
       /\ \A r \in F : r \notin fin /\ r \notin dropped => Len(tokens[r]) + 1 < MaxNew
       /\ known' = known \ G /\ canceled' = canceled \ G /\ finished' = finished \cup fin
       /\ held' = held \ (G \cup fin)
       /\ ended' = [r \in Requests |-> IF r \in fin THEN ended[r] + 1 ELSE ended[r]]
       /\ inflight' = [r \in Requests |-> IF r \in A THEN inflight[r] - 1 ELSE inflight[r]]
       /\ ids' = [r \in Requests |-> IF r \in F THEN Append(ids[r], 1) ELSE ids[r]]
       /\ tokens' = [r \in Requests |-> IF r \in F THEN Append(tokens[r], 1) ELSE tokens[r]]
       /\ \E t \in Seq(Requests) : /\ decodeRids' = decodeRids \o t
                                   /\ IsInjective(t) /\ Range(t) = F \ fin
  BY ONLY <1>1, <1>3, <1>9, <1>11, <1>12, <1>13, <1>14, <1>15, <1>16, <1>18
<1> QED
  <2> USE <1>16, <1>17
  <2> WITNESS A \in SUBSET Requests, G \in SUBSET Requests, F \in SUBSET Requests, fin \in SUBSET Requests
  <2> QED BY ONLY <1>19

\* Those whose prompt is through get their first token and go to the queue of
\* decodes, which they were not in.
LEMMA TakePrefillInv == ASSUME IInv, TakePrefill PROVE IInv'
<1>0. Types /\ Phases /\ Counted /\ Standing /\ Decodings /\ Texts /\ Chunks /\ Places
  BY DEF IInv
<1>1. /\ UNCHANGED <<overlap, left, prefillRids, decodes, dropped>>
      /\ prefills' = Tail(prefills) /\ pc = "takePrefill" /\ pc' = "idle" /\ PrefillsDue
  BY DEF TakePrefill
<1>2. prefills # <<>>
  <2>1. prefills \in Seq(ChunkSet)
    BY <1>0 DEF Types
  <2>2. Len(prefills) > 1 => prefills # <<>>
    OBVIOUS
  <2> QED BY <1>1, <2>2 DEF PrefillsDue
<1>3. /\ 1 \in DOMAIN prefills /\ Head(prefills) = prefills[1] /\ Len(prefills) \in Nat \ {0}
      /\ prefills' \in Seq(ChunkSet) /\ Len(prefills') = Len(prefills) - 1
      /\ \A i \in DOMAIN prefills' : i \in Nat \ {0} /\ i + 1 \in DOMAIN prefills /\ prefills'[i] = prefills[i + 1]
      /\ \A k \in DOMAIN prefills : k # 1 =>
           \E i \in DOMAIN prefills' : k = i + 1 /\ prefills'[i] = prefills[k]
      /\ \A r \in Requests :
           /\ ChunksOf(r) \subseteq 1..Len(prefills)
           /\ ChunksOf(r)' = {i \in 1..(Len(prefills) - 1) : i + 1 \in ChunksOf(r)}
           /\ 1 \in ChunksOf(r) <=> r \in prefills[1].all
           /\ DecodesOf(r)' = DecodesOf(r)
  <2>1. UNCHANGED decodes
    BY <1>1
  <2> QED BY ONLY IInv, <1>1, <1>2, <2>1, TailPrefills
<1>4. PICK A, G, F, fin \in SUBSET Requests :
           /\ A = prefills[1].all /\ G = {r \in A : r \in canceled /\ inflight[r] <= 1}
           /\ F = {r \in Range(prefills[1].ready) : r \in canceled => r \in G}
           /\ fin \subseteq F /\ \A r \in F : r \in finished => r \in fin
           /\ \A r \in F : r \notin fin /\ r \notin dropped => Len(tokens[r]) + 1 < MaxNew
           /\ known' = known \ G /\ canceled' = canceled \ G /\ finished' = finished \cup fin
           /\ held' = held \ (G \cup fin)
           /\ ended' = [r \in Requests |-> IF r \in fin THEN ended[r] + 1 ELSE ended[r]]
           /\ inflight' = [r \in Requests |-> IF r \in A THEN inflight[r] - 1 ELSE inflight[r]]
           /\ ids' = [r \in Requests |-> IF r \in F THEN Append(ids[r], 1) ELSE ids[r]]
           /\ tokens' = [r \in Requests |-> IF r \in F THEN Append(tokens[r], 1) ELSE tokens[r]]
           /\ \E t \in Seq(Requests) : /\ decodeRids' = decodeRids \o t
                                       /\ IsInjective(t) /\ Range(t) = F \ fin
  BY <1>3, TakePrefillFacts
<1>5. PICK t \in Seq(Requests) : decodeRids' = decodeRids \o t /\ IsInjective(t) /\ Range(t) = F \ fin
  BY <1>4
<1>6. canceled \subseteq finished /\ canceled \subseteq dropped
  BY <1>0 DEF Standing
<1>7. ASSUME NEW r \in A
      PROVE  /\ r \in Requests /\ Flying(r) /\ r \in held /\ r \in known /\ ended[r] = 0 /\ ids[r] = <<>>
             /\ 1 \in ChunksOf(r) /\ (r \in finished => r \in canceled)
  <2>1. 1 \in ChunksOf(r) /\ r \in Requests
    BY <1>3, <1>4
  <2>2. Flying(r)
    BY <2>1 DEF Flying
  <2>3. ids[r] = <<>> /\ (r \in finished => r \in canceled)
    BY <1>0, <1>3, <1>4 DEF Chunks
  <2>4. ended[r] \in 0..1 /\ ended[r] # 1
    BY <1>0, <2>1, <2>2 DEF Standing, Types
  <2>5. r \in held /\ r \in known
    BY <1>0, <2>1, <2>2 DEF Standing
  <2> QED BY <2>1, <2>2, <2>3, <2>4, <2>5
<1>8. ASSUME NEW r \in Requests
      PROVE  /\ inflight'[r] = InFlight(r)'
             /\ Flying(r)' => Flying(r)
             /\ r \in A => (inflight[r] <= 1 <=> ~Flying(r)')
             /\ inflight'[r] \in Nat
  <2>1. InFlight(r)' = Cardinality(DecodesOf(r)') + Cardinality(ChunksOf(r)')
    BY DEF InFlight, DecodesOf, ChunksOf
  <2>2. /\ Cardinality(DecodesOf(r)) \in Nat /\ Cardinality(ChunksOf(r)) \in Nat
        /\ inflight[r] = Cardinality(DecodesOf(r)) + Cardinality(ChunksOf(r))
        /\ inflight[r] \in Nat
    BY <1>0, FlyingCounts DEF Types
  <2>3. PICK n \in Nat \ {0} : n = Len(prefills)
    BY <1>3
  <2>4. PICK D, E : D = ChunksOf(r) /\ E = {i \in 1..(n - 1) : i + 1 \in D}
    OBVIOUS
  <2>5. D \subseteq 1..n /\ ChunksOf(r)' = E
    BY <1>3, <2>3, <2>4
  <2>6. /\ Cardinality(E) \in Nat /\ Cardinality(D) \in Nat
        /\ Cardinality(D) = IF 1 \in D THEN Cardinality(E) + 1 ELSE Cardinality(E)
    <3>1. n \in Nat \ {0} /\ D \subseteq 1..n
      BY <2>5
    <3>2. LET X == {i \in 1..(n - 1) : i + 1 \in D}
          IN  /\ Cardinality(X) \in Nat /\ Cardinality(D) \in Nat
              /\ Cardinality(D) = IF 1 \in D THEN Cardinality(X) + 1 ELSE Cardinality(X)
      BY ONLY <3>1, IndexTail
    <3> QED BY <2>4, <3>2
  <2>7. DecodesOf(r)' = DecodesOf(r)
    BY <1>3
  <2>8. inflight'[r] = Cardinality(E) + Cardinality(DecodesOf(r))
    <3>1. inflight'[r] = IF r \in A THEN inflight[r] - 1 ELSE inflight[r]
      BY <1>4
    <3>2. CASE r \in A
      <4>1. 1 \in D
        BY <1>7, <2>4, <3>2
      <4> QED BY <2>2, <2>4, <2>6, <3>1, <3>2, <4>1
    <3>3. CASE r \notin A
      <4>1. 1 \notin D
        BY <1>3, <1>4, <2>4, <3>3
      <4> QED BY <2>2, <2>4, <2>6, <3>1, <3>3, <4>1
    <3> QED BY <3>2, <3>3
  <2>9. /\ Cardinality(E) = 0 <=> E = {}
        /\ Cardinality(DecodesOf(r)) = 0 <=> DecodesOf(r) = {}
    <3>1. IsFiniteSet(E)
      <4>1. E \subseteq 1..n
        BY <2>3, <2>4
      <4> QED BY <4>1, IndexAppend
    <3>2. IsFiniteSet(DecodesOf(r))
      <4>1. DecodesOf(r) \subseteq 1..Len(decodes) /\ Len(decodes) \in Nat
        BY <1>0 DEF DecodesOf, Types
      <4> QED BY <4>1, IndexAppend
    <3> QED BY <3>1, <3>2, FS_EmptySet
  <2>10. Flying(r)' <=> E # {} \/ DecodesOf(r) # {}
    BY <2>5, <2>7 DEF Flying
  <2>11. Flying(r)' => Flying(r)
    BY <2>4, <2>10 DEF Flying
  <2>12. r \in A => (inflight[r] <= 1 <=> ~Flying(r)')
    <3> SUFFICES ASSUME r \in A PROVE inflight[r] <= 1 <=> ~Flying(r)'
      OBVIOUS
    <3>1. inflight[r] = Cardinality(E) + 1 + Cardinality(DecodesOf(r))
      BY <1>7, <2>2, <2>4, <2>6
    <3>2. inflight[r] <= 1 <=> Cardinality(E) = 0 /\ Cardinality(DecodesOf(r)) = 0
      BY <2>2, <2>6, <3>1
    <3> QED BY <2>9, <2>10, <3>2
  <2>13. inflight'[r] = InFlight(r)' /\ inflight'[r] \in Nat
    BY <2>1, <2>2, <2>5, <2>6, <2>7, <2>8
  <2> QED BY <2>11, <2>12, <2>13
<1>9. ASSUME NEW r \in F
      PROVE  /\ r \in A /\ ~Flying(r)' /\ left[r] = 0 /\ ids'[r] = <<1>>
             /\ r \in known /\ r \in held /\ r \in Requests
             /\ \A j \in DOMAIN prefills : j # 1 => r \notin prefills[j].all
  <2>1. r \in Range(prefills[1].ready)
    BY <1>4
  <2>2. r \in A /\ left[r] = 0
    BY <1>0, <1>3, <1>4, <2>1 DEF Chunks
  <2>3. \A j \in DOMAIN prefills : j # 1 => r \notin prefills[j].all
    <3>1. \A j \in DOMAIN prefills : j # 1 => 1 < j
      <4>1. DOMAIN prefills = 1..Len(prefills)
        BY <1>0 DEF Types
      <4> QED BY <1>3, <4>1
    <3> QED BY <1>0, <1>3, <2>1, <3>1 DEF Chunks
  <2>4. ~Flying(r)'
    <3>1. ChunksOf(r)' = {}
      <4>1. \A i \in DOMAIN prefills' : r \notin prefills'[i].all
        <5> SUFFICES ASSUME NEW i \in DOMAIN prefills' PROVE r \notin prefills'[i].all
          OBVIOUS
        <5>1. i + 1 \in DOMAIN prefills /\ i + 1 # 1 /\ prefills'[i] = prefills[i + 1]
          BY <1>3
        <5> QED BY <2>3, <5>1
      <4> QED BY <4>1 DEF ChunksOf
    <3>2. DecodesOf(r)' = {}
      <4>1. \A i \in DOMAIN decodes : \A x \in decodes[i] : x.rid # r
        <5> SUFFICES ASSUME NEW i \in DOMAIN decodes, NEW x \in decodes[i], x.rid = r PROVE FALSE
          OBVIOUS
        <5>1. x.pos \in DOMAIN ids[r]
          BY <1>0 DEF Decodings
        <5>2. ids[r] = <<>>
          BY <1>7, <2>2
        <5> QED BY <5>1, <5>2
      <4>2. DecodesOf(r) = {}
        BY <4>1 DEF DecodesOf
      <4> QED BY <1>3, <4>2
    <3> QED BY <3>1, <3>2 DEF Flying
  <2>5. ids'[r] = <<1>>
    <3>1. ids'[r] = Append(ids[r], 1)
      BY <1>4, <1>7, <2>2
    <3>2. ids[r] = <<>>
      BY <1>7, <2>2
    <3>3. Append(<<>>, 1) = <<1>>
      OBVIOUS
    <3> QED BY ONLY <3>1, <3>2, <3>3
  <2> QED BY <1>7, <2>2, <2>3, <2>4, <2>5
<1>10. \A r \in Requests \ F : ids'[r] = ids[r] /\ tokens'[r] = tokens[r]
  BY <1>4
<1>11. ASSUME NEW r \in F, r \notin fin
       PROVE  /\ r \notin finished /\ r \notin canceled /\ r \notin dropped
              /\ tokens'[r] = <<1>> /\ 1 < MaxNew
  <2>1. r \notin finished /\ r \notin canceled /\ r \notin dropped
    BY <1>0, <1>4, <1>6, <1>9, <1>11 DEF Standing
  <2>2. tokens[r] = <<>>
    <3>1. Len(tokens[r]) <= Len(ids[r]) /\ ids[r] = <<>> /\ tokens[r] \in Seq(Nat)
      BY <1>0, <1>7, <1>9, <2>1 DEF Texts, Types
    <3> QED BY <3>1
  <2>3. Len(tokens[r]) + 1 < MaxNew
    BY <1>4, <1>11, <2>1
  <2>4. tokens'[r] = Append(tokens[r], 1)
    BY <1>4, <1>9, <2>1
  <2> QED BY <2>1, <2>2, <2>3, <2>4
<1>12. Counted'
  BY <1>8 DEF Counted
<1>13. /\ decodeRids' \in Seq(Requests) /\ IsInjective(decodeRids')
       /\ Range(decodeRids') = Range(decodeRids) \cup (F \ fin)
  <2>1. \A r \in F \ fin : r \notin Range(decodeRids)
    BY <1>0, <1>7, <1>9, <1>11 DEF Places
  <2>2. Range(decodeRids) \cap Range(t) = {}
    BY <1>5, <2>1
  <2>3. decodeRids \in Seq(Requests) /\ IsInjective(decodeRids)
    BY <1>0 DEF Types, Places
  <2> QED BY <1>5, <2>2, <2>3, ConcatQueue
<1>14. Types'
  <2>1. ids' \in [Requests -> Seq(Nat)]
    <3>1. \A r \in Requests : ids'[r] \in Seq(Nat)
      <4> SUFFICES ASSUME NEW r \in Requests PROVE ids'[r] \in Seq(Nat)
        OBVIOUS
      <4>1. CASE r \in F
        <5>1. ids'[r] = <<1>>
          BY <1>9, <4>1
        <5>2. <<1>> \in Seq(Nat)
          OBVIOUS
        <5> QED BY ONLY <5>1, <5>2
      <4>2. CASE r \notin F
        BY <1>0, <1>10, <4>2 DEF Types
      <4> QED BY <4>1, <4>2
    <3>2. ids' = [r \in Requests |-> ids'[r]]
      BY <1>4
    <3> QED BY <3>1, <3>2
  <2>2. tokens' \in [Requests -> Seq(Nat)]
    <3>1. \A r \in Requests : tokens'[r] \in Seq(Nat)
      <4> SUFFICES ASSUME NEW r \in Requests PROVE tokens'[r] \in Seq(Nat)
        OBVIOUS
      <4>0. tokens[r] \in Seq(Nat) /\ 1 \in Nat
        BY <1>0 DEF Types
      <4>1. Append(tokens[r], 1) \in Seq(Nat)
        BY <4>0, AppendFacts
      <4> QED BY <1>4, <4>0, <4>1
    <3>2. tokens' = [r \in Requests |-> tokens'[r]]
      BY <1>4
    <3> QED BY <3>1, <3>2
  <2>3. inflight' \in [Requests -> Nat]
    <3>1. \A r \in Requests : inflight'[r] \in Nat
      BY <1>8
    <3>2. inflight' = [r \in Requests |-> inflight'[r]]
      BY <1>4
    <3> QED BY <3>1, <3>2
  <2>4. ended' \in [Requests -> 0..1]
    <3>1. ended \in [Requests -> 0..1]
      BY <1>0 DEF Types
    <3>2. \A r \in fin : ended[r] = 0
      BY <1>4, <1>7, <1>9
    <3>3. \A r \in Requests : ended'[r] \in 0..1
      BY <1>4, <3>1, <3>2
    <3>4. ended' = [r \in Requests |-> ended'[r]]
      BY <1>4
    <3> QED BY <3>3, <3>4
  <2>5. /\ known' \subseteq Requests /\ finished' \subseteq Requests /\ held' \subseteq Requests
        /\ canceled' \subseteq Requests
    BY <1>0, <1>4 DEF Types
  <2> QED BY <1>0, <1>1, <1>3, <1>13, <2>1, <2>2, <2>3, <2>4, <2>5 DEF Types
<1>15. Phases'
  <2>1. Len(decodes) <= 1 /\ Len(prefills) <= 2 /\ overlap
    BY <1>0, <1>1, <1>2 DEF Phases
  <2>2. Len(prefills') <= 1
    BY <1>3, <2>1
  <2> QED BY <1>1, <2>1, <2>2 DEF Phases
<1>16. Standing'
  <2>1. held' \subseteq known'
    BY <1>0, <1>4 DEF Standing
  <2>2. known' \ finished' \subseteq held'
    BY <1>0, <1>4, <1>6 DEF Standing
  <2>3. known' \cap dropped' = canceled' /\ canceled' \subseteq finished'
    BY <1>0, <1>1, <1>4 DEF Standing
  <2>4. finished' \subseteq known' \cup dropped'
    BY <1>0, <1>1, <1>4, <1>6, <1>9 DEF Standing
  <2>5. ASSUME NEW r \in Requests, Flying(r)' PROVE r \in held'
    <3>1. r \notin G
      BY <1>4, <1>8, <2>5
    <3>2. r \notin fin
      BY <1>4, <1>9, <2>5
    <3> QED BY <1>0, <1>4, <1>8, <2>5, <3>1, <3>2 DEF Standing
  <2>6. ASSUME NEW r \in Requests, ended'[r] = 1 PROVE r \in finished' /\ ~Flying(r)'
    <3>1. CASE r \in fin
      BY <1>4, <1>9, <3>1
    <3>2. CASE r \notin fin
      <4>1. ended[r] = 1
        BY <1>4, <2>6, <3>2
      <4> QED BY <1>0, <1>4, <1>8, <4>1 DEF Standing
    <3> QED BY <3>1, <3>2
  <2>7. ASSUME NEW r \in Requests, ids'[r] # <<>> PROVE r \in known' \cup dropped'
    <3>1. r \in known \cup dropped
      BY <1>0, <1>9, <1>10, <2>7 DEF Standing
    <3> QED BY <1>1, <1>4, <1>6, <3>1
  <2> QED BY <2>1, <2>2, <2>3, <2>4, <2>5, <2>6, <2>7 DEF Standing
<1>17. Decodings'
  <2>1. UNCHANGED decodes
    BY <1>1
  <2>2. ASSUME NEW i \in DOMAIN decodes, NEW x \in decodes[i]
        PROVE  /\ ids'[x.rid] = ids[x.rid]
               /\ x.rid \in finished' \ canceled' => x.rid \in finished \ canceled
    <3>1. x.rid \in Requests /\ ids[x.rid] # <<>>
      <4>1. x.pos \in DOMAIN ids[x.rid]
        BY <1>0 DEF Decodings
      <4> QED BY <1>0, <4>1, EntryTypes
    <3>2. x.rid \notin A /\ x.rid \notin F
      BY <1>7, <1>9, <3>1
    <3> QED BY <1>4, <1>10, <3>1, <3>2
  <2>3. ASSUME NEW r \in Requests
        PROVE  ids'[r] = ids[r] \/ \A p \in DOMAIN ids'[r] : ids'[r][p] # Placeholder
    <3>1. CASE r \in F
      <4>1. ids'[r] = <<1>>
        BY <1>9, <3>1
      <4>2. DOMAIN <<1>> = {1} /\ <<1>>[1] = 1
        OBVIOUS
      <4> QED BY <4>1, <4>2 DEF Placeholder
    <3>2. CASE r \notin F
      BY <1>10, <3>2
    <3> QED BY <3>1, <3>2
  <2> QED BY <1>0, <2>1, <2>2, <2>3, DecodingsKept
<1>18. Texts'
  <2> SUFFICES ASSUME NEW q \in Requests
               PROVE  /\ Len(ids'[q]) <= MaxNew
                      /\ q \in known' \ finished' => Len(tokens'[q]) < MaxNew
                      /\ q \notin dropped' =>
                           /\ Len(tokens'[q]) <= Len(ids'[q])
                           /\ \A p \in DOMAIN ids'[q] :
                                ids'[q][p] = Placeholder <=> p > Len(tokens'[q])
    BY DEF Texts
  <2>1. CASE q \notin F
    <3>1. q \in known' \ finished' => q \in known \ finished
      BY <1>4
    <3> QED BY <1>0, <1>1, <1>10, <2>1, <3>1 DEF Texts
  <2>2. CASE q \in F
    <3>1. ids'[q] = <<1>> /\ Len(<<1>>) = 1 /\ DOMAIN <<1>> = {1} /\ <<1>>[1] = 1
      BY <1>9, <2>2
    <3>2. MaxNew \in Nat \ {0}
      BY ChunkedAssumption
    <3>3. q \in known' \ finished' => Len(tokens'[q]) < MaxNew
      <4>1. q \in known' \ finished' => q \notin fin
        BY <1>4
      <4> QED BY <1>11, <2>2, <3>1, <4>1
    <3>4. q \notin dropped => tokens'[q] = <<1>>
      <4> SUFFICES ASSUME q \notin dropped PROVE tokens'[q] = <<1>>
        OBVIOUS
      <4>1. Len(tokens[q]) <= Len(ids[q]) /\ ids[q] = <<>> /\ tokens[q] \in Seq(Nat)
        BY <1>0, <1>7, <1>9, <2>2 DEF Texts, Types
      <4>2. tokens[q] = <<>>
        BY <4>1
      <4>3. tokens'[q] = Append(tokens[q], 1)
        BY <1>4, <2>2
      <4> QED BY <4>2, <4>3
    <3>5. Len(ids'[q]) <= MaxNew
      BY <3>1, <3>2
    <3>6. q \notin dropped' =>
                           /\ Len(tokens'[q]) <= Len(ids'[q])
                           /\ \A p \in DOMAIN ids'[q] :
                                ids'[q][p] = Placeholder <=> p > Len(tokens'[q])
      <4> SUFFICES ASSUME q \notin dropped
                   PROVE  /\ Len(tokens'[q]) <= Len(ids'[q])
                          /\ \A p \in DOMAIN ids'[q] :
                               ids'[q][p] = Placeholder <=> p > Len(tokens'[q])
        BY <1>1
      <4>1. Len(tokens'[q]) = 1 /\ Len(ids'[q]) = 1
        BY <3>1, <3>4
      <4>2. \A p \in DOMAIN ids'[q] : ids'[q][p] # Placeholder /\ ~(p > 1)
        BY <3>1 DEF Placeholder
      <4> QED BY <4>1, <4>2
    <3> QED BY <3>3, <3>5, <3>6
  <2> QED BY <2>1, <2>2
<1>19. Chunks'
  <2>1. ASSUME NEW i \in DOMAIN prefills'
        PROVE  /\ \A r \in prefills'[i].all : ids'[r] = <<>> /\ (r \in finished' => r \in canceled')
               /\ Range(prefills'[i].ready) \subseteq prefills'[i].all
               /\ IsInjective(prefills'[i].ready)
               /\ \A r \in Range(prefills'[i].ready) : left'[r] = 0
    <3>1. PICK k \in DOMAIN prefills : k # 1 /\ prefills'[i] = prefills[k]
      <4>1. i + 1 \in DOMAIN prefills /\ i + 1 # 1 /\ prefills'[i] = prefills[i + 1]
        BY <1>3
      <4> QED BY <4>1
    <3>2. ASSUME NEW r \in prefills[k].all
          PROVE  ids'[r] = <<>> /\ (r \in finished' => r \in canceled')
      <4>1. r \notin F /\ r \in Requests
        BY <1>0, <1>9, <3>1, ChunkTypes
      <4>2. ids[r] = <<>> /\ (r \in finished => r \in canceled)
        BY <1>0 DEF Chunks
      <4>3. r \notin G
        <5>1. Flying(r)'
          BY <3>1 DEF Flying, ChunksOf
        <5> QED BY <1>4, <1>8, <4>1, <5>1
      <4> QED BY <1>4, <1>10, <4>1, <4>2, <4>3
    <3> QED BY <1>0, <1>1, <3>1, <3>2 DEF Chunks
  <2>2. ASSUME NEW i \in DOMAIN prefills', NEW j \in DOMAIN prefills', i < j
        PROVE  Range(prefills'[i].ready) \cap prefills'[j].all = {}
    <3>1. PICK k, l \in DOMAIN prefills : k = i + 1 /\ l = j + 1 /\ prefills'[i] = prefills[k] /\ prefills'[j] = prefills[l]
      BY <1>3
    <3>2. k < l
      BY <1>3, <2>2, <3>1
    <3> QED BY <1>0, <3>1, <3>2 DEF Chunks
  <2> QED BY <2>1, <2>2 DEF Chunks
<1>20. Places'
  <2>1. ASSUME NEW q \in known' \ finished'
        PROVE  /\ ids'[q] = <<>> => /\ q \notin Range(decodeRids')
                                    /\ q \in Range(prefillRids') <=> left'[q] > 0
                                    /\ LastChunkInFlight(q)' <=> left'[q] = 0
               /\ ids'[q] # <<>> => /\ q \notin Range(prefillRids')
                                    /\ q \in Range(decodeRids') \/ LastTokenInFlight(q)'
    <3>1. q \in Requests /\ q \in known \ finished /\ q \notin fin
      BY <1>0, <1>4 DEF Types
    <3>2. /\ ids[q] = <<>> => /\ q \notin Range(decodeRids)
                              /\ q \in Range(prefillRids) <=> left[q] > 0
                              /\ LastChunkInFlight(q) <=> left[q] = 0
          /\ ids[q] # <<>> => /\ q \notin Range(prefillRids)
                              /\ q \in Range(decodeRids) \/ LastTokenInFlight(q)
      BY <1>0, <3>1 DEF Places
    <3>3. CASE q \in F
      <4>1. ids'[q] # <<>> /\ ids[q] = <<>> /\ left[q] = 0
        BY <1>7, <1>9, <3>3
      <4>2. q \notin Range(prefillRids)
        BY <3>2, <4>1
      <4>3. q \in Range(decodeRids')
        BY <1>13, <3>1, <3>3
      <4> QED BY <1>1, <4>1, <4>2, <4>3
    <3>4. CASE q \notin F
      <4>1. ids'[q] = ids[q] /\ (q \in Range(decodeRids') <=> q \in Range(decodeRids))
        BY <1>10, <1>13, <3>1, <3>4
      <4>2. LastTokenInFlight(q)' <=> LastTokenInFlight(q)
        BY <1>1, <4>1 DEF LastTokenInFlight
      <4>3. LastChunkInFlight(q)' <=> LastChunkInFlight(q)
        <5>1. ASSUME LastChunkInFlight(q)' PROVE LastChunkInFlight(q)
          <6>1. PICK i \in DOMAIN prefills' : q \in Range(prefills'[i].ready)
            BY <5>1 DEF LastChunkInFlight
          <6>2. i + 1 \in DOMAIN prefills /\ q \in Range(prefills[i + 1].ready)
            BY <1>3, <6>1
          <6> QED BY <6>2 DEF LastChunkInFlight
        <5>2. ASSUME LastChunkInFlight(q) PROVE LastChunkInFlight(q)'
          <6>1. PICK k \in DOMAIN prefills : q \in Range(prefills[k].ready)
            BY <5>2 DEF LastChunkInFlight
          <6>2. q \notin canceled
            BY <1>6, <3>1
          <6>3. k # 1
            BY <1>4, <3>4, <6>1, <6>2
          <6>4. PICK i \in DOMAIN prefills' : prefills'[i] = prefills[k]
            BY <1>3, <6>3
          <6>5. \E i2 \in DOMAIN prefills' : q \in Range(prefills'[i2].ready)
            BY <6>1, <6>4
          <6> QED BY <6>5 DEF LastChunkInFlight
        <5> QED BY <5>1, <5>2
      <4> QED BY <1>1, <3>2, <4>1, <4>2, <4>3
    <3> QED BY <3>3, <3>4
  <2>2. Range(prefillRids') \cup Range(decodeRids') \subseteq known' \cup dropped'
    BY <1>0, <1>1, <1>4, <1>6, <1>9, <1>13 DEF Places
  <2>3. IsInjective(prefillRids') /\ IsInjective(decodeRids')
    BY <1>0, <1>1, <1>13 DEF Places
  <2> QED BY <2>1, <2>2, <2>3 DEF Places
<1> QED BY <1>12, <1>14, <1>15, <1>16, <1>17, <1>18, <1>19, <1>20 DEF IInv

-----------------------------------------------------------------------------

\* Every step keeps the invariant.
LEMMA NextInv == IInv /\ [Next]_vars => IInv'
<1> SUFFICES ASSUME IInv, [Next]_vars PROVE IInv'
  OBVIOUS
<1>1. CASE \E r \in Requests : AddRequest(r) \/ AddCached(r) \/ Discard(r)
  BY <1>1, AddRequestInv, AddCachedInv, DiscardInv
<1>2. CASE Step
  BY <1>2, StepCallInv, AllOverInv, SyncDecodeInv, SyncPrefillInv, LaunchDecodeInv,
     LaunchPrefillInv, TakeDecodeInv, NoDecodeDueInv, TakePrefillInv, NoPrefillDueInv DEF Step
<1>3. CASE UNCHANGED vars
  <2>1. UNCHANGED <<overlap, sessions, queued, pending, caller>> /\ pc' = pc
    BY <1>3 DEF vars
  <2>2. UNCHANGED <<overlap, decodes, prefills>>
    BY <2>1 DEF pending
  <2>3. Phases'
    BY <2>1, <2>2 DEF IInv, Phases
  <2> QED BY <2>1, <2>3, PhaseKept
<1> QED BY <1>1, <1>2, <1>3 DEF Next

\* Every reachable state satisfies the invariant.
LEMMA Invariant == Spec => []IInv
BY InitInv, NextInv, PTL DEF Spec

\* The types hold; a canceled session is one the caller has discarded, no request
\* gets more than max_new_tokens, and no request is reported finished twice.
THEOREM TypeCorrect == Spec => []TypeOK
<1>1. IInv => TypeOK
  BY DEF IInv, Types, Phases, Standing, Texts, TypeOK
<1> QED BY <1>1, Invariant, PTL

\* A session with a chunk or a token in flight holds its blocks, and
\* _overlap_inflight, by which discard_request and the end of a session go, is
\* the number of batches it is in.
THEOREM HeldWhileInFlight == Spec => []BlocksHeld
<1>1. IInv => BlocksHeld
  <2> SUFFICES ASSUME IInv, NEW r \in Requests
               PROVE  inflight[r] = InFlight(r) /\ (inflight[r] > 0 => r \in held)
    BY DEF BlocksHeld
  <2>1. Types /\ Counted /\ Standing
    BY DEF IInv
  <2>2. inflight[r] = 0 <=> ~Flying(r)
    BY <2>1, FlyingCounts
  <2> QED BY <2>1, <2>2 DEF Counted, Standing
<1> QED BY <1>1, Invariant, PTL

\* _step_overlap never raises: a token that arrives finds its placeholder where
\* it was put, and not resolved, whatever was added, discarded or finished since.
THEOREM PlaceholdersFound == Spec => []NeverRaises
<1>1. IInv => NeverRaises
  BY DEF IInv, Phases, NeverRaises
<1> QED BY <1>1, Invariant, PTL

\* A queue that holds nothing twice.
LEMMA OccursOnce ==
  ASSUME NEW q \in Seq(Requests), IsInjective(q), NEW r
  PROVE  Occurs(q, r) = IF r \in Range(q) THEN 1 ELSE 0
<1>1. CASE r \in Range(q)
  <2>1. PICK i \in DOMAIN q : q[i] = r
    BY <1>1, SeqFacts
  <2>2. {j \in DOMAIN q : q[j] = r} = {i}
    BY <2>1 DEF IsInjective
  <2> QED BY <1>1, <2>2, FS_Singleton DEF Occurs
<1>2. CASE r \notin Range(q)
  <2>1. {j \in DOMAIN q : q[j] = r} = {}
    BY <1>2, SeqFacts
  <2> QED BY <1>2, <2>1, FS_EmptySet DEF Occurs
<1> QED BY <1>1, <1>2

\* Between two steps each session that is not over is in exactly one queue, once,
\* or has its last chunk or its last token in flight.
THEOREM NoneLost == Spec => []OnePlace
<1>1. IInv => OnePlace
  <2> SUFFICES ASSUME IInv, NEW r \in known \ finished
               PROVE  IF ids[r] = <<>>
                      THEN /\ Occurs(decodeRids, r) = 0
                           /\ Occurs(prefillRids, r) = (IF LastChunkInFlight(r) THEN 0 ELSE 1)
                           /\ LastChunkInFlight(r) = (left[r] = 0)
                      ELSE /\ Occurs(prefillRids, r) = 0 /\ Occurs(decodeRids, r) <= 1
                           /\ Occurs(decodeRids, r) = 1 \/ LastTokenInFlight(r)
    BY DEF OnePlace
  <2>1. Types /\ Places
    BY DEF IInv
  <2>2. /\ Occurs(decodeRids, r) = IF r \in Range(decodeRids) THEN 1 ELSE 0
        /\ Occurs(prefillRids, r) = IF r \in Range(prefillRids) THEN 1 ELSE 0
    BY <2>1, OccursOnce DEF Types, Places
  <2>3. /\ ids[r] = <<>> => /\ r \notin Range(decodeRids)
                            /\ r \in Range(prefillRids) <=> left[r] > 0
                            /\ LastChunkInFlight(r) <=> left[r] = 0
        /\ ids[r] # <<>> => /\ r \notin Range(prefillRids)
                            /\ r \in Range(decodeRids) \/ LastTokenInFlight(r)
    BY <2>1 DEF Places
  <2>4. left[r] \in Nat
    BY <2>1, ChunkedAssumption DEF Types
  <2>5. LastChunkInFlight(r) \in BOOLEAN
    BY DEF LastChunkInFlight
  <2>6. CASE ids[r] = <<>>
    <3>1. r \in Range(prefillRids) <=> ~LastChunkInFlight(r)
      BY <2>3, <2>4, <2>6
    <3>2. LastChunkInFlight(r) = (left[r] = 0)
      BY <2>3, <2>5, <2>6
    <3> QED BY <2>2, <2>3, <2>6, <3>1, <3>2
  <2>7. CASE ids[r] # <<>>
    BY <2>2, <2>3, <2>7
  <2> QED BY <2>6, <2>7
<1> QED BY <1>1, Invariant, PTL

-----------------------------------------------------------------------------
\* Of a request without entries no token was returned either, discarded or not:
\* what may still come of a discarded one is its first token.
Untold == \A r \in Requests : ids[r] = <<>> => tokens[r] = <<>>

LEMMA GetsUntold ==
  ASSUME IInv, Untold, NEW S, S \subseteq known \ finished, NEW fin, Gets(S, fin),
         NEW r \in dropped
  PROVE  tokens'[r] = tokens[r] /\ ids'[r] = ids[r]
<1>1. S \cap dropped = {} /\ r \in Requests
  BY DEF IInv, Types, Standing
<1> QED BY <1>1 DEF Gets, Returned

\* Resolving a token in flight of a discarded request leaves its entries there.
LEMMA TakeEntriesUntold ==
  ASSUME IInv, decodes # <<>>, TakeEntries, NEW r \in dropped
  PROVE  tokens'[r] = tokens[r] /\ (ids'[r] = <<>> => ids[r] = <<>>)
<1>0. Types /\ Standing
  BY DEF IInv
<1>1. 1 \in DOMAIN decodes /\ Entries = decodes[1]
  BY <1>0 DEF Types, Entries
<1>2. PICK R, fin \in SUBSET Requests :
           /\ \A q : q \in R <=> \E x \in decodes[1] : x.rid = q
           /\ \A q \in Requests \ R : ids'[q] = ids[q]
           /\ \A x \in decodes[1] :
                ids'[x.rid] = IF x.rid \in finished \ canceled
                              THEN RemoveAt(ids[x.rid], Len(ids[x.rid]))
                              ELSE [ids[x.rid] EXCEPT ![x.pos] = x.pos]
           /\ \A q \in Requests \ (R \ finished) : tokens'[q] = tokens[q]
  BY <1>1, TakeEntriesFacts
<1>3. r \in Requests
  BY <1>0 DEF Types
<1>4. CASE r \in R
  <2>1. PICK x \in decodes[1] : x.rid = r
    BY <1>2, <1>4
  <2>2. r \in known /\ r \in finished /\ x.pos \in DOMAIN ids[r]
    BY <1>1, <2>1, EntryFacts
  <2>3. r \in canceled
    BY <1>0, <2>2 DEF Standing
  <2>4. ids'[r] = [ids[r] EXCEPT ![x.pos] = x.pos]
    BY <1>2, <2>1, <2>3
  <2>5. DOMAIN ids'[r] # {}
    BY <2>2, <2>4
  <2>6. ids'[r] # <<>>
    BY <2>5
  <2> QED BY <1>2, <1>3, <2>2, <2>6
<1>5. CASE r \notin R
  BY <1>2, <1>3, <1>5
<1> QED BY <1>4, <1>5

LEMMA TakePrefillUntold ==
  ASSUME IInv, TakePrefill, NEW r \in Requests
  PROVE  ids'[r] = <<>> => ids[r] = <<>> /\ tokens'[r] = tokens[r]
<1>0. Types
  BY DEF IInv
<1>1. prefills # <<>>
  <2>1. prefills \in Seq(ChunkSet)
    BY <1>0 DEF Types
  <2>2. Len(prefills) > 1 => prefills # <<>>
    OBVIOUS
  <2> QED BY <2>1, <2>2 DEF TakePrefill, PrefillsDue
<1>2. 1 \in DOMAIN prefills /\ Head(prefills) = prefills[1]
  BY <1>0, <1>1 DEF Types
<1>3. PICK F \in SUBSET Requests :
        /\ ids' = [q \in Requests |-> IF q \in F THEN Append(ids[q], 1) ELSE ids[q]]
        /\ tokens' = [q \in Requests |-> IF q \in F THEN Append(tokens[q], 1) ELSE tokens[q]]
  BY <1>2, TakePrefillFacts
<1>4. CASE r \in F
  <2>1. PICK z \in Seq(Nat) : z = ids[r]
    BY <1>0 DEF Types
  <2>2. ids'[r] = Append(z, 1)
    BY <1>3, <1>4, <2>1
  <2>3. Append(z, 1) # <<>>
    BY <2>1
  <2> QED BY <2>2, <2>3
<1>5. CASE r \notin F
  BY <1>3, <1>5
<1> QED BY <1>4, <1>5

LEMMA NextUntold == IInv /\ IInv' /\ Untold /\ [Next]_vars => Untold'
<1> SUFFICES ASSUME IInv, IInv', Untold, [Next]_vars, NEW r \in Requests, ids'[r] = <<>>
             PROVE  tokens'[r] = <<>>
  BY DEF Untold
<1>0. Types /\ Types' /\ Standing /\ Texts'
  BY DEF IInv
<1>1. CASE r \notin dropped'
  <2>1. Len(tokens'[r]) <= Len(ids'[r]) /\ tokens'[r] \in Seq(Nat)
    BY <1>0, <1>1 DEF Texts, Types
  <2> QED BY <2>1
<1>2. CASE tokens'[r] = tokens[r] /\ ids[r] = <<>>
  BY <1>2 DEF Untold
<1>3. CASE UNCHANGED <<ids, tokens>>
  BY <1>2, <1>3
<1>4. ASSUME NEW q \in Requests, AddRequest(q) \/ AddCached(q) \/ Discard(q)
      PROVE  tokens'[r] = <<>>
  <2>1. CASE AddRequest(q) \/ Discard(q)
    BY <1>3, <2>1 DEF AddRequest, Discard, caller
  <2>2. CASE AddCached(q)
    <3>1. q \notin dropped /\ UNCHANGED dropped /\ ids' = [ids EXCEPT ![q] = <<1>>]
          /\ Returned([p \in {q} |-> 1])
      BY <2>2 DEF AddCached, Fresh
    <3>2. q # r => ids'[r] = ids[r] /\ tokens'[r] = tokens[r]
      BY <1>0, <3>1 DEF Returned, Types
    <3> QED BY <1>1, <1>2, <3>1, <3>2
  <2> QED BY <1>4, <2>1, <2>2
<1>5. CASE SyncDecode
  <2>1. UNCHANGED dropped /\ \E eos \in SUBSET Range(DecodeBatch) : Gets(Range(DecodeBatch), LastOf(Range(DecodeBatch), eos))
    BY <1>5 DEF SyncDecode
  <2>2. Range(DecodeBatch) \subseteq known \ finished
    BY DecodeBatchFacts DEF ToDecode, Decodable, Alive
  <2>3. PICK S, fin : S \subseteq known \ finished /\ Gets(S, fin)
    BY <2>1, <2>2
  <2> QED BY <1>1, <1>2, <2>1, <2>3, GetsUntold
<1>6. CASE SyncPrefill
  <2>1. /\ UNCHANGED dropped /\ GivenChunks
        /\ \E eos \in SUBSET Range(ReadyOnes) : Gets(Range(ReadyOnes), LastOf(Range(ReadyOnes), eos))
    BY <1>6 DEF SyncPrefill
  <2>2. Range(ReadyOnes) \subseteq known \ finished
    BY <2>1, ChunkBatchFacts, GivenFacts
  <2>3. PICK S, fin : S \subseteq known \ finished /\ Gets(S, fin)
    BY <2>1, <2>2
  <2> QED BY <1>1, <1>2, <2>1, <2>3, GetsUntold
<1>7. CASE LaunchDecode
  <2>1. /\ UNCHANGED tokens
        /\ ids' = [q \in Requests |-> IF q \in Range(DecodeBatch) THEN Append(ids[q], Placeholder) ELSE ids[q]]
    BY <1>7 DEF LaunchDecode, caller
  <2>2. ids[r] = <<>>
    <3>1. PICK z \in Seq(Nat) : z = ids[r]
      BY <1>0 DEF Types
    <3>2. Append(z, Placeholder) # <<>>
      BY <3>1 DEF Placeholder
    <3> QED BY <2>1, <3>1, <3>2
  <2> QED BY <1>2, <2>1, <2>2
<1>8. CASE TakeDecode
  <2>1. CASE Raises
    BY <1>3, <1>8, <2>1 DEF TakeDecode, sessions, caller
  <2>2. CASE ~Raises
    <3>1. TakeEntries /\ DecodesDue /\ UNCHANGED dropped
      BY <1>8, <2>2 DEF TakeDecode, TakeEntries
    <3>2. decodes # <<>>
      <4>1. decodes = <<>> => Len(decodes) = 0
        OBVIOUS
      <4> QED BY <3>1, <4>1 DEF DecodesDue
    <3> QED BY <1>1, <1>2, <3>1, <3>2, TakeEntriesUntold
  <2> QED BY <2>1, <2>2
<1>9. CASE TakePrefill
  BY <1>2, <1>9, TakePrefillUntold
<1>10. CASE StepCall \/ AllOver \/ LaunchPrefill \/ NoDecodeDue \/ NoPrefillDue \/ UNCHANGED vars
  <2>1. UNCHANGED <<ids, tokens>>
    BY <1>10 DEF StepCall, AllOver, LaunchPrefill, NoDecodeDue, NoPrefillDue, vars, sessions, caller
  <2> QED BY <1>3, <2>1
<1> QED BY <1>4, <1>5, <1>6, <1>7, <1>8, <1>9, <1>10 DEF Next, Step

LEMMA InvariantUntold == Spec => [](IInv /\ Untold)
<1>1. Init => IInv /\ Untold
  BY InitInv DEF Init, Untold
<1>2. IInv /\ Untold /\ [Next]_vars => IInv' /\ Untold'
  BY NextInv, NextUntold
<1> QED BY <1>1, <1>2, PTL DEF Spec

-----------------------------------------------------------------------------
\* Discarded requests whose first token is on its way.
Late == {r \in canceled : LastChunkInFlight(r)}

\* Only discard_request adds to them: a chunk is given to no canceled session.
LEMMA LateKept ==
  ASSUME IInv, canceled' \subseteq canceled, UNCHANGED prefills \/ LaunchPrefill \/ TakePrefill
  PROVE  Late' \subseteq Late
<1>0. Types /\ Standing
  BY DEF IInv
<1>1. SUFFICES ASSUME NEW i \in DOMAIN prefills', NEW r \in canceled, r \in Range(prefills'[i].ready)
               PROVE  LastChunkInFlight(r)
  BY DEF Late, LastChunkInFlight
<1>2. CASE UNCHANGED prefills
  BY <1>1, <1>2 DEF LastChunkInFlight
<1>3. CASE LaunchPrefill
  <2>1. CASE ChunkBatch = <<>>
    BY <1>2, <1>3, <2>1 DEF LaunchPrefill
  <2>2. CASE ChunkBatch # <<>>
    <3>1. PICK e : e = [all |-> Range(ChunkBatch), ready |-> ReadyOnes]
      OBVIOUS
    <3>2. prefills' = Append(prefills, e) /\ GivenChunks
      BY <1>3, <2>2, <3>1 DEF LaunchPrefill
    <3>3. Range(e.ready) \cap canceled = {}
      BY <1>0, <3>1, <3>2, ChunkBatchFacts, GivenFacts DEF Standing
    <3>4. prefills \in Seq(ChunkSet)
      BY <1>0 DEF Types
    <3> HIDE DEF ChunkSet
    <3>5. (i \in DOMAIN prefills /\ prefills'[i] = prefills[i]) \/ prefills'[i] = e
      BY <3>2, <3>4
    <3> QED BY <1>1, <3>3, <3>5 DEF LastChunkInFlight
  <2> QED BY <2>1, <2>2
<1>4. CASE TakePrefill
  <2>1. prefills # <<>> /\ prefills' = Tail(prefills) /\ UNCHANGED decodes
    <3>1. prefills \in Seq(ChunkSet)
      BY <1>0 DEF Types
    <3>2. Len(prefills) > 1 => prefills # <<>>
      OBVIOUS
    <3> QED BY <1>4, <3>1, <3>2 DEF TakePrefill, PrefillsDue
  <2>2. i + 1 \in DOMAIN prefills /\ prefills'[i] = prefills[i + 1]
    BY <2>1, TailPrefills
  <2> QED BY <1>1, <2>2 DEF LastChunkInFlight
<1> QED BY <1>2, <1>3, <1>4

\* The states of the scheduler map to states of the contract.
LEMMA InitMaps == Init => Contract!CInit
BY DEF Init, Contract!CInit

\* A step is an Advance when it does to each request what the contract allows.
LEMMA AdvanceMaps ==
  ASSUME Types', UNCHANGED dropped, finished \subseteq finished', Late' \subseteq Late,
         \A r \in Requests :
           \/ /\ \/ Contract!Gains(r)
                 \/ tokens'[r] = tokens[r] /\ (r \in finished' \cup dropped => r \in finished \cup dropped)
              /\ ended'[r] = ended[r] \/ Contract!End(r)
           \/ Contract!ComesLate(r)
  PROVE  Contract!Advance
<1>1. DOMAIN tokens' = Requests /\ DOMAIN ended' = Requests
  BY DEF Types
<1>2. \A r \in Requests : Contract!Served(r) \/ Contract!ComesLate(r)
  BY DEF Contract!Served, Contract!Waits
<1>3. (finished \cup dropped) \subseteq (finished \cup dropped)'
  OBVIOUS
<1> QED BY <1>1, <1>2, <1>3 DEF Contract!Advance, Late

LEMMA GainMaps ==
  ASSUME IInv, NEW r \in Requests, r \in known \ finished,
         tokens'[r] = Append(tokens[r], Len(tokens[r]) + 1),
         r \notin finished' => Len(tokens[r]) + 1 < MaxNew
  PROVE  Contract!Gains(r)
<1>0. Types /\ Standing /\ Texts
  BY DEF IInv
<1>1. r \notin finished \cup dropped
  BY <1>0 DEF Standing
<1>2. tokens[r] \in Seq(Nat) /\ Len(tokens[r]) \in Nat
  BY <1>0 DEF Types
<1>3. Len(tokens'[r]) = Len(tokens[r]) + 1
  <2>1. PICK q \in Seq(Nat) : q = tokens[r]
    BY <1>2
  <2>2. Len(q) + 1 \in Nat
    BY <1>2, <2>1
  <2>3. Len(Append(q, Len(q) + 1)) = Len(q) + 1
    BY ONLY <2>1, <2>2, AppendFacts
  <2> QED BY <2>1, <2>3
<1>4. Len(tokens'[r]) <= MaxNew
  <2>1. Len(tokens[r]) < MaxNew
    BY <1>0 DEF Texts
  <2> QED BY <1>2, <1>3, <2>1, ChunkedAssumption
<1>5. Len(tokens'[r]) = MaxNew => r \in finished'
  BY <1>2, <1>3, ChunkedAssumption
<1> QED BY <1>1, <1>4, <1>5 DEF Contract!Gains

\* So does each step that returns tokens: a prompt that was cached, a step
\* without overlap, and the two that take results.
LEMMA AddCachedMaps == ASSUME IInv, IInv', NEW r \in Requests, AddCached(r) PROVE Contract!Advance
<1>0. Types /\ Types'
  BY DEF IInv
<1>1. /\ r \notin known \cup dropped /\ UNCHANGED dropped
      /\ \/ finished' = finished \cup {r} /\ Reported({r})
         \/ UNCHANGED <<finished, ended>> /\ MaxNew # 1
      /\ Returned([q \in {r} |-> 1])
  BY DEF AddCached, Fresh
<1>2. tokens[r] = <<>> /\ ended[r] = 0 /\ r \notin finished
  BY <1>1, FreshFacts
<1>3. /\ tokens'[r] = <<1>> /\ \A q \in Requests \ {r} : tokens'[q] = tokens[q]
  <2>1. tokens'[r] = Append(tokens[r], 1) /\ \A q \in Requests \ {r} : tokens'[q] = tokens[q]
    BY <1>1 DEF Returned
  <2>2. Append(<<>>, 1) = <<1>>
    OBVIOUS
  <2> QED BY <1>2, <2>1, <2>2
<1>4. Contract!Gains(r)
  <2>1. Append(<<>>, Len(<<>>) + 1) = <<1>> /\ Len(<<1>>) = 1
    OBVIOUS
  <2>2. r \notin finished' => MaxNew # 1
    BY <1>1
  <2> QED BY <1>1, <1>2, <1>3, <2>1, <2>2, ChunkedAssumption DEF Contract!Gains
<1>5. \A q \in Requests : ended'[q] = ended[q] \/ Contract!End(q)
  <2> SUFFICES ASSUME NEW q \in Requests PROVE ended'[q] = ended[q] \/ Contract!End(q)
    OBVIOUS
  <2>1. CASE finished' = finished \cup {r} /\ Reported({r})
    <3>1. CASE q = r
      BY <1>1, <1>2, <2>1, <3>1 DEF Reported, Contract!End
    <3>2. CASE q # r
      BY <2>1, <3>2 DEF Reported
    <3> QED BY <3>1, <3>2
  <2>2. CASE UNCHANGED <<finished, ended>>
    BY <2>2
  <2> QED BY <1>1, <2>1, <2>2
<1>6. /\ finished \subseteq finished'
      /\ \A q \in Requests \ {r} : q \in finished' => q \in finished
  BY <1>1
<1>7. \A q \in Requests : \/ Contract!Gains(q)
                          \/ /\ tokens'[q] = tokens[q]
                             /\ q \in finished' \cup dropped => q \in finished \cup dropped
  BY <1>3, <1>4, <1>6
<1>8. Late' \subseteq Late
  <2>1. UNCHANGED <<canceled, prefills>>
    BY DEF AddCached, pending
  <2> QED BY <2>1, LateKept
<1> QED BY <1>0, <1>1, <1>5, <1>6, <1>7, <1>8, AdvanceMaps

LEMMA GetsMaps ==
  ASSUME IInv, IInv', ~overlap, NEW S, S \subseteq known \ finished, NEW eos, eos \subseteq S,
         Gets(S, LastOf(S, eos)), UNCHANGED <<dropped, canceled, prefills>>
  PROVE  Contract!Advance
<1>0. Types /\ Standing /\ Types'
  BY DEF IInv
<1>1. PICK fin : fin = LastOf(S, eos)
  OBVIOUS
<1>2. /\ finished' = finished \cup fin /\ Reported(fin) /\ fin \subseteq S
      /\ Returned([r \in S |-> Len(ids[r]) + 1])
      /\ \A r \in S : r \notin fin => ~(Committed(r) + 1 >= MaxNew)
  BY <1>1 DEF Gets, LastOf
<1>3. S \subseteq Requests /\ S \cap dropped = {}
  BY <1>0 DEF Types, Standing
<1>4. ASSUME NEW r \in S PROVE Contract!Gains(r) /\ ended[r] = 0
  <2>1. r \in Requests /\ r \notin dropped /\ r \in known \ finished
    BY <1>3
  <2>2. Committed(r) = Len(tokens[r]) /\ Len(tokens[r]) \in Nat
    BY <2>1, CommittedIs
  <2>3. Len(ids[r]) = Len(tokens[r])
    BY <2>1, NothingFlies
  <2>4. tokens'[r] = Append(tokens[r], Len(tokens[r]) + 1)
    BY <1>2, <2>1, <2>3 DEF Returned
  <2>5. r \notin finished' => Len(tokens[r]) + 1 < MaxNew
    BY <1>2, <2>2, ChunkedAssumption
  <2>6. Contract!Gains(r)
    BY <2>1, <2>4, <2>5, GainMaps
  <2>7. ended[r] \in 0..1 /\ ended[r] # 1
    BY <1>0, <2>1 DEF Types, Standing
  <2> QED BY <2>6, <2>7
<1>5. \A r \in Requests \ S : tokens'[r] = tokens[r] /\ (r \in finished' => r \in finished)
  BY <1>2 DEF Returned
<1>6. \A r \in Requests : ended'[r] = ended[r] \/ Contract!End(r)
  <2> SUFFICES ASSUME NEW r \in Requests PROVE ended'[r] = ended[r] \/ Contract!End(r)
    OBVIOUS
  <2>1. CASE r \in fin
    BY <1>2, <1>3, <1>4, <2>1 DEF Reported, Contract!End
  <2>2. CASE r \notin fin
    BY <1>2, <2>2 DEF Reported
  <2> QED BY <2>1, <2>2
<1>7. finished \subseteq finished'
  BY <1>2
<1>8. \A r \in Requests : \/ Contract!Gains(r)
                          \/ /\ tokens'[r] = tokens[r]
                             /\ r \in finished' \cup dropped => r \in finished \cup dropped
  BY <1>4, <1>5
<1>9. Late' \subseteq Late
  BY LateKept
<1> QED BY <1>0, <1>6, <1>7, <1>8, <1>9, AdvanceMaps

LEMMA SyncMaps == ASSUME IInv, IInv', SyncDecode \/ SyncPrefill PROVE Contract!Advance
<1>1. CASE SyncDecode
  <2>1. ~overlap /\ UNCHANGED <<dropped, canceled, prefills>>
    BY <1>1 DEF SyncDecode, pending
  <2>2. PICK S : S = Range(DecodeBatch)
    OBVIOUS
  <2>3. PICK eos \in SUBSET S : Gets(S, LastOf(S, eos))
    BY <1>1, <2>2 DEF SyncDecode
  <2>4. S \subseteq known \ finished
    BY <2>2, DecodeBatchFacts DEF ToDecode, Decodable, Alive
  <2> QED BY <2>1, <2>3, <2>4, GetsMaps
<1>2. CASE SyncPrefill
  <2>1. ~overlap /\ UNCHANGED <<dropped, canceled, prefills>> /\ GivenChunks
    BY <1>2 DEF SyncPrefill, pending
  <2>2. PICK S : S = Range(ReadyOnes)
    OBVIOUS
  <2>3. PICK eos \in SUBSET S : Gets(S, LastOf(S, eos))
    BY <1>2, <2>2 DEF SyncPrefill
  <2>4. S \subseteq Range(ChunkBatch)
    BY <2>2, ChunkBatchFacts
  <2>5. S \subseteq known \ finished
    BY <2>1, <2>4, GivenFacts
  <2> QED BY <2>1, <2>3, <2>5, GetsMaps
<1> QED BY <1>1, <1>2

LEMMA TakeEntriesMaps ==
  ASSUME IInv, IInv', decodes # <<>>, TakeEntries
  PROVE  Contract!Advance
<1>0. Types /\ Types'
  BY DEF IInv
<1>1. 1 \in DOMAIN decodes /\ Entries = decodes[1]
  BY <1>0 DEF Types, Entries
<1>2. PICK R, fin \in SUBSET Requests :
           /\ \A r : r \in R <=> \E x \in decodes[1] : x.rid = r
           /\ fin \subseteq R \ finished
           /\ \A r \in R \ finished : r \notin fin => Len(tokens[r]) + 1 < MaxNew
           /\ finished' = finished \cup fin
           /\ ended' = [r \in Requests |->
                 IF r \in {q \in R : q \in finished \cup fin /\ inflight[q] <= 1} \ dropped
                 THEN ended[r] + 1 ELSE ended[r]]
           /\ \A r \in Requests \ (R \ finished) : tokens'[r] = tokens[r]
           /\ \A x \in decodes[1] : x.rid \notin finished =>
                tokens'[x.rid] = Append(tokens[x.rid], x.pos)
  BY <1>1, TakeEntriesFacts
<1>3. UNCHANGED dropped
  BY DEF TakeEntries
<1>4. ASSUME NEW r \in R
      PROVE  /\ r \in Requests /\ ended[r] = 0
             /\ r \notin finished => Contract!Gains(r)
  <2>1. PICK x \in decodes[1] : x.rid = r
    BY <1>2
  <2>2. /\ r \in Requests /\ r \in known /\ ended[r] = 0
        /\ r \notin dropped => x.pos = Len(tokens[r]) + 1
        /\ r \notin finished => r \notin dropped
    BY <1>1, <2>1, EntryFacts
  <2>3. ASSUME r \notin finished PROVE Contract!Gains(r)
    <3>1. tokens'[r] = Append(tokens[r], Len(tokens[r]) + 1)
      BY <1>2, <2>1, <2>2, <2>3
    <3>2. r \notin finished' => Len(tokens[r]) + 1 < MaxNew
      BY <1>2, <2>3
    <3> QED BY <2>2, <2>3, <3>1, <3>2, GainMaps
  <2> QED BY <2>2, <2>3
<1>5. \A r \in Requests : ended'[r] = ended[r] \/ Contract!End(r)
  <2> SUFFICES ASSUME NEW r \in Requests PROVE ended'[r] = ended[r] \/ Contract!End(r)
    OBVIOUS
  <2>1. CASE r \in {q \in R : q \in finished \cup fin /\ inflight[q] <= 1} \ dropped
    <3>1. ended'[r] = ended[r] + 1 /\ r \in finished' /\ r \notin dropped'
      BY <1>2, <1>3, <2>1
    <3> QED BY <1>4, <2>1, <3>1 DEF Contract!End
  <2>2. CASE r \notin {q \in R : q \in finished \cup fin /\ inflight[q] <= 1} \ dropped
    BY <1>2, <2>2
  <2> QED BY <2>1, <2>2
<1>6. \A r \in Requests : \/ Contract!Gains(r)
                          \/ /\ tokens'[r] = tokens[r]
                             /\ r \in finished' \cup dropped => r \in finished \cup dropped
  BY <1>2, <1>4
<1>7. finished \subseteq finished'
  BY <1>2
<1>8. Late' \subseteq Late
  <2>1. canceled' \subseteq canceled /\ UNCHANGED prefills
    BY DEF TakeEntries, Forgotten
  <2> QED BY <2>1, LateKept
<1> QED BY <1>0, <1>3, <1>5, <1>6, <1>7, <1>8, AdvanceMaps

LEMMA TakePrefillMaps == ASSUME IInv, IInv', Untold, TakePrefill PROVE Contract!Advance
<1>0. Types /\ Types' /\ Standing /\ Texts /\ Chunks
  BY DEF IInv
<1>1. UNCHANGED dropped /\ prefills # <<>>
  <2>1. prefills \in Seq(ChunkSet)
    BY <1>0 DEF Types
  <2>2. Len(prefills) > 1 => prefills # <<>>
    OBVIOUS
  <2> QED BY <2>1, <2>2 DEF TakePrefill, PrefillsDue
<1>2. 1 \in DOMAIN prefills /\ Head(prefills) = prefills[1]
  BY <1>0, <1>1 DEF Types
<1>3. PICK F, G, fin \in SUBSET Requests :
           /\ F \subseteq Range(prefills[1].ready) /\ \A r \in F : r \in canceled => r \in G
           /\ canceled' = canceled \ G /\ \A r \in F : r \in finished => r \in fin
           /\ fin \subseteq F /\ \A r \in F : r \notin fin /\ r \notin dropped => Len(tokens[r]) + 1 < MaxNew
           /\ finished' = finished \cup fin
           /\ ended' = [r \in Requests |-> IF r \in fin THEN ended[r] + 1 ELSE ended[r]]
           /\ tokens' = [r \in Requests |-> IF r \in F THEN Append(tokens[r], 1) ELSE tokens[r]]
  <2>1. PICK A, G, F, fin \in SUBSET Requests :
           /\ A = prefills[1].all /\ G = {r \in A : r \in canceled /\ inflight[r] <= 1}
           /\ F = {r \in Range(prefills[1].ready) : r \in canceled => r \in G}
           /\ fin \subseteq F /\ \A r \in F : r \in finished => r \in fin
           /\ \A r \in F : r \notin fin /\ r \notin dropped => Len(tokens[r]) + 1 < MaxNew
           /\ known' = known \ G /\ canceled' = canceled \ G /\ finished' = finished \cup fin
           /\ held' = held \ (G \cup fin)
           /\ ended' = [r \in Requests |-> IF r \in fin THEN ended[r] + 1 ELSE ended[r]]
           /\ inflight' = [r \in Requests |-> IF r \in A THEN inflight[r] - 1 ELSE inflight[r]]
           /\ ids' = [r \in Requests |-> IF r \in F THEN Append(ids[r], 1) ELSE ids[r]]
           /\ tokens' = [r \in Requests |-> IF r \in F THEN Append(tokens[r], 1) ELSE tokens[r]]
           /\ \E t \in Seq(Requests) : /\ decodeRids' = decodeRids \o t
                                       /\ IsInjective(t) /\ Range(t) = F \ fin
    BY ONLY IInv, TakePrefill, <1>2, TakePrefillFacts
  <2>2. F \subseteq Range(prefills[1].ready) /\ \A r \in F : r \in canceled => r \in G
    BY <2>1
  <2> QED BY <2>1, <2>2
<1>4. ASSUME NEW r \in F, r \notin dropped
      PROVE  ended[r] = 0 /\ Contract!Gains(r)
  <2>1. r \in prefills[1].all
    BY <1>0, <1>2, <1>3 DEF Chunks
  <2>2. r \in Requests /\ Flying(r)
    BY <1>2, <1>3, <2>1 DEF Flying, ChunksOf
  <2>3. r \in known /\ ended[r] \in 0..1 /\ ended[r] # 1
    BY <1>0, <2>2 DEF Standing, Types
  <2>4. ids[r] = <<>> /\ (r \in finished => r \in canceled)
    BY <1>0, <1>2, <2>1 DEF Chunks
  <2>5. r \notin finished
    BY <1>0, <1>4, <2>4 DEF Standing
  <2>6. tokens[r] = <<>> /\ Len(tokens[r]) = 0
    <3>1. Len(tokens[r]) <= Len(ids[r]) /\ tokens[r] \in Seq(Nat)
      BY <1>0, <1>4, <2>2 DEF Texts, Types
    <3> QED BY <2>4, <3>1
  <2>7. tokens'[r] = Append(tokens[r], Len(tokens[r]) + 1)
    <3>1. tokens'[r] = Append(tokens[r], 1)
      BY <1>3, <1>4, <2>2
    <3>2. Len(tokens[r]) + 1 = 1
      BY <2>6
    <3> QED BY ONLY <3>1, <3>2
  <2>8. r \notin finished' => Len(tokens[r]) + 1 < MaxNew
    BY <1>3, <1>4
  <2>9. Contract!Gains(r)
    BY <2>2, <2>3, <2>5, <2>7, <2>8, GainMaps
  <2> QED BY <2>3, <2>9
<1>5. ASSUME NEW r \in F, r \in dropped
      PROVE  Contract!ComesLate(r)
  <2>1. r \in prefills[1].all /\ r \in Requests
    BY <1>0, <1>2, <1>3 DEF Chunks
  <2>2. Flying(r) /\ LastChunkInFlight(r)
    BY <1>2, <1>3, <2>1 DEF Flying, ChunksOf, LastChunkInFlight
  <2>3. r \in canceled /\ r \in finished /\ ended[r] \in 0..1 /\ ended[r] # 1
    BY <1>0, <1>5, <2>1, <2>2 DEF Standing, Types
  <2>4. tokens[r] = <<>>
    <3>1. ids[r] = <<>>
      BY <1>0, <1>2, <2>1 DEF Chunks
    <3> QED BY <2>1, <3>1 DEF Untold
  <2>5. tokens'[r] = <<1>>
    <3>1. tokens'[r] = Append(tokens[r], 1)
      BY <1>3, <2>1
    <3>2. Append(<<>>, 1) = <<1>>
      OBVIOUS
    <3> QED BY ONLY <2>4, <3>1, <3>2
  <2>6. ended[r] = 0 /\ ended'[r] = 1
    BY <1>3, <2>1, <2>3
  <2>7. r \in Late /\ r \notin Late'
    BY <1>3, <2>2, <2>3 DEF Late
  <2> QED BY <2>4, <2>5, <2>6, <2>7 DEF Contract!ComesLate, Late
<1>6. ASSUME NEW r \in Requests, ~(r \in F /\ r \in dropped)
      PROVE  /\ \/ Contract!Gains(r)
                \/ tokens'[r] = tokens[r] /\ (r \in finished' \cup dropped => r \in finished \cup dropped)
             /\ ended'[r] = ended[r] \/ Contract!End(r)
  <2>1. CASE r \in F
    <3>1. Contract!Gains(r) /\ ended[r] = 0 /\ r \notin dropped
      BY <1>1, <1>4, <1>6, <2>1
    <3>2. CASE r \in fin
      <4>1. ended'[r] = 1 /\ r \in (finished \cup dropped)'
        BY <1>3, <3>1, <3>2
      <4>2. Contract!End(r)
        BY <3>1, <4>1 DEF Contract!End
      <4> QED BY <3>1, <4>2
    <3>3. CASE r \notin fin
      BY <1>3, <3>1, <3>3
    <3> QED BY <3>1, <3>2, <3>3
  <2>2. CASE r \notin F
    BY <1>3, <2>2
  <2> QED BY <2>1, <2>2
<1>7. finished \subseteq finished'
  BY <1>3
<1>8. Late' \subseteq Late
  <2>1. canceled' \subseteq canceled
    BY <1>3
  <2> QED BY <2>1, LateKept
<1> QED BY <1>0, <1>1, <1>5, <1>6, <1>7, <1>8, AdvanceMaps

\* Discarding marks a request in flight, and then its first token may come late.
LEMMA DiscardMaps == ASSUME IInv, NEW r \in Requests, Discard(r) PROVE Contract!Drop(r)
<1>0. Types /\ Standing /\ Texts /\ Chunks
  BY DEF IInv
<1>1. /\ dropped' = dropped \cup {r} /\ UNCHANGED <<tokens, ended, prefills>>
      /\ finished' = finished \cup {r} \/ finished' = finished
      /\ canceled' = canceled \/ canceled' = canceled \cup {r}
      /\ r \in known \ canceled
  BY DEF Discard
<1>2. \A q : LastChunkInFlight(q)' <=> LastChunkInFlight(q)
  BY <1>1 DEF LastChunkInFlight
<1>3. LastChunkInFlight(r) => tokens[r] = <<>>
  <2> SUFFICES ASSUME LastChunkInFlight(r) PROVE tokens[r] = <<>>
    OBVIOUS
  <2>1. ids[r] = <<>>
    BY <1>0 DEF LastChunkInFlight, Chunks
  <2>2. r \notin dropped
    BY <1>0, <1>1 DEF Standing
  <2>3. Len(tokens[r]) <= Len(ids[r]) /\ tokens[r] \in Seq(Nat)
    BY <1>0, <2>2 DEF Texts, Types
  <2> QED BY <2>1, <2>3
<1>4. Late' = Late \/ (tokens[r] = <<>> /\ Late' = Late \cup {r})
  <2>1. CASE canceled' = canceled
    BY <1>2, <2>1 DEF Late
  <2>2. CASE canceled' = canceled \cup {r}
    <3>1. CASE LastChunkInFlight(r)
      BY <1>2, <1>3, <2>2, <3>1 DEF Late
    <3>2. CASE ~LastChunkInFlight(r)
      BY <1>2, <2>2, <3>2 DEF Late
    <3> QED BY <3>1, <3>2
  <2> QED BY <1>1, <2>1, <2>2
<1> QED BY <1>1, <1>4 DEF Contract!Drop, Late

LEMMA LaunchPrefillMaps == ASSUME IInv, IInv', LaunchPrefill PROVE Contract!Advance
<1>1. UNCHANGED <<finished, tokens, ended, dropped, canceled>> /\ Types'
  BY DEF IInv, LaunchPrefill, caller
<1>2. Late' \subseteq Late
  BY <1>1, LateKept
<1> QED BY <1>1, <1>2, AdvanceMaps

\* A step is a step of the contract or changes nothing the caller sees.
LEMMA NextMaps == ASSUME IInv, IInv', Untold, [Next]_vars PROVE [Contract!CNext]_(Contract!cvars)
<1>1. ASSUME UNCHANGED <<finished, caller, canceled, prefills>> PROVE UNCHANGED Contract!cvars
  BY <1>1 DEF Contract!cvars, caller, LastChunkInFlight
<1>2. ASSUME NEW r \in Requests, AddRequest(r) \/ AddCached(r) \/ Discard(r)
      PROVE  [Contract!CNext]_(Contract!cvars)
  <2>1. CASE AddRequest(r)
    BY <1>1, <2>1 DEF AddRequest, pending
  <2>2. CASE AddCached(r)
    BY <2>2, AddCachedMaps DEF Contract!CNext
  <2>3. CASE Discard(r)
    BY <2>3, DiscardMaps DEF Contract!CNext
  <2> QED BY <1>2, <2>1, <2>2, <2>3
<1>3. CASE SyncDecode \/ SyncPrefill
  BY <1>3, SyncMaps DEF Contract!CNext
<1>4. CASE TakeDecode
  <2>1. CASE Raises
    BY <1>1, <1>4, <2>1 DEF TakeDecode, sessions, pending
  <2>2. CASE ~Raises
    <3>1. TakeEntries /\ DecodesDue
      BY <1>4, <2>2 DEF TakeDecode
    <3>2. decodes # <<>>
      <4>1. decodes = <<>> => Len(decodes) = 0
        OBVIOUS
      <4> QED BY <3>1, <4>1 DEF DecodesDue
    <3> QED BY <3>1, <3>2, TakeEntriesMaps DEF Contract!CNext
  <2> QED BY <2>1, <2>2
<1>5. CASE TakePrefill
  BY <1>5, TakePrefillMaps DEF Contract!CNext
<1>6. CASE LaunchPrefill
  BY <1>6, LaunchPrefillMaps DEF Contract!CNext
<1>7. CASE StepCall \/ AllOver \/ LaunchDecode \/ NoDecodeDue \/ NoPrefillDue \/ UNCHANGED vars
  <2>1. UNCHANGED <<finished, caller, canceled, prefills>>
    BY <1>7 DEF StepCall, AllOver, LaunchDecode, NoDecodeDue, NoPrefillDue, vars, sessions, pending
  <2> QED BY <1>1, <2>1
<1> QED BY <1>2, <1>3, <1>4, <1>5, <1>6, <1>7 DEF Next, Step

\* In chunks or not, overlapped or not, the caller gets the tokens of the model
\* in order and the end once and after the last token; of a request it discarded
\* nothing more, but for the first token and the end of one whose last chunk was
\* in flight at that moment.
THEOREM RefinesContract == Spec => ImplementsSync
<1>1. Init => Contract!CInit
  BY InitMaps
<1>2. IInv /\ IInv' /\ Untold /\ [Next]_vars => [Contract!CNext]_(Contract!cvars)
  BY NextMaps
<1> QED BY <1>1, <1>2, InvariantUntold, PTL DEF Spec, ImplementsSync, Contract!CSpec

=============================================================================
