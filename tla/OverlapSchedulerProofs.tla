----------------------- MODULE OverlapSchedulerProofs -----------------------
(***************************************************************************)
(* Theorems about OverlapScheduler that hold with and without CUDA graphs: *)
(* type correctness, blocks are held while a step is in flight, and no     *)
(* placeholder is lost or resolved twice. The argument is an invariant     *)
(* that says, for each launch that is still in flight, which entry of      *)
(* generated_ids it will fill.                                             *)
(***************************************************************************)
EXTENDS OverlapScheduler, FiniteSetTheorems, SequenceTheorems, TLAPS

\* What the batches in flight and the results being taken are made of.
Launches == [rid : Requests, id : Int, at : 1..(MaxNew - 1)]
Batches == [inputs : Seq(Launches), base : 0..(Limit - 1), out : Seq(0..MaxNew)]
Items   == [rid : Requests, pos : 2..MaxNew, tok : 0..MaxNew]

Types ==
  /\ TypeOK
  /\ batches \in Seq(Batches) /\ item \in Seq(Items)
  /\ host \in [1..MaxBatch -> Seq(Launches)]
  /\ future \in [0..(MapSize - 1) -> 0..MaxNew]
  /\ pc \in {"idle", "select", "take", "results"}

\* Where the host is says how many batches there are and whether any is being taken.
Depth ==
  /\ pc # "results" => item = <<>>
  /\ pc = "idle" => selected = <<>>
  /\ Len(selected) <= MaxBatch
  /\ Len(batches) <= IF pc = "take" /\ selected # <<>> THEN 2 ELSE 1

\* A batch holds each request once, its results have its length, and with graphs
\* the host buffer of its size has its length.
BatchesOK ==
  \A j \in DOMAIN batches :
    LET b == batches[j]
    IN  /\ Len(b.inputs) \in 1..MaxBatch
        /\ b.out = <<>> \/ Len(b.out) = Len(b.inputs)
        /\ CudaGraph => Len(host[Len(b.inputs)]) = Len(b.inputs)
        /\ \A k, m \in DOMAIN b.inputs : b.inputs[k].rid = b.inputs[m].rid => k = m

\* So does what is left of the batch whose results are taken.
ItemOK == \A k, m \in DOMAIN item : item[k].rid = item[m].rid => k = m

\* The queue and the selection hold no request twice and share none; whoever is
\* selected is still eligible.
Queues ==
  /\ IsInjective(activeRids)
  /\ \A r \in Range(activeRids) : tokens[r] # <<>>
  /\ pc = "select" => /\ IsInjective(selected)
                      /\ \A r \in Range(selected) : Eligible(r) /\ r \notin Range(activeRids)

\* Whoever is not finished holds its blocks; only finished sessions wait for
\* their last step to be discarded.
SessionsOK ==
  /\ \A r \in known : ids[r] # <<>> /\ tokens[r] # <<>>
  /\ known \ finished \subseteq held
  /\ canceled \subseteq known \cap finished

\* A request is in flight where it appears: in the results, in the first batch,
\* in the second one.
InItem(r) == \E k \in DOMAIN item : item[k].rid = r
InBatch(j, r) == j \in DOMAIN batches /\ \E k \in DOMAIN batches[j].inputs :
                                            batches[j].inputs[k].rid = r
One(p) == IF p THEN 1 ELSE 0
Flights(r) == One(InItem(r)) + One(InBatch(1, r)) + One(InBatch(2, r))

Counted == \A r \in Requests : inflight[r] = Flights(r)

\* The placeholder at position p of generated_ids: it is the last entry, or the
\* last but one when the request was launched once more (again), and then the
\* session is not finished.
Placed(r, p, again) ==
  /\ r \in known \cap held
  /\ p \in 2..Len(ids[r]) /\ ids[r][p] < 0
  /\ IF again THEN Len(ids[r]) = p + 1 /\ r \notin finished ELSE Len(ids[r]) = p

ItemPlaced == \A k \in DOMAIN item : Placed(item[k].rid, item[k].pos, InBatch(1, item[k].rid))
BatchPlaced ==
  \A j \in DOMAIN batches : \A k \in DOMAIN batches[j].inputs :
    LET x == batches[j].inputs[k]
    IN  /\ Placed(x.rid, x.at + 1, j = 1 /\ InBatch(2, x.rid))
        /\ ids[x.rid][x.at + 1] = -(batches[j].base + k)

(***************************************************************************)
(* The inductive invariant. inflight counts the appearances of a request   *)
(* in what was launched (Counted), and each appearance names a placeholder *)
(* of a session that holds its blocks (ItemPlaced, BatchPlaced): the last  *)
(* entry of generated_ids, or the last but one if a newer launch follows.  *)
(* The second is possible only while the session is not finished, so a     *)
(* session that ends with one step in flight removes its last entry and no *)
(* other.                                                                  *)
(***************************************************************************)
IInv == /\ Types /\ Depth /\ BatchesOK /\ ItemOK /\ Queues /\ SessionsOK
        /\ Counted /\ ItemPlaced /\ BatchPlaced

-----------------------------------------------------------------------------
\* Sequences.
LEMMA AppendFacts ==
  ASSUME NEW S, NEW q \in Seq(S), NEW e \in S
  PROVE  /\ Append(q, e) \in Seq(S) /\ Len(Append(q, e)) = Len(q) + 1
         /\ DOMAIN Append(q, e) = 1..(Len(q) + 1) /\ DOMAIN q = 1..Len(q) /\ Len(q) \in Nat
         /\ Append(q, e)[Len(q) + 1] = e
         /\ \A i \in 1..Len(q) : Append(q, e)[i] = q[i] /\ q[i] \in S
         /\ Append(q, e) # <<>>
OBVIOUS

LEMMA TailFacts ==
  ASSUME NEW S, NEW q \in Seq(S), q # <<>>
  PROVE  /\ Tail(q) \in Seq(S) /\ Len(Tail(q)) = Len(q) - 1 /\ Len(q) \in Nat \ {0}
         /\ DOMAIN Tail(q) = 1..(Len(q) - 1) /\ DOMAIN q = 1..Len(q)
         /\ Head(q) \in S /\ Head(q) = q[1]
         /\ \A i \in 1..(Len(q) - 1) : Tail(q)[i] = q[i + 1]
OBVIOUS

LEMMA SeqFacts ==
  ASSUME NEW S, NEW q \in Seq(S)
  PROVE  /\ Len(q) \in Nat /\ DOMAIN q = 1..Len(q) /\ \A i \in 1..Len(q) : q[i] \in S
         /\ q = <<>> <=> Len(q) = 0
         /\ Range(q) \subseteq S /\ \A e : e \in Range(q) <=> \E i \in 1..Len(q) : e = q[i]
BY DEF Range

\* The ring has a slot for each value of ct and for each place of a batch that
\* starts at the last one.
LEMMA LimitFacts == Limit \in Nat \ {0} /\ MapSize \in Nat /\ MapSize >= Limit + MaxBatch + 8
BY ConstantsAssumption DEF Limit, MapSize

\* The parts of the state, one by one.
LEMMA TypeFacts ==
  ASSUME Types
  PROVE  /\ \A r \in Requests : ids[r] \in Seq(Int) /\ Len(ids[r]) \in 0..MaxNew
         /\ batches \in Seq(Batches) /\ Len(batches) \in Nat /\ DOMAIN batches = 1..Len(batches)
         /\ item \in Seq(Items) /\ Len(item) \in Nat /\ DOMAIN item = 1..Len(item)
         /\ \A j \in DOMAIN batches :
              /\ batches[j].inputs \in Seq(Launches) /\ batches[j].base \in 0..(Limit - 1)
              /\ batches[j].out \in Seq(0..MaxNew)
              /\ DOMAIN batches[j].inputs = 1..Len(batches[j].inputs)
              /\ Len(batches[j].inputs) \in Nat
              /\ \A k \in DOMAIN batches[j].inputs :
                   /\ batches[j].inputs[k] \in Launches /\ batches[j].inputs[k].rid \in Requests
                   /\ batches[j].inputs[k].id \in Int /\ batches[j].inputs[k].at \in 1..(MaxNew - 1)
         /\ \A k \in DOMAIN item : /\ item[k] \in Items /\ item[k].rid \in Requests
                                   /\ item[k].pos \in 2..MaxNew /\ item[k].tok \in 0..MaxNew
<1>1. \A r \in Requests : ids[r] \in Seq(Int) /\ Len(ids[r]) \in 0..MaxNew
  BY ConstantsAssumption DEF Types, TypeOK
<1>2. /\ batches \in Seq(Batches) /\ Len(batches) \in Nat /\ DOMAIN batches = 1..Len(batches)
      /\ item \in Seq(Items) /\ Len(item) \in Nat /\ DOMAIN item = 1..Len(item)
  BY DEF Types
<1>3. ASSUME NEW j \in DOMAIN batches
      PROVE  /\ batches[j].inputs \in Seq(Launches) /\ batches[j].base \in 0..(Limit - 1)
             /\ batches[j].out \in Seq(0..MaxNew)
             /\ DOMAIN batches[j].inputs = 1..Len(batches[j].inputs)
             /\ Len(batches[j].inputs) \in Nat
  <2>1. batches[j] \in Batches
    BY <1>2, <1>3
  <2>2. /\ batches[j].inputs \in Seq(Launches) /\ batches[j].base \in 0..(Limit - 1)
        /\ batches[j].out \in Seq(0..MaxNew)
    BY <2>1 DEF Batches
  <2> QED BY <2>2
<1>4. ASSUME NEW j \in DOMAIN batches, NEW k \in DOMAIN batches[j].inputs
      PROVE  /\ batches[j].inputs[k] \in Launches /\ batches[j].inputs[k].rid \in Requests
             /\ batches[j].inputs[k].id \in Int /\ batches[j].inputs[k].at \in 1..(MaxNew - 1)
  <2>1. batches[j].inputs[k] \in Launches
    BY <1>3, <1>4
  <2> QED BY <2>1 DEF Launches
<1>5. ASSUME NEW k \in DOMAIN item
      PROVE  /\ item[k] \in Items /\ item[k].rid \in Requests
             /\ item[k].pos \in 2..MaxNew /\ item[k].tok \in 0..MaxNew
  <2>1. item[k] \in Items
    BY <1>2, <1>5
  <2> QED BY <2>1 DEF Items
<1> QED BY <1>1, <1>2, <1>3, <1>4, <1>5

-----------------------------------------------------------------------------
\* A set of at most one element counts as its membership.
LEMMA CountOne ==
  ASSUME NEW S, NEW e, S = {} \/ S = {e}
  PROVE  Cardinality(S) = One(e \in S)
BY FS_EmptySet, FS_Singleton DEF One

\* BlocksHeld counts with Cardinality what Flights adds up.
LEMMA InFlightCounts ==
  ASSUME Types, Depth, ItemOK, NEW r \in Requests
  PROVE  InFlight(r) = Flights(r)
<1> DEFINE B == {i \in DOMAIN batches : \E x \in Range(batches[i].inputs) : x.rid = r}
           I == {i \in DOMAIN item : item[i].rid = r}
<1>1. \A j : j \in B <=> InBatch(j, r)
  <2>1. \A j \in DOMAIN batches : (\E x \in Range(batches[j].inputs) : x.rid = r)
                                    <=> \E k \in DOMAIN batches[j].inputs : batches[j].inputs[k].rid = r
    BY DEF Range
  <2> QED BY <2>1 DEF InBatch
<1>2. B \subseteq {1, 2}
  <2>1. DOMAIN batches \subseteq {1, 2}
    BY TypeFacts DEF Depth
  <2> QED BY <2>1
<1>3. Cardinality(B) = One(1 \in B) + One(2 \in B)
  <2>1. CASE 1 \notin B
    <3>1. Cardinality(B) = One(2 \in B)
      BY <1>2, <2>1, CountOne
    <3> QED BY <2>1, <3>1 DEF One
  <2>2. CASE 1 \in B
    <3> DEFINE C == B \ {1}
    <3>1. Cardinality(C) = One(2 \in C) /\ IsFiniteSet(C)
      <4>1. C = {} \/ C = {2}
        BY <1>2
      <4> HIDE DEF C
      <4>2. IsFiniteSet(C)
        <5>1. C \subseteq {2} /\ IsFiniteSet({2})
          BY <4>1, FS_Singleton
        <5> QED BY <5>1, FS_Subset
      <4> QED BY <4>1, <4>2, CountOne
    <3>2. B = C \cup {1} /\ 1 \notin C /\ (2 \in C <=> 2 \in B)
      BY <2>2
    <3> HIDE DEF B, C
    <3>3. Cardinality(B) = Cardinality(C) + 1
      BY <3>1, <3>2, FS_AddElement
    <3> QED BY <2>2, <3>1, <3>2, <3>3 DEF One
  <2> QED BY <2>1, <2>2
<1>4. Cardinality(I) = One(InItem(r))
  <2>1. CASE I = {}
    BY <2>1, FS_EmptySet DEF One, InItem
  <2>2. CASE I # {}
    <3>1. PICK k : k \in I
      BY <2>2
    <3>2. I = {k}
      BY <3>1 DEF ItemOK
    <3>3. InItem(r)
      BY <3>1 DEF InItem
    <3> QED BY <3>2, <3>3, FS_Singleton DEF One
  <2> QED BY <2>1, <2>2
<1>5. InFlight(r) = Cardinality(B) + Cardinality(I)
  BY DEF InFlight
<1>6. One(1 \in B) = One(InBatch(1, r)) /\ One(2 \in B) = One(InBatch(2, r))
  BY <1>1 DEF One
<1>7. \A p : One(p) \in Nat
  BY DEF One
<1> HIDE DEF B, I
<1> QED BY <1>3, <1>4, <1>5, <1>6, <1>7 DEF Flights

\* Whoever is in flight has a placeholder, and so holds its blocks.
LEMMA InvBlocksHeld == IInv => BlocksHeld
<1> SUFFICES ASSUME IInv, NEW r \in Requests
             PROVE  /\ inflight[r] = InFlight(r)
                    /\ inflight[r] > 0 => r \in known \cap held
  BY DEF BlocksHeld
<1>1. inflight[r] = InFlight(r) /\ inflight[r] = Flights(r)
  BY InFlightCounts DEF IInv, Counted
<1>2. InItem(r) => r \in known \cap held
  BY DEF IInv, ItemPlaced, Placed, InItem
<1>3. ASSUME NEW j, InBatch(j, r) PROVE r \in known \cap held
  BY <1>3 DEF IInv, BatchPlaced, Placed, InBatch
<1>4. ~InItem(r) /\ ~InBatch(1, r) /\ ~InBatch(2, r) => Flights(r) = 0
  BY DEF Flights, One
<1> QED BY <1>1, <1>2, <1>3, <1>4

-----------------------------------------------------------------------------
\* What the count of a request says of where it appears.
LEMMA FlightsSome ==
  ASSUME IInv, NEW r \in Requests
  PROVE  /\ inflight[r] = Flights(r) /\ inflight[r] \in 0..2
         /\ InItem(r) => inflight[r] > 0
         /\ \A j \in DOMAIN batches : InBatch(j, r) => inflight[r] > 0
         /\ InItem(r) /\ InBatch(1, r) => inflight[r] > 1
         /\ InBatch(1, r) /\ InBatch(2, r) => inflight[r] > 1
         /\ inflight[r] > 0 => r \in known \cap held
<1>1. inflight[r] = Flights(r)
  BY DEF IInv, Counted
<1>2. ~(InItem(r) /\ InBatch(2, r))
  <2>1. 2 \in DOMAIN batches => pc = "take"
    BY TypeFacts DEF IInv, Depth
  <2>2. item # <<>> => pc = "results"
    BY DEF IInv, Depth
  <2>3. item = <<>> => ~InItem(r)
    BY DEF InItem
  <2> QED BY <2>1, <2>2, <2>3 DEF InBatch
<1>3. \A j \in DOMAIN batches : j = 1 \/ j = 2
  BY TypeFacts DEF IInv, Depth
<1>4. inflight[r] > 0 => r \in known \cap held
  BY InvBlocksHeld DEF BlocksHeld
<1> QED BY <1>1, <1>2, <1>3, <1>4 DEF Flights, One

\* Steps that leave the pipeline alone.
LEMMA PipelineKept ==
  ASSUME IInv, UNCHANGED <<item, batches, inflight>>,
         \A r \in Requests : inflight[r] > 0 =>
           /\ r \in known' \cap held' /\ ids'[r] = ids[r]
           /\ r \in finished' \ finished => inflight[r] = 1
  PROVE  ItemOK' /\ Counted' /\ ItemPlaced' /\ BatchPlaced'
<1>1. ItemOK' /\ Counted'
  <2>1. ItemOK'
    BY DEF IInv, ItemOK
  <2>2. ASSUME NEW r \in Requests PROVE Flights(r)' = Flights(r)
    BY DEF Flights, One, InItem, InBatch
  <2> QED BY <2>1, <2>2 DEF IInv, Counted
<1>2. ASSUME NEW r \in Requests, NEW p, NEW again, Placed(r, p, again), inflight[r] > 0,
             again => inflight[r] > 1
      PROVE  Placed(r, p, again)'
  BY <1>2 DEF Placed
<1>3. ItemPlaced'
  <2>1. ASSUME NEW k \in DOMAIN item
        PROVE  Placed(item[k].rid, item[k].pos, InBatch(1, item[k].rid))'
    <3>1. item[k].rid \in Requests /\ Placed(item[k].rid, item[k].pos, InBatch(1, item[k].rid))
      BY TypeFacts DEF IInv, ItemPlaced
    <3>2. InItem(item[k].rid)
      BY DEF InItem
    <3>3. InBatch(1, item[k].rid)' <=> InBatch(1, item[k].rid)
      BY DEF InBatch
    <3>4. Placed(item[k].rid, item[k].pos, InBatch(1, item[k].rid))'
      BY <1>2, <3>1, <3>2, <3>3, FlightsSome DEF Placed
    <3> QED BY <3>4
  <2> QED BY <2>1 DEF ItemPlaced
<1>4. BatchPlaced'
  <2>1. ASSUME NEW j \in DOMAIN batches, NEW k \in DOMAIN batches[j].inputs,
               NEW x, x = batches[j].inputs[k]
        PROVE  /\ Placed(x.rid, x.at + 1, j = 1 /\ InBatch(2, x.rid))'
               /\ ids'[x.rid][x.at + 1] = -(batches[j].base + k)
    <3>1. /\ x.rid \in Requests /\ Placed(x.rid, x.at + 1, j = 1 /\ InBatch(2, x.rid))
          /\ ids[x.rid][x.at + 1] = -(batches[j].base + k)
      BY <2>1, TypeFacts DEF IInv, BatchPlaced
    <3>2. InBatch(j, x.rid) /\ inflight[x.rid] > 0 /\ (j = 1 /\ InBatch(2, x.rid) => inflight[x.rid] > 1)
      BY <2>1, <3>1, FlightsSome DEF InBatch
    <3>3. InBatch(2, x.rid)' <=> InBatch(2, x.rid)
      BY <2>1 DEF InBatch
    <3>4. PICK r, p : r = x.rid /\ p = x.at + 1
      OBVIOUS
    <3>5. /\ r \in known' \cap held' /\ ids'[r] = ids[r]
          /\ r \in finished' \ finished => inflight[r] = 1
      BY <3>1, <3>2, <3>4
    <3>6. /\ r \in known \cap held /\ p \in 2..Len(ids[r]) /\ ids[r][p] < 0
          /\ IF j = 1 /\ InBatch(2, r) THEN Len(ids[r]) = p + 1 /\ r \notin finished
                                       ELSE Len(ids[r]) = p
      BY <3>1, <3>4 DEF Placed
    <3>7. j = 1 /\ InBatch(2, r) => r \notin finished'
      <4>1. j = 1 /\ InBatch(2, r) => r \notin finished /\ inflight[r] # 1
        BY <3>2, <3>4, <3>6
      <4> QED BY <3>5, <4>1
    <3>8. InBatch(2, r)' <=> InBatch(2, r)
      BY <3>3, <3>4
    <3>9. Placed(r, p, j = 1 /\ InBatch(2, r))'
      BY ONLY <3>5, <3>6, <3>7, <3>8 DEF Placed
    <3> QED BY <3>1, <3>4, <3>5, <3>9
  <2> QED BY <2>1 DEF BatchPlaced
<1> QED BY <1>1, <1>3, <1>4

\* The invariant holds at first.
LEMMA InitInv == Init => IInv
<1> SUFFICES ASSUME Init PROVE IInv
  OBVIOUS
<1> USE DEF Init
<1>1. TypeOK
  <2>1. Limit - 1 \in Nat /\ 0 \in 0..(Limit - 1)
    BY LimitFacts
  <2> QED BY <2>1, ConstantsAssumption DEF TypeOK
<1>2. Types
  <2>1. \A q : q = <<>> => q \in Seq(Batches) /\ q \in Seq(Items) /\ q \in Seq(Launches)
    OBVIOUS
  <2>2. host \in [1..MaxBatch -> Seq(Launches)] /\ future \in [0..(MapSize - 1) -> 0..MaxNew]
    BY ConstantsAssumption, <2>1
  <2> QED BY <1>1, <2>1, <2>2 DEF Types
<1>3. Depth /\ BatchesOK /\ ItemOK
  BY ConstantsAssumption DEF Depth, BatchesOK, ItemOK
<1>4. Queues /\ SessionsOK
  BY DEF Queues, SessionsOK, IsInjective, Range
<1>5. Counted /\ ItemPlaced /\ BatchPlaced
  BY DEF Counted, ItemPlaced, BatchPlaced, Flights, One, InItem, InBatch
<1> QED BY <1>2, <1>3, <1>4, <1>5 DEF IInv

\* Queues without repetitions.
LEMMA Injective ==
  ASSUME NEW S, NEW q \in Seq(S)
  PROVE  IsInjective(q) <=> \A i, j \in 1..Len(q) : q[i] = q[j] => i = j
BY DEF IsInjective

LEMMA AppendInjects ==
  ASSUME NEW S, NEW q \in Seq(S), IsInjective(q), NEW e \in S, e \notin Range(q)
  PROVE  IsInjective(Append(q, e)) /\ Range(Append(q, e)) = Range(q) \cup {e}
<1> DEFINE y == Append(q, e)
<1>1. /\ y \in Seq(S) /\ Len(y) = Len(q) + 1 /\ Len(q) \in Nat /\ y[Len(q) + 1] = e
      /\ \A i \in 1..Len(q) : y[i] = q[i] /\ e # q[i]
      /\ \A i \in 1..(Len(q) + 1) : i \in 1..Len(q) \/ i = Len(q) + 1
  BY AppendFacts, SeqFacts
<1> HIDE DEF y
<1>2. IsInjective(y)
  BY <1>1, Injective
<1>3. Range(y) = Range(q) \cup {e}
  BY <1>1, SeqFacts
<1> QED BY <1>2, <1>3 DEF y

LEMMA TailInjects ==
  ASSUME NEW S, NEW q \in Seq(S), IsInjective(q), q # <<>>
  PROVE  IsInjective(Tail(q)) /\ Range(Tail(q)) = Range(q) \ {Head(q)} /\ Head(q) \in Range(q)
<1> DEFINE y == Tail(q)
           n == Len(q)
<1>1. /\ y \in Seq(S) /\ Len(y) = n - 1 /\ n \in Nat \ {0} /\ Head(q) = q[1]
      /\ \A i \in 1..(n - 1) : y[i] = q[i + 1] /\ i + 1 \in 1..n
      /\ \A i \in 1..n : i = 1 \/ (i - 1 \in 1..(n - 1) /\ y[i - 1] = q[i])
  <2>1. \A i \in 1..(n - 1) : y[i] = q[i + 1]
    BY TailFacts
  <2>2. n \in Nat \ {0} /\ y \in Seq(S) /\ Len(y) = n - 1 /\ Head(q) = q[1]
    BY TailFacts
  <2> HIDE DEF y, n
  <2>3. ASSUME NEW i \in 1..n PROVE i = 1 \/ (i - 1 \in 1..(n - 1) /\ y[i - 1] = q[i])
    <3>1. i = 1 \/ (i - 1 \in 1..(n - 1) /\ (i - 1) + 1 = i)
      BY <2>2
    <3> QED BY <3>1, <2>1
  <2> QED BY <2>1, <2>2, <2>3
<1> HIDE DEF y
<1>2. \A i, j \in 1..n : q[i] = q[j] => i = j
  BY Injective
<1> HIDE DEF n
<1>3. \A i, j \in 1..(n - 1) : y[i] = y[j] => i = j
  BY <1>1, <1>2
<1>4. IsInjective(y)
  BY <1>1, <1>3, Injective
<1>5. Range(q) = {q[i] : i \in 1..n} /\ Range(y) = {y[i] : i \in 1..(n - 1)}
  BY <1>1, SeqFacts DEF n
<1>6. \A i \in 1..(n - 1) : y[i] # q[1]
  <2>1. 1 \in 1..n /\ \A i \in 1..(n - 1) : i + 1 # 1
    BY <1>1
  <2> QED BY <1>1, <1>2, <2>1
<1>7. 1 \in 1..n
  BY <1>1
<1>8. \A e \in Range(y) : e \in Range(q) /\ e # Head(q)
  BY <1>1, <1>5, <1>6
<1>9. \A e \in Range(q) : e = Head(q) \/ e \in Range(y)
  <2> SUFFICES ASSUME NEW i \in 1..n PROVE q[i] = Head(q) \/ q[i] \in Range(y)
    BY <1>5
  <2> QED BY <1>1, <1>5
<1>10. Head(q) \in Range(q)
  BY <1>1, <1>5, <1>7
<1> QED BY <1>4, <1>8, <1>9, <1>10 DEF y

-----------------------------------------------------------------------------
\* The caller, between two steps: nothing of it touches a request in flight.
LEMMA AddRequestInv ==
  ASSUME IInv, NEW r \in Requests, AddRequest(r) PROVE IInv'
<1>0. TypeOK /\ Types /\ pc = "idle" /\ tokens[r] = <<>>
  BY DEF IInv, Types, AddRequest
<1>1. /\ UNCHANGED <<inflight, canceled, batches, ct, future, host, kv>>
      /\ UNCHANGED <<pc, examine, selected, item>> /\ UNCHANGED dropped
      /\ known' = known \cup {r}
      /\ tokens' = [tokens EXCEPT ![r] = <<1>>] /\ ids' = [ids EXCEPT ![r] = <<1>>]
      /\ \/ /\ finished' = finished \cup {r} /\ ended' = [ended EXCEPT ![r] = 1]
            /\ UNCHANGED <<held, activeRids>>
         \/ /\ activeRids' = Append(activeRids, r) /\ held' = held \cup {r}
            /\ UNCHANGED <<finished, ended>>
  BY DEF AddRequest, device, loop
<1>2. r \notin known /\ r \notin Range(activeRids) /\ ~(inflight[r] > 0)
  <2>1. r \notin known
    BY <1>0 DEF IInv, SessionsOK
  <2> QED BY <1>0, <2>1, FlightsSome DEF IInv, Queues
<1>3. tokens' \in [Requests -> Seq(0..MaxNew)] /\ ids' \in [Requests -> Seq(Int)]
      /\ tokens'[r] = <<1>> /\ ids'[r] = <<1>>
      /\ \A q \in Requests : q # r => tokens'[q] = tokens[q] /\ ids'[q] = ids[q]
  <2>1. <<1>> \in Seq(0..MaxNew) /\ <<1>> \in Seq(Int)
    BY ConstantsAssumption
  <2> QED BY <1>0, <1>1, <2>1 DEF TypeOK
<1>4. activeRids \in Seq(Requests) /\ activeRids' \in Seq(Requests)
  <2>1. activeRids \in Seq(Requests)
    BY <1>0 DEF TypeOK
  <2>2. Append(activeRids, r) \in Seq(Requests)
    BY <2>1, AppendFacts
  <2> QED BY <1>1, <2>1, <2>2
<1>5. TypeOK'
  <2>1. ASSUME NEW q \in Requests PROVE Len(ids'[q]) <= MaxNew
    <3>1. Len(<<1>>) = 1 /\ 1 <= MaxNew
      BY ConstantsAssumption
    <3>2. Len(ids[q]) <= MaxNew
      BY <1>0 DEF TypeOK
    <3> QED BY <1>3, <3>1, <3>2
  <2>2. ended' \in [Requests -> Nat]
    <3>1. ended \in [Requests -> Nat]
      BY <1>0 DEF TypeOK
    <3> QED BY <1>1, <3>1
  <2> QED BY <1>0, <1>1, <1>3, <1>4, <2>1, <2>2 DEF TypeOK
<1>6. Types'
  BY <1>0, <1>1, <1>5 DEF Types
<1>7. Depth' /\ BatchesOK'
  BY <1>1 DEF IInv, Depth, BatchesOK
<1>8. Queues'
  <2>1. <<1>> # <<>>
    OBVIOUS
  <2>2. IsInjective(activeRids') /\ \A q \in Range(activeRids') : q \in Range(activeRids) \/ q = r
    <3>1. IsInjective(activeRids)
      BY DEF IInv, Queues
    <3>2. /\ IsInjective(Append(activeRids, r))
          /\ Range(Append(activeRids, r)) = Range(activeRids) \cup {r}
      BY <1>2, <1>4, <3>1, AppendInjects
    <3> QED BY <1>1, <3>1, <3>2
  <2>3. Range(activeRids) \subseteq Requests
    BY <1>4, SeqFacts
  <2> QED BY <1>0, <1>1, <1>3, <2>1, <2>2, <2>3 DEF IInv, Queues
<1>9. SessionsOK'
  <2>1. <<1>> # <<>>
    OBVIOUS
  <2> QED BY <1>0, <1>1, <1>3, <2>1 DEF IInv, SessionsOK, TypeOK
<1>10. ItemOK' /\ Counted' /\ ItemPlaced' /\ BatchPlaced'
  <2>1. \A q \in Requests : inflight[q] > 0 =>
           /\ q \in known' \cap held' /\ ids'[q] = ids[q]
           /\ q \in finished' \ finished => inflight[q] = 1
    BY <1>1, <1>2, <1>3, FlightsSome
  <2> QED BY <1>1, <2>1, PipelineKept
<1> QED BY <1>6, <1>7, <1>8, <1>9, <1>10 DEF IInv

LEMMA DiscardInv ==
  ASSUME IInv, NEW r \in Requests, Discard(r) PROVE IInv'
<1>0. TypeOK /\ Types /\ pc = "idle" /\ r \in known \ canceled
  BY DEF IInv, Types, Discard
<1>1. /\ UNCHANGED <<inflight, activeRids, batches, ct, future, host, kv>>
      /\ UNCHANGED <<pc, examine, selected, item>> /\ UNCHANGED <<tokens, ended>>
      /\ dropped' = dropped \cup {r}
      /\ \/ /\ inflight[r] > 0
            /\ finished' = finished \cup {r} /\ canceled' = canceled \cup {r}
            /\ UNCHANGED <<known, held, ids>>
         \/ /\ ~(inflight[r] > 0)
            /\ known' = known \ {r} /\ held' = held \ {r}
            /\ ids' = [ids EXCEPT ![r] = <<>>] /\ UNCHANGED <<finished, canceled>>
  BY DEF Discard, device, loop
<1>2. inflight[r] <= 1
  <2>1. item = <<>> /\ 2 \notin DOMAIN batches
    BY <1>0, TypeFacts DEF IInv, Depth
  <2>2. ~InItem(r) /\ ~InBatch(2, r)
    BY <2>1 DEF InItem, InBatch
  <2> QED BY <2>2, FlightsSome DEF Flights, One
<1>3. ids' \in [Requests -> Seq(Int)] /\ \A q \in Requests : ids'[q] = ids[q] \/ ids'[q] = <<>>
  <2>1. ids \in [Requests -> Seq(Int)] /\ <<>> \in Seq(Int)
    BY <1>0 DEF TypeOK
  <2> QED BY <1>1, <2>1
<1>4. TypeOK'
  <2>1. \A q \in Requests : Len(ids'[q]) <= MaxNew
    <3>1. Len(<<>>) = 0
      OBVIOUS
    <3> QED BY <1>0, <1>3, <3>1, ConstantsAssumption DEF TypeOK
  <2> QED BY <1>0, <1>1, <1>3, <2>1 DEF TypeOK
<1>5. Types'
  BY <1>0, <1>1, <1>4 DEF Types
<1>6. Depth' /\ BatchesOK' /\ Queues'
  BY <1>0, <1>1 DEF IInv, Depth, BatchesOK, Queues
<1>7. SessionsOK'
  BY <1>0, <1>1 DEF IInv, SessionsOK, TypeOK
<1>8. ItemOK' /\ Counted' /\ ItemPlaced' /\ BatchPlaced'
  <2>1. ASSUME NEW q \in Requests, inflight[q] > 0
        PROVE  /\ q \in known' \cap held' /\ ids'[q] = ids[q]
               /\ q \in finished' \ finished => inflight[q] = 1
    <3>1. q \in known \cap held /\ inflight[q] \in 0..2
      BY <2>1, FlightsSome
    <3>2. CASE q = r
      BY <1>1, <1>2, <2>1, <3>1, <3>2
    <3>3. CASE q # r
      BY <1>0, <1>1, <3>1, <3>3 DEF TypeOK
    <3> QED BY <3>2, <3>3
  <2> QED BY <1>1, <2>1, PipelineKept
<1> QED BY <1>5, <1>6, <1>7, <1>8 DEF IInv

\* has_unfinished cuts the queue at the first session that is alive, which
\* exists.
LEMMA Suffix ==
  ASSUME NEW S, NEW q \in Seq(S), IsInjective(q), NEW m \in 1..Len(q)
  PROVE  LET y == SubSeq(q, m, Len(q))
         IN  y \in Seq(S) /\ IsInjective(y) /\ Range(y) \subseteq Range(q)
<1> DEFINE y == SubSeq(q, m, Len(q))
           n == Len(q)
<1>1. /\ y \in Seq(S) /\ Len(y) = n - m + 1 /\ n \in Nat
      /\ \A i \in 1..(n - m + 1) : y[i] = q[m + i - 1]
  BY SubSeqProperties
<1> HIDE DEF y, n
<1>2. \A i \in 1..(n - m + 1) : m + i - 1 \in 1..n
  BY <1>1, m \in 1..n DEF n
<1>3. \A i, j \in 1..(n - m + 1) : m + i - 1 = m + j - 1 => i = j
  BY <1>1
<1>4. \A i, j \in 1..n : q[i] = q[j] => i = j
  BY Injective DEF n
<1>5. IsInjective(y)
  <2>1. \A i, j \in 1..Len(y) : y[i] = y[j] => i = j
    BY <1>1, <1>2, <1>3, <1>4
  <2> QED BY <1>1, <2>1, Injective
<1>6. Range(y) \subseteq Range(q)
  BY <1>1, <1>2, SeqFacts DEF n
<1> QED BY <1>1, <1>5, <1>6 DEF y, n

\* A set of indices that is not empty has a least one.
LEMMA Smallest ==
  ASSUME NEW n \in Nat, NEW T, T \subseteq 1..n, T # {}
  PROVE  \E m \in T : \A i \in T : m <= i
<1> DEFINE F == {1..i : i \in T}
<1>1. IsFiniteSet(1..n)
  BY FS_Interval
<1>2. IsWellFoundedOn(StrictSubsetOrdering(1..n), SUBSET (1..n))
  BY <1>1, FS_StrictSubsetOrderingWellFounded, FS_FiniteSubsetsOfFinite
<1>3. \A i \in T : 1..i \in SUBSET (1..n)
  OBVIOUS
<1>4. F \subseteq SUBSET (1..n) /\ F # {}
  BY <1>3
<1>5. \E x \in F : \A y \in F : ~(<<y, x>> \in StrictSubsetOrdering(1..n))
  <2> HIDE DEF F
  <2> QED BY ONLY <1>2, <1>4, WFMin
<1>6. PICK m \in T : \A i \in T : ~(<<1..i, 1..m>> \in StrictSubsetOrdering(1..n))
  BY <1>5
<1>7. ASSUME NEW i \in T, i < m PROVE FALSE
  <2>1. 1..i \in SUBSET (1..n) /\ 1..m \in SUBSET (1..n) /\ 1..i \subseteq 1..m /\ 1..i # 1..m
    <3>1. m \in 1..m /\ m \notin 1..i
      BY <1>7
    <3> QED BY <1>3, <1>7, <3>1
  <2> QED BY <1>6, <2>1 DEF StrictSubsetOrdering
<1> QED BY <1>7

\* The CHOOSE of LiveFrom has something to choose.
LEMMA LiveFromExists ==
  ASSUME Types, NEW r \in Range(activeRids), Alive(r)
  PROVE  LiveFrom \in 1..Len(activeRids)
<1> DEFINE T == {i \in 1..Len(activeRids) : Alive(activeRids[i])}
<1>1. activeRids \in Seq(Requests) /\ Len(activeRids) \in Nat
  BY DEF Types, TypeOK
<1>2. T # {}
  BY <1>1, SeqFacts
<1>3. PICK m \in T : \A i \in T : m <= i
  <2>1. T \subseteq 1..Len(activeRids)
    OBVIOUS
  <2> HIDE DEF T
  <2> QED BY <1>1, <1>2, <2>1, Smallest
<1>4. \A j \in 1..(m - 1) : j \in 1..Len(activeRids) /\ ~(m <= j)
  BY <1>1, <1>3
<1>5. m \in 1..Len(activeRids) /\ Alive(activeRids[m]) /\ \A j \in 1..(m - 1) : ~Alive(activeRids[j])
  BY <1>3, <1>4
<1> QED BY <1>5 DEF LiveFrom

\* Steps that only move requests between the queue and the selection.
LEMMA SameSessions ==
  ASSUME IInv, UNCHANGED sessions
  PROVE  TypeOK /\ \A r \in Requests : inflight[r] > 0 =>
           /\ r \in known' \cap held' /\ ids'[r] = ids[r]
           /\ r \in finished' \ finished => inflight[r] = 1
BY FlightsSome DEF sessions, IInv, Types

\* The steps of the caller and of the host that look at the queue.
LEMMA StepCallInv == ASSUME IInv, StepCall \/ AllOver PROVE IInv'
<1>0. Types /\ TypeOK /\ activeRids \in Seq(Requests) /\ IsInjective(activeRids) /\ pc = "idle"
  BY DEF IInv, Types, TypeOK, Queues, StepCall, AllOver
<1>1. /\ UNCHANGED sessions /\ UNCHANGED <<batches, ct, future, host, kv>> /\ UNCHANGED caller
      /\ UNCHANGED <<selected, item>>
  BY DEF StepCall, AllOver, loop, device
<1>2. activeRids' \in Seq(Requests) /\ IsInjective(activeRids') /\ Range(activeRids') \subseteq Range(activeRids)
  <2>1. CASE activeRids' = activeRids
    BY <1>0, <2>1
  <2>2. CASE activeRids' = <<>>
    BY <2>2 DEF IsInjective, Range
  <2>3. CASE StepCall /\ activeRids' # activeRids
    <3>1. batches = <<>> /\ activeRids' = SubSeq(activeRids, LiveFrom, Len(activeRids))
      BY <2>3 DEF StepCall
    <3>2. PICK r \in Range(activeRids) : Alive(r)
      BY <2>3, <3>1 DEF StepCall, HasUnfinished
    <3>3. LiveFrom \in 1..Len(activeRids)
      BY <1>0, <3>2, LiveFromExists
    <3> QED BY <1>0, <3>1, <3>3, Suffix
  <2> QED BY <2>1, <2>2, <2>3 DEF StepCall, AllOver
<1>3. /\ pc' \in {"idle", "select"} /\ examine' \in Nat
      /\ AllOver => pc' = pc
  <2>1. Len(activeRids') \in Nat /\ examine \in Nat
    BY <1>0, <1>2 DEF TypeOK
  <2> QED BY <1>0, <2>1 DEF StepCall, AllOver, loop
<1>4. TypeOK'
  BY <1>0, <1>1, <1>2, <1>3 DEF TypeOK, sessions, caller
<1>5. Types'
  BY <1>0, <1>1, <1>3, <1>4 DEF Types
<1>6. selected = <<>> /\ item = <<>>
  BY <1>0 DEF IInv, Depth
<1>7. Depth'
  BY <1>0, <1>1, <1>3, <1>6 DEF IInv, Depth
<1>8. BatchesOK' /\ SessionsOK'
  BY <1>1 DEF IInv, BatchesOK, SessionsOK, sessions, caller
<1>9. Queues'
  <2>1. IsInjective(<<>>) /\ Range(<<>>) = {}
    BY DEF IsInjective, Range
  <2> QED BY <1>1, <1>2, <1>6, <2>1 DEF IInv, Queues, caller
<1>10. ItemOK' /\ Counted' /\ ItemPlaced' /\ BatchPlaced'
  BY <1>1, SameSessions, PipelineKept DEF sessions
<1> QED BY <1>5, <1>7, <1>8, <1>9, <1>10 DEF IInv

LEMMA SelectInv == ASSUME IInv, SelectOne \/ SelectNone PROVE IInv'
<1>0. Types /\ TypeOK /\ activeRids \in Seq(Requests) /\ selected \in Seq(Requests)
      /\ IsInjective(activeRids) /\ pc = "select" /\ IsInjective(selected)
      /\ \A r \in Range(selected) : Eligible(r) /\ r \notin Range(activeRids)
  BY DEF IInv, Types, TypeOK, Queues, SelectOne, SelectNone
<1>1. /\ UNCHANGED sessions /\ UNCHANGED <<batches, ct, future, host, kv>> /\ UNCHANGED caller
      /\ item' = item
  BY DEF SelectOne, SelectNone, device
<1>2. CASE SelectOne
  <2>1. /\ activeRids # <<>> /\ activeRids' = Tail(activeRids) /\ pc' = "select"
        /\ examine' = examine - 1 /\ examine > 0 /\ Len(selected) < MaxBatch
        /\ \/ selected' = selected
           \/ selected' = Append(selected, Head(activeRids)) /\ Eligible(Head(activeRids))
    BY <1>0, <1>2 DEF SelectOne, MoreToSelect
  <2>2. activeRids' \in Seq(Requests) /\ Head(activeRids) \in Requests
    BY <1>0, <2>1, TailFacts
  <2>3. /\ IsInjective(activeRids') /\ Range(activeRids') = Range(activeRids) \ {Head(activeRids)}
        /\ Head(activeRids) \in Range(activeRids)
    BY <1>0, <2>1, TailInjects
  <2>4. Head(activeRids) \notin Range(selected)
    BY <1>0, <2>3
  <2>5. /\ selected' \in Seq(Requests) /\ IsInjective(selected')
        /\ Len(selected') <= MaxBatch
        /\ \A r \in Range(selected') : Eligible(r) /\ r \notin Range(activeRids')
    <3>1. CASE selected' = selected
      BY <1>0, <2>1, <2>3, <3>1 DEF IInv, Depth
    <3>2. CASE selected' = Append(selected, Head(activeRids)) /\ Eligible(Head(activeRids))
      <4>1. /\ Append(selected, Head(activeRids)) \in Seq(Requests)
            /\ Len(Append(selected, Head(activeRids))) = Len(selected) + 1 /\ Len(selected) \in Nat
        BY <1>0, <2>2, AppendFacts
      <4>2. /\ IsInjective(Append(selected, Head(activeRids)))
            /\ Range(Append(selected, Head(activeRids))) = Range(selected) \cup {Head(activeRids)}
        BY <1>0, <2>2, <2>4, AppendInjects
      <4>3. Len(selected) + 1 <= MaxBatch
        BY <2>1, <4>1, ConstantsAssumption
      <4> QED BY <1>0, <2>3, <3>2, <4>1, <4>2, <4>3
    <3> QED BY <2>1, <3>1, <3>2
  <2>6. TypeOK'
    <3>1. examine' \in Nat
      BY <1>0, <2>1 DEF TypeOK
    <3> QED BY <1>0, <1>1, <2>2, <2>5, <3>1 DEF TypeOK, sessions, caller
  <2>7. Types'
    BY <1>0, <1>1, <2>1, <2>6 DEF Types
  <2>8. Depth'
    BY <1>0, <1>1, <2>1, <2>5 DEF IInv, Depth
  <2>9. BatchesOK' /\ SessionsOK'
    BY <1>1 DEF IInv, BatchesOK, SessionsOK, sessions, caller
  <2>10. Queues'
    <3>1. \A r : Eligible(r)' <=> Eligible(r)
      BY <1>1 DEF Eligible, Alive, sessions
    <3> QED BY <1>1, <2>3, <2>5, <3>1 DEF IInv, Queues, caller
  <2>11. ItemOK' /\ Counted' /\ ItemPlaced' /\ BatchPlaced'
    BY <1>1, SameSessions, PipelineKept DEF sessions
  <2> QED BY <2>7, <2>8, <2>9, <2>10, <2>11 DEF IInv
<1>3. CASE SelectNone
  <2>1. UNCHANGED <<activeRids, examine, selected>> /\ pc' = "take" /\ selected = <<>>
    BY <1>3 DEF SelectNone
  <2>2. TypeOK'
    BY <1>0, <1>1, <2>1 DEF TypeOK, sessions, caller
  <2>3. Types'
    BY <1>0, <1>1, <2>1, <2>2 DEF Types
  <2>4. Depth'
    BY <1>0, <1>1, <2>1 DEF IInv, Depth
  <2>5. BatchesOK' /\ SessionsOK' /\ Queues'
    BY <1>1, <2>1 DEF IInv, BatchesOK, SessionsOK, Queues, sessions, caller
  <2>6. ItemOK' /\ Counted' /\ ItemPlaced' /\ BatchPlaced'
    BY <1>1, SameSessions, PipelineKept DEF sessions
  <2> QED BY <2>3, <2>4, <2>5, <2>6 DEF IInv
<1> QED BY <1>2, <1>3

LEMMA EndStepInv == ASSUME IInv, NothingDue \/ Taken PROVE IInv'
<1>0. Types /\ TypeOK
  BY DEF IInv, Types
<1>1. /\ UNCHANGED sessions /\ UNCHANGED <<batches, ct, future, host, kv>> /\ UNCHANGED caller
      /\ UNCHANGED <<activeRids, item>> /\ pc' = "idle" /\ selected' = <<>> /\ examine' = 0
      /\ item = <<>>
  BY DEF NothingDue, Taken, device, IInv, Depth
<1>2. TypeOK'
  BY <1>0, <1>1 DEF TypeOK, sessions, caller
<1>3. Types'
  BY <1>0, <1>1, <1>2 DEF Types
<1>4. Depth'
  <2>1. Len(batches) <= 1
    BY TypeFacts, <1>0 DEF IInv, Depth, NothingDue, Taken, ResultsDue
  <2>2. Len(<<>>) <= MaxBatch
    BY ConstantsAssumption
  <2> QED BY <1>1, <2>1, <2>2 DEF Depth
<1>5. BatchesOK' /\ SessionsOK' /\ Queues'
  BY <1>1 DEF IInv, BatchesOK, SessionsOK, Queues, sessions, caller
<1>6. ItemOK' /\ Counted' /\ ItemPlaced' /\ BatchPlaced'
  BY <1>1, SameSessions, PipelineKept DEF sessions
<1> QED BY <1>3, <1>4, <1>5, <1>6 DEF IInv

-----------------------------------------------------------------------------
\* Launch puts the selection, which left the queue, back at its end.
LEMMA ConcatInjects ==
  ASSUME NEW S, NEW q \in Seq(S), NEW t \in Seq(S), IsInjective(q), IsInjective(t),
         \A e \in Range(t) : e \notin Range(q)
  PROVE  /\ q \o t \in Seq(S) /\ IsInjective(q \o t)
         /\ \A e \in Range(q \o t) : e \in Range(q) \/ e \in Range(t)
<1> DEFINE y == q \o t
           n == Len(q)
           m == Len(t)
<1>1. /\ y \in Seq(S) /\ n \in Nat /\ m \in Nat /\ Len(y) = n + m
      /\ \A i \in 1..n : y[i] = q[i]
      /\ \A i \in (n + 1)..(n + m) : y[i] = t[i - n]
  BY ConcatProperties
<1>2. /\ \A i, j \in 1..n : q[i] = q[j] => i = j
      /\ \A i, j \in 1..m : t[i] = t[j] => i = j
  BY Injective
<1>3. \A i \in 1..n, j \in 1..m : q[i] # t[j]
  BY SeqFacts
<1>4. \A i \in 1..n : q[i] \in Range(q)
  BY SeqFacts
<1>5. \A i \in 1..m : t[i] \in Range(t)
  BY SeqFacts
<1> HIDE DEF y, n, m
<1>6. \A i \in 1..(n + m) : \/ i \in 1..n /\ y[i] = q[i]
                            \/ i - n \in 1..m /\ y[i] = t[i - n] /\ ~(i \in 1..n)
  BY <1>1
<1>7. \A i, j \in 1..(n + m) : i - n = j - n => i = j
  BY <1>1
<1>8. \A i, j \in 1..(n + m) : y[i] = y[j] => i = j
  BY <1>2, <1>3, <1>6, <1>7
<1>9. IsInjective(y)
  BY <1>1, <1>8, Injective
<1>10. \A e \in Range(y) : e \in Range(q) \/ e \in Range(t)
  <2> SUFFICES ASSUME NEW i \in 1..(n + m) PROVE y[i] \in Range(q) \/ y[i] \in Range(t)
    BY <1>1, SeqFacts
  <2> QED BY <1>4, <1>5, <1>6
<1> QED BY <1>1, <1>9, <1>10 DEF y

\* What a launch does to the sessions it selects and to the batches.
\* What Launch appends: one batch of the selection, and to each of its sessions
\* the placeholder of its slot.
LEMMA LaunchFacts ==
  ASSUME IInv, Launch
  PROVE  /\ Len(selected) \in 1..MaxBatch /\ selected \in Seq(Requests)
         /\ Len(batches) \in 0..1
         /\ DOMAIN batches' = 1..(Len(batches) + 1) /\ batches' \in Seq(Batches)
         /\ \A j \in DOMAIN batches : batches'[j] = batches[j]
         /\ LET b == batches'[Len(batches) + 1]
            IN  /\ b.base = ct /\ b.out = <<>> /\ Len(b.inputs) = Len(selected)
                /\ b.inputs \in Seq(Launches) /\ DOMAIN b.inputs = 1..Len(selected)
                /\ \A k \in 1..Len(selected) :
                     b.inputs[k] = [rid |-> selected[k], id |-> ids[selected[k]][Len(ids[selected[k]])],
                                    at |-> Len(ids[selected[k]])]
                /\ host' = IF CudaGraph THEN [host EXCEPT ![Len(selected)] = b.inputs] ELSE host
         /\ \A r \in Range(selected) : /\ r \in Requests /\ r \in known \cap held /\ r \notin finished
                                       /\ Len(ids[r]) \in 1..(MaxNew - 1)
         /\ \A r \in Requests : r \notin Range(selected) => ids'[r] = ids[r] /\ inflight'[r] = inflight[r]
         /\ \A k \in 1..Len(selected) :
              /\ selected[k] \in Range(selected)
              /\ ids'[selected[k]] = Append(ids[selected[k]], -(ct + k))
              /\ inflight'[selected[k]] = inflight[selected[k]] + 1
         /\ item = <<>> /\ item' = <<>>
<1>0. Types /\ TypeOK /\ pc = "select" /\ selected # <<>>
  BY DEF IInv, Types, Launch
<1>1. /\ selected \in Seq(Requests) /\ Len(selected) \in 1..MaxBatch /\ IsInjective(selected)
      /\ \A r \in Range(selected) : Eligible(r)
      /\ Len(batches) \in 0..1 /\ batches \in Seq(Batches) /\ item = <<>>
  <2>1. selected \in Seq(Requests) /\ MaxBatch \in Nat
    BY <1>0, ConstantsAssumption DEF TypeOK
  <2>2. Len(selected) \in 1..MaxBatch
    BY <1>0, <2>1, SeqFacts DEF IInv, Depth
  <2>3. Len(batches) \in 0..1 /\ batches \in Seq(Batches) /\ item = <<>>
    BY <1>0, TypeFacts DEF IInv, Depth
  <2>4. IsInjective(selected) /\ \A r \in Range(selected) : Eligible(r)
    BY <1>0 DEF IInv, Queues
  <2> QED BY <2>1, <2>2, <2>3, <2>4
<1>2. ASSUME NEW r \in Range(selected)
      PROVE  /\ r \in Requests /\ r \in known \cap held /\ r \notin finished
             /\ Len(ids[r]) \in 1..(MaxNew - 1)
             /\ Input(r) = [rid |-> r, id |-> ids[r][Len(ids[r])], at |-> Len(ids[r])]
             /\ Input(r) \in Launches
  <2>1. r \in Requests /\ Eligible(r)
    BY <1>1, SeqFacts
  <2>2. r \in known \cap held /\ r \notin finished /\ ids[r] # <<>> /\ Len(ids[r]) < MaxNew
    BY <2>1 DEF Eligible, Alive, IInv, SessionsOK
  <2>3. ids[r] \in Seq(Int) /\ Len(ids[r]) \in 1..(MaxNew - 1) /\ ids[r][Len(ids[r])] \in Int
    <3>1. ids[r] \in Seq(Int) /\ Len(ids[r]) \in 0..MaxNew /\ MaxNew \in Nat
      BY <1>0, <2>1, TypeFacts, ConstantsAssumption
    <3>2. Len(ids[r]) # 0
      BY <2>2, <3>1
    <3> QED BY <2>2, <3>1, <3>2
  <2>4. Input(r) = [rid |-> r, id |-> ids[r][Len(ids[r])], at |-> Len(ids[r])]
    BY DEF Input, Last
  <2> QED BY <2>1, <2>2, <2>3, <2>4 DEF Launches
<1>3. \A k \in 1..Len(selected) : selected[k] \in Range(selected) /\ selected[k] \in Requests
  BY <1>1, SeqFacts
<1> DEFINE inputs == [i \in 1..Len(selected) |-> Input(selected[i])]
           b == [inputs |-> inputs, base |-> ct, out |-> <<>>]
<1>4. inputs \in Seq(Launches) /\ Len(inputs) = Len(selected) /\ DOMAIN inputs = 1..Len(selected)
  BY <1>1, <1>2, <1>3
<1>5. b \in Batches
  BY <1>0, <1>4 DEF Batches, TypeOK
<1>6. batches' = Append(batches, b) /\ host' = IF CudaGraph THEN [host EXCEPT ![Len(selected)] = inputs] ELSE host
  BY DEF Launch
<1>7. /\ batches' \in Seq(Batches) /\ DOMAIN batches' = 1..(Len(batches) + 1)
      /\ batches'[Len(batches) + 1] = b
      /\ \A j \in DOMAIN batches : batches'[j] = batches[j]
  <2> HIDE DEF b
  <2> QED BY <1>1, <1>5, <1>6, AppendFacts
<1>8. \A k \in 1..Len(selected) :
        inputs[k] = [rid |-> selected[k], id |-> ids[selected[k]][Len(ids[selected[k]])],
                     at |-> Len(ids[selected[k]])]
  BY <1>2, <1>3
<1>9. \A r \in Requests : r \notin Range(selected) => ids'[r] = ids[r] /\ inflight'[r] = inflight[r]
  BY DEF Launch
<1>10. ASSUME NEW k \in 1..Len(selected)
       PROVE  /\ ids'[selected[k]] = Append(ids[selected[k]], -(ct + k))
              /\ inflight'[selected[k]] = inflight[selected[k]] + 1
  <2>1. (CHOOSE i \in 1..Len(selected) : selected[i] = selected[k]) = k
    BY <1>1, Injective
  <2>2. Placeholder(selected[k]) = -(ct + k)
    BY <2>1 DEF Placeholder, Slot
  <2> QED BY <1>3, <2>2 DEF Launch
<1>11. item' = <<>>
  BY <1>1 DEF Launch
<1>12. b.inputs = inputs /\ b.base = ct /\ b.out = <<>>
  OBVIOUS
<1> HIDE DEF inputs, b
<1>13. PICK e : e = batches'[Len(batches) + 1]
  OBVIOUS
<1>14. e.base = ct /\ e.out = <<>> /\ e.inputs = inputs
  BY <1>7, <1>12, <1>13
<1> QED BY <1>1, <1>2, <1>3, <1>4, <1>6, <1>7, <1>8, <1>9, <1>10, <1>11, <1>13, <1>14

LEMMA LaunchTypes == ASSUME IInv, Launch PROVE Types'
<1>0. Types /\ TypeOK
  BY DEF IInv, Types
<1>1. /\ UNCHANGED <<known, finished, held, canceled, future, kv, examine, selected>>
      /\ UNCHANGED caller /\ pc' = "take"
      /\ activeRids' = activeRids \o selected /\ ct' = (ct + Len(selected)) % Limit
      /\ ids' = [r \in Requests |-> IF r \in Range(selected)
                                    THEN Append(ids[r], Placeholder(r)) ELSE ids[r]]
      /\ inflight' = [r \in Requests |-> IF r \in Range(selected)
                                         THEN inflight[r] + 1 ELSE inflight[r]]
  BY DEF Launch
<1>2. ids' \in [Requests -> Seq(Int)] /\ \A r \in Requests : Len(ids'[r]) <= MaxNew
  <2>1. ASSUME NEW r \in Requests PROVE ids'[r] \in Seq(Int) /\ Len(ids'[r]) <= MaxNew
    <3>1. ids[r] \in Seq(Int) /\ Len(ids[r]) \in Nat /\ Len(ids[r]) <= MaxNew
      BY <1>0, TypeFacts
    <3>2. CASE r \in Range(selected)
      <4>1. PICK k \in 1..Len(selected) : selected[k] = r
        <5>1. selected \in Seq(Requests)
          BY <1>0 DEF TypeOK
        <5> QED BY <3>2, <5>1, SeqFacts
      <4>2. ids'[r] = Append(ids[r], -(ct + k)) /\ Len(ids[r]) \in 1..(MaxNew - 1)
        BY <3>2, <4>1, LaunchFacts
      <4>3. -(ct + k) \in Int
        BY <1>0, LaunchFacts, LimitFacts DEF TypeOK
      <4>4. Append(ids[r], -(ct + k)) \in Seq(Int) /\ Len(Append(ids[r], -(ct + k))) = Len(ids[r]) + 1
        BY <3>1, <4>3, AppendFacts
      <4> QED BY <4>2, <4>4, ConstantsAssumption
    <3>3. CASE r \notin Range(selected)
      BY <1>1, <3>1, <3>3
    <3> QED BY <3>2, <3>3
  <2> QED BY <1>1, <2>1
<1>3. inflight' \in [Requests -> Nat]
  BY <1>0, <1>1 DEF TypeOK
<1>4. ct' \in 0..(Limit - 1)
  <2>1. Limit \in Nat \ {0} /\ ct + Len(selected) \in Int
    BY <1>0, LimitFacts, LaunchFacts DEF TypeOK
  <2> QED BY <1>1, <2>1
<1>5. activeRids' \in Seq(Requests)
  BY <1>0, <1>1, ConcatProperties DEF TypeOK
<1>6. TypeOK'
  BY <1>0, <1>1, <1>2, <1>3, <1>4, <1>5 DEF TypeOK, caller
<1>7. host' \in [1..MaxBatch -> Seq(Launches)]
  <2>1. host \in [1..MaxBatch -> Seq(Launches)]
    BY <1>0 DEF Types
  <2>2. PICK x \in Seq(Launches) : host' = IF CudaGraph THEN [host EXCEPT ![Len(selected)] = x] ELSE host
    BY LaunchFacts
  <2> QED BY <2>1, <2>2
<1>8. item' \in Seq(Items)
  BY LaunchFacts
<1>9. batches' \in Seq(Batches)
  BY LaunchFacts
<1>10. future' \in [0..(MapSize - 1) -> 0..MaxNew] /\ pc' \in {"idle", "select", "take", "results"}
  BY <1>0, <1>1 DEF Types
<1> QED BY <1>6, <1>7, <1>8, <1>9, <1>10 DEF Types

\* A request of the batch before gets a second placeholder behind its first.
LEMMA LaunchInv == ASSUME IInv, Launch PROVE IInv'
<1>0. Types /\ TypeOK /\ Types'
  BY LaunchTypes DEF IInv, Types
<1>1. /\ UNCHANGED <<known, finished, held, canceled, future, kv, examine, selected>>
      /\ UNCHANGED caller /\ pc' = "take" /\ pc = "select"
      /\ activeRids' = activeRids \o selected
  BY DEF Launch
<1>2. PICK n \in 0..1 : n = Len(batches) /\ DOMAIN batches = 1..n /\ DOMAIN batches' = 1..(n + 1)
  BY <1>0, LaunchFacts, TypeFacts
<1>3. PICK L \in 1..MaxBatch : L = Len(selected)
  BY LaunchFacts
<1>4. PICK b : b = batches'[n + 1]
  OBVIOUS
<1>5. /\ b.base = ct /\ b.out = <<>> /\ Len(b.inputs) = L /\ DOMAIN b.inputs = 1..L
      /\ \A k \in 1..L : b.inputs[k].rid = selected[k] /\ b.inputs[k].at = Len(ids[selected[k]])
      /\ host' = IF CudaGraph THEN [host EXCEPT ![L] = b.inputs] ELSE host
  <2>1. PICK e : e = batches'[Len(batches) + 1]
    OBVIOUS
  <2>2. /\ e.base = ct /\ e.out = <<>> /\ Len(e.inputs) = Len(selected)
        /\ DOMAIN e.inputs = 1..Len(selected)
        /\ \A k \in 1..Len(selected) :
             e.inputs[k] = [rid |-> selected[k], id |-> ids[selected[k]][Len(ids[selected[k]])],
                            at |-> Len(ids[selected[k]])]
        /\ host' = IF CudaGraph THEN [host EXCEPT ![Len(selected)] = e.inputs] ELSE host
    BY <2>1, LaunchFacts
  <2>3. \A k \in 1..Len(selected) : e.inputs[k].rid = selected[k] /\ e.inputs[k].at = Len(ids[selected[k]])
    <3>1. SUFFICES ASSUME NEW k \in 1..Len(selected)
                   PROVE  e.inputs[k].rid = selected[k] /\ e.inputs[k].at = Len(ids[selected[k]])
      OBVIOUS
    <3>2. e.inputs[k] = [rid |-> selected[k], id |-> ids[selected[k]][Len(ids[selected[k]])],
                         at |-> Len(ids[selected[k]])]
      BY <2>2
    <3> QED BY <3>2
  <2> QED BY <1>2, <1>3, <1>4, <2>1, <2>2, <2>3
<1>6. \A j \in 1..n : batches'[j] = batches[j]
  BY <1>2, LaunchFacts
<1>7. \A r : r \in Range(selected) <=> \E k \in 1..L : r = selected[k]
  BY <1>0, <1>3, SeqFacts DEF TypeOK
<1>8. ASSUME NEW r
      PROVE  /\ ~InItem(r) /\ ~InItem(r)'
             /\ InBatch(n + 1, r)' <=> r \in Range(selected)
             /\ ~InBatch(n + 1, r) /\ ~InBatch(2, r)
             /\ n = 0 => ~InBatch(2, r)'
             /\ n = 1 => (InBatch(1, r)' <=> InBatch(1, r))
  <2>1. ~InItem(r) /\ ~InItem(r)'
    BY LaunchFacts DEF InItem
  <2>2. InBatch(n + 1, r)' <=> r \in Range(selected)
    <3>1. InBatch(n + 1, r)' <=> \E k \in 1..L : b.inputs[k].rid = r
      BY <1>2, <1>4, <1>5 DEF InBatch
    <3> QED BY <1>5, <1>7, <3>1
  <2>3. ~InBatch(n + 1, r) /\ ~InBatch(2, r) /\ (n = 0 => ~InBatch(2, r)')
    <3>1. n + 1 \notin 1..n /\ 2 \notin 1..n /\ (n = 0 => 2 \notin 1..(n + 1))
      OBVIOUS
    <3> QED BY <1>2, <3>1 DEF InBatch
  <2>4. n = 1 => (InBatch(1, r)' <=> InBatch(1, r))
    BY <1>2, <1>6 DEF InBatch
  <2> QED BY <2>1, <2>2, <2>3, <2>4
<1>9. Depth'
  <2>1. Len(batches') = n + 1
    BY <1>0, <1>2 DEF Types
  <2>2. L <= MaxBatch /\ selected # <<>>
    BY DEF Launch
  <2> QED BY <1>1, <1>3, <2>1, <2>2, LaunchFacts DEF Depth
<1>10. BatchesOK'
  <2>1. ASSUME NEW j \in 1..n
        PROVE  /\ Len(batches[j].inputs) \in 1..MaxBatch
               /\ batches[j].out = <<>> \/ Len(batches[j].out) = Len(batches[j].inputs)
               /\ CudaGraph => Len(host'[Len(batches[j].inputs)]) = Len(batches[j].inputs)
               /\ \A k, m \in DOMAIN batches[j].inputs :
                    batches[j].inputs[k].rid = batches[j].inputs[m].rid => k = m
    <3>1. host \in [1..MaxBatch -> Seq(Launches)]
      BY <1>0 DEF Types
    <3>2. /\ Len(batches[j].inputs) \in 1..MaxBatch
          /\ batches[j].out = <<>> \/ Len(batches[j].out) = Len(batches[j].inputs)
          /\ CudaGraph => Len(host[Len(batches[j].inputs)]) = Len(batches[j].inputs)
          /\ \A k, m \in DOMAIN batches[j].inputs :
               batches[j].inputs[k].rid = batches[j].inputs[m].rid => k = m
      BY <1>2 DEF IInv, BatchesOK
    <3> QED BY <1>5, <3>1, <3>2
  <2>2. /\ Len(b.inputs) \in 1..MaxBatch /\ b.out = <<>>
        /\ CudaGraph => Len(host'[Len(b.inputs)]) = Len(b.inputs)
        /\ \A k, m \in DOMAIN b.inputs : b.inputs[k].rid = b.inputs[m].rid => k = m
    <3>1. \A k, m \in 1..L : selected[k] = selected[m] => k = m
      BY <1>0, <1>1, <1>3, Injective DEF IInv, Queues, TypeOK
    <3>2. host \in [1..MaxBatch -> Seq(Launches)]
      BY <1>0 DEF Types
    <3> QED BY <1>5, <3>1, <3>2
  <2>3. \A j \in 1..(n + 1) : j \in 1..n \/ j = n + 1
    OBVIOUS
  <2> QED BY <1>2, <1>4, <1>6, <2>1, <2>2, <2>3 DEF BatchesOK
<1>11. ItemOK'
  BY LaunchFacts DEF ItemOK
<1>12. Queues'
  <2>1. /\ activeRids \in Seq(Requests) /\ selected \in Seq(Requests)
        /\ IsInjective(activeRids) /\ IsInjective(selected)
        /\ \A r \in Range(selected) : r \notin Range(activeRids)
    BY <1>0, <1>1 DEF TypeOK, IInv, Queues
  <2>2. IsInjective(activeRids') /\ \A r \in Range(activeRids') : r \in Range(activeRids) \/ r \in Range(selected)
    BY <1>1, <2>1, ConcatInjects
  <2>3. \A r \in Range(selected) : tokens[r] # <<>>
    BY LaunchFacts DEF IInv, SessionsOK
  <2> QED BY <1>1, <2>2, <2>3 DEF IInv, Queues, caller
<1>13. ASSUME NEW r \in Range(selected)
       PROVE  /\ r \in Requests /\ ids[r] \in Seq(Int) /\ Len(ids[r]) \in 1..(MaxNew - 1)
              /\ ids'[r] \in Seq(Int) /\ Len(ids'[r]) = Len(ids[r]) + 1 /\ ids'[r] # <<>>
              /\ \A p \in 1..Len(ids[r]) : ids'[r][p] = ids[r][p]
              /\ inflight'[r] = inflight[r] + 1
  <2>1. PICK k \in 1..L : r = selected[k]
    BY <1>7
  <2>2. r \in Requests /\ ids[r] \in Seq(Int) /\ Len(ids[r]) \in 1..(MaxNew - 1)
    BY <1>0, LaunchFacts, TypeFacts
  <2>3. ids'[r] = Append(ids[r], -(ct + k)) /\ inflight'[r] = inflight[r] + 1
    BY <1>3, <2>1, LaunchFacts
  <2>4. -(ct + k) \in Int
    BY <1>0, LimitFacts DEF TypeOK
  <2> QED BY <2>2, <2>3, <2>4, AppendFacts
<1>14. SessionsOK'
  <2>1. ASSUME NEW r \in known PROVE ids'[r] # <<>> /\ tokens[r] # <<>>
    BY <1>0, <1>13, LaunchFacts DEF IInv, SessionsOK, TypeOK
  <2> QED BY <1>1, <2>1 DEF IInv, SessionsOK, caller
<1>15. Counted'
  <2> SUFFICES ASSUME NEW r \in Requests PROVE inflight'[r] = Flights(r)'
    BY DEF Counted
  <2>1. inflight[r] = Flights(r)
    BY DEF IInv, Counted
  <2>2. inflight'[r] = inflight[r] + One(r \in Range(selected))
    <3>1. inflight[r] \in Nat
      BY <1>0 DEF TypeOK
    <3> QED BY <1>13, <3>1, LaunchFacts DEF One
  <2>3. CASE n = 0
    <3>1. Flights(r) = 0 /\ Flights(r)' = One(r \in Range(selected))
      BY <1>8, <2>3 DEF Flights, One
    <3> QED BY <2>1, <2>2, <3>1 DEF One
  <2>4. CASE n = 1
    <3>1. /\ Flights(r) = One(InBatch(1, r))
          /\ Flights(r)' = One(InBatch(1, r)) + One(r \in Range(selected))
      BY <1>8, <2>4 DEF Flights, One
    <3> QED BY <2>1, <2>2, <3>1 DEF One
  <2> QED BY <2>3, <2>4
<1>16. ItemPlaced'
  BY LaunchFacts DEF ItemPlaced
<1>17. BatchPlaced'
  <2>1. ASSUME NEW k \in 1..L, NEW x, x = b.inputs[k]
        PROVE  Placed(x.rid, x.at + 1, FALSE)' /\ ids'[x.rid][x.at + 1] = -(ct + k)
    <3>1. x.rid \in Range(selected) /\ x.rid = selected[k] /\ x.at = Len(ids[x.rid])
      BY <1>5, <1>7, <2>1
    <3>2. /\ ids'[x.rid] = Append(ids[x.rid], -(ct + k)) /\ x.rid \in known \cap held
          /\ ids[x.rid] \in Seq(Int) /\ Len(ids[x.rid]) \in 1..(MaxNew - 1)
      BY <1>3, <1>13, <3>1, LaunchFacts
    <3>3. -(ct + k) \in Int /\ -(ct + k) < 0
      BY <1>0, LimitFacts DEF TypeOK
    <3>4. ids'[x.rid][x.at + 1] = -(ct + k) /\ Len(ids'[x.rid]) = x.at + 1 /\ x.at + 1 \in 2..Len(ids'[x.rid])
      BY <3>1, <3>2, <3>3, AppendFacts
    <3> QED BY <1>1, <3>2, <3>3, <3>4 DEF Placed
  <2>2. ASSUME NEW k \in DOMAIN batches[1].inputs, NEW x, x = batches[1].inputs[k], n = 1
        PROVE  /\ Placed(x.rid, x.at + 1, x.rid \in Range(selected))'
               /\ ids'[x.rid][x.at + 1] = -(batches[1].base + k)
    <3>1. Placed(x.rid, x.at + 1, FALSE) /\ ids[x.rid][x.at + 1] = -(batches[1].base + k)
          /\ x.rid \in Requests
      BY <1>0, <1>2, <1>8, <2>2, TypeFacts DEF IInv, BatchPlaced, Placed
    <3>2. CASE x.rid \notin Range(selected)
      BY <1>1, <3>1, <3>2, LaunchFacts DEF Placed
    <3>3. CASE x.rid \in Range(selected)
      <4>1. x.rid \notin finished
        BY <3>3, LaunchFacts
      <4>2. /\ Len(ids'[x.rid]) = Len(ids[x.rid]) + 1 /\ Len(ids[x.rid]) = x.at + 1
            /\ x.at + 1 \in 2..Len(ids[x.rid]) /\ ids[x.rid][x.at + 1] < 0
            /\ x.rid \in known \cap held
        BY <1>13, <3>1, <3>3 DEF Placed
      <4>3. ids'[x.rid][x.at + 1] = ids[x.rid][x.at + 1]
        <5>1. x.at + 1 \in 1..Len(ids[x.rid])
          BY <4>2
        <5> QED BY <1>13, <3>3, <5>1
      <4>4. x.at + 1 \in 2..Len(ids'[x.rid]) /\ Len(ids'[x.rid]) = (x.at + 1) + 1
        BY <1>13, <3>3, <4>2
      <4> QED BY <1>1, <3>1, <3>3, <4>1, <4>2, <4>3, <4>4 DEF Placed
    <3> QED BY <3>2, <3>3
  <2>3. CASE n = 0
    <3>1. DOMAIN batches' = {1} /\ batches'[1] = b
      BY <1>2, <1>4, <2>3
    <3>2. \A r : ~InBatch(2, r)'
      BY <1>8, <2>3
    <3> QED BY <1>5, <2>1, <3>1, <3>2 DEF BatchPlaced, Placed
  <2>4. CASE n = 1
    <3>1. DOMAIN batches' = {1, 2} /\ batches'[2] = b /\ batches'[1] = batches[1]
      BY <1>2, <1>4, <1>6, <2>4
    <3>2. \A r : InBatch(2, r)' <=> r \in Range(selected)
      BY <1>8, <2>4
    <3>3. ASSUME NEW k \in DOMAIN batches'[1].inputs, NEW x, x = batches'[1].inputs[k]
          PROVE  /\ Placed(x.rid, x.at + 1, InBatch(2, x.rid))'
                 /\ ids'[x.rid][x.at + 1] = -(batches'[1].base + k)
      <4>1. k \in DOMAIN batches[1].inputs /\ x = batches[1].inputs[k]
        BY <3>1, <3>3
      <4>2. /\ Placed(x.rid, x.at + 1, x.rid \in Range(selected))'
            /\ ids'[x.rid][x.at + 1] = -(batches[1].base + k)
        BY <2>2, <2>4, <4>1
      <4>3. InBatch(2, x.rid)' <=> x.rid \in Range(selected)
        BY <3>2
      <4>4. Placed(x.rid, x.at + 1, InBatch(2, x.rid))'
        BY <1>1, <4>2, <4>3 DEF Placed
      <4> QED BY <3>1, <4>2, <4>4
    <3>4. ASSUME NEW k \in DOMAIN batches'[2].inputs, NEW x, x = batches'[2].inputs[k]
          PROVE  /\ Placed(x.rid, x.at + 1, FALSE)'
                 /\ ids'[x.rid][x.at + 1] = -(batches'[2].base + k)
      BY <1>5, <2>1, <3>1, <3>4
    <3> QED BY <3>1, <3>3, <3>4 DEF BatchPlaced, Placed
  <2> QED BY <2>3, <2>4
<1> QED BY <1>0, <1>9, <1>10, <1>11, <1>12, <1>14, <1>15, <1>16, <1>17 DEF IInv

\* The oldest batch becomes the results, the one behind it the first.
LEMMA SynchronizeFacts ==
  ASSUME IInv, Synchronize
  PROVE  /\ UNCHANGED <<sessions, activeRids, ct, future, host, kv, examine, selected, caller>>
         /\ pc = "take" /\ pc' = "results" /\ item = <<>>
         /\ Len(batches) \in 1..2 /\ DOMAIN batches = 1..Len(batches)
         /\ Len(batches') = Len(batches) - 1 /\ DOMAIN batches' = 1..(Len(batches) - 1)
         /\ batches' \in Seq(Batches) /\ item' \in Seq(Items)
         /\ \A j \in DOMAIN batches' : batches'[j] = batches[j + 1]
         /\ DOMAIN batches[1].inputs = 1..Len(batches[1].inputs)
         /\ Len(batches[1].inputs) \in Nat /\ Len(batches[1].out) = Len(batches[1].inputs)
         /\ Len(item') = Len(batches[1].inputs) /\ DOMAIN item' = 1..Len(batches[1].inputs)
         /\ \A k \in DOMAIN batches[1].inputs :
              /\ item'[k].rid = batches[1].inputs[k].rid
              /\ item'[k].pos = batches[1].inputs[k].at + 1
              /\ item'[k].tok = batches[1].out[k]
<1>0. Types /\ Depth /\ BatchesOK
  BY DEF IInv
<1>1. /\ pc = "take" /\ pc' = "results" /\ batches' = Tail(batches) /\ ResultsDue
      /\ Head(batches).out # <<>>
      /\ UNCHANGED <<sessions, activeRids, ct, future, host, kv, examine, selected, caller>>
      /\ item' = [i \in DOMAIN Head(batches).inputs |->
                    [rid |-> Head(batches).inputs[i].rid,
                     pos |-> Head(batches).inputs[i].at + 1, tok |-> Head(batches).out[i]]]
  BY DEF Synchronize
<1>2. batches \in Seq(Batches) /\ Len(batches) \in Nat /\ DOMAIN batches = 1..Len(batches)
  BY <1>0, TypeFacts
<1>3. Len(batches) <= 2
  BY <1>0, <1>1, <1>2 DEF Depth
<1>4. batches # <<>> /\ Len(batches) \in 1..2
  BY <1>1, <1>2, <1>3 DEF ResultsDue
<1>5. /\ batches' \in Seq(Batches) /\ Len(batches') = Len(batches) - 1
      /\ DOMAIN batches' = 1..(Len(batches) - 1) /\ Head(batches) = batches[1]
      /\ \A j \in DOMAIN batches' : batches'[j] = batches[j + 1]
  BY <1>1, <1>2, <1>4, TailFacts
<1>6. item = <<>>
  BY <1>0, <1>1 DEF Depth
<1>7. 1 \in DOMAIN batches
  BY <1>2, <1>4
<1>8. PICK n : n = Len(batches[1].inputs)
  OBVIOUS
<1>9. /\ DOMAIN batches[1].inputs = 1..n /\ n \in Nat
      /\ batches[1].out \in Seq(0..MaxNew)
      /\ \A k \in 1..n : batches[1].inputs[k].rid \in Requests /\ batches[1].inputs[k].at \in 1..(MaxNew - 1)
  BY <1>0, <1>7, <1>8, TypeFacts
<1>10. Len(batches[1].out) = n
  BY <1>0, <1>1, <1>5, <1>7, <1>8 DEF BatchesOK
<1>11. item' = [i \in 1..n |-> [rid |-> batches[1].inputs[i].rid,
                                pos |-> batches[1].inputs[i].at + 1, tok |-> batches[1].out[i]]]
  BY <1>1, <1>5, <1>9
<1>12. ASSUME NEW k \in 1..n
       PROVE  /\ item'[k] \in Items /\ item'[k].rid = batches[1].inputs[k].rid
              /\ item'[k].pos = batches[1].inputs[k].at + 1 /\ item'[k].tok = batches[1].out[k]
  <2>1. item'[k] = [rid |-> batches[1].inputs[k].rid, pos |-> batches[1].inputs[k].at + 1,
                    tok |-> batches[1].out[k]]
    BY <1>11
  <2>2. batches[1].out[k] \in 0..MaxNew
    <3>1. PICK q : q = batches[1].out
      OBVIOUS
    <3>2. q \in Seq(0..MaxNew) /\ Len(q) = n
      BY <1>9, <1>10, <3>1
    <3>3. q[k] \in 0..MaxNew
      BY <3>2, SeqFacts
    <3> QED BY <3>1, <3>3
  <2>3. batches[1].inputs[k].at + 1 \in 2..MaxNew
    BY <1>9, ConstantsAssumption
  <2> QED BY <1>9, <2>1, <2>2, <2>3 DEF Items
<1>13. item' \in Seq(Items) /\ Len(item') = n /\ DOMAIN item' = 1..n
  <2>1. item' = [i \in 1..n |-> item'[i]]
    BY <1>11
  <2>2. [i \in 1..n |-> item'[i]] \in Seq(Items)
    BY <1>9, <1>12
  <2>3. Len([i \in 1..n |-> item'[i]]) = n
    BY <1>9
  <2> QED BY <1>11, <2>1, <2>2, <2>3
<1> QED BY <1>1, <1>2, <1>4, <1>5, <1>6, <1>8, <1>9, <1>10, <1>12, <1>13

LEMMA SynchronizeInv == ASSUME IInv, Synchronize PROVE IInv'
<1>0. Types /\ TypeOK
  BY DEF IInv, Types
<1>1. /\ UNCHANGED <<sessions, activeRids, ct, future, host, kv, examine, selected, caller>>
      /\ pc = "take" /\ pc' = "results" /\ item = <<>>
  BY SynchronizeFacts
<1>2. PICK n \in 1..2 : n = Len(batches)
  BY SynchronizeFacts
<1>3. /\ DOMAIN batches = 1..n /\ Len(batches') = n - 1 /\ DOMAIN batches' = 1..(n - 1)
      /\ \A j \in DOMAIN batches' : batches'[j] = batches[j + 1]
  BY <1>2, SynchronizeFacts
<1>4. 1 \in DOMAIN batches /\ (n = 1 => DOMAIN batches' = {})
      /\ (n = 2 => DOMAIN batches' = {1} /\ 2 \in DOMAIN batches /\ batches'[1] = batches[2])
  <2>1. n = 1 => 1..(n - 1) = {}
    OBVIOUS
  <2>2. n = 2 => 1..(n - 1) = {1} /\ 2 \in 1..n
    OBVIOUS
  <2> QED BY <1>3, <2>1, <2>2
<1>5. /\ DOMAIN item' = DOMAIN batches[1].inputs
      /\ \A k \in DOMAIN batches[1].inputs :
              /\ item'[k].rid = batches[1].inputs[k].rid
              /\ item'[k].pos = batches[1].inputs[k].at + 1
              /\ item'[k].tok = batches[1].out[k]
  BY SynchronizeFacts
<1>6. ASSUME NEW r
      PROVE  /\ InItem(r)' <=> InBatch(1, r)
             /\ InBatch(1, r)' <=> InBatch(2, r)
             /\ ~InBatch(2, r)' /\ ~InItem(r)
  <2>1. InItem(r)' <=> InBatch(1, r)
    BY <1>4, <1>5 DEF InItem, InBatch
  <2>2. InBatch(1, r)' <=> InBatch(2, r)
    <3>1. CASE n = 1
      BY <1>3, <1>4, <3>1 DEF InBatch
    <3>2. CASE n = 2
      BY <1>3, <1>4, <3>2 DEF InBatch
    <3> QED BY <3>1, <3>2
  <2>3. ~InBatch(2, r)'
    BY <1>3, <1>4 DEF InBatch
  <2>4. ~InItem(r)
    BY <1>1 DEF InItem
  <2> QED BY <2>1, <2>2, <2>3, <2>4
<1>7. Types'
  <2>1. TypeOK'
    BY <1>0, <1>1 DEF TypeOK, sessions, caller
  <2>2. item' \in Seq(Items) /\ batches' \in Seq(Batches)
    BY SynchronizeFacts
  <2> QED BY <1>0, <1>1, <2>1, <2>2 DEF Types
<1>8. Depth'
  <2>1. Len(batches') <= 1
    BY <1>3
  <2>2. Len(selected') <= MaxBatch
    BY <1>1 DEF IInv, Depth
  <2> QED BY <1>1, <2>1, <2>2 DEF Depth
<1>9. BatchesOK'
  BY <1>1, <1>3, <1>4 DEF IInv, BatchesOK
<1>10. ItemOK'
  <2>1. \A k, m \in DOMAIN batches[1].inputs :
          batches[1].inputs[k].rid = batches[1].inputs[m].rid => k = m
    BY <1>4 DEF IInv, BatchesOK
  <2> QED BY <1>5, <2>1 DEF ItemOK
<1>11. Queues' /\ SessionsOK'
  BY <1>1 DEF IInv, Queues, SessionsOK, sessions, caller
<1>12. Counted'
  <2>1. ASSUME NEW r \in Requests PROVE inflight'[r] = Flights(r)'
    <3>1. inflight[r] = Flights(r)
      BY DEF IInv, Counted
    <3>2. Flights(r)' = Flights(r)
      BY <1>6 DEF Flights, One
    <3> QED BY <1>1, <3>1, <3>2 DEF sessions
  <2> QED BY <2>1 DEF Counted
<1>13. ItemPlaced'
  <2>1. ASSUME NEW k \in DOMAIN batches[1].inputs, NEW y, y = item'[k]
        PROVE  Placed(y.rid, y.pos, InBatch(1, y.rid))'
    <3>1. PICK x : x = batches[1].inputs[k]
      OBVIOUS
    <3>2. Placed(x.rid, x.at + 1, InBatch(2, x.rid))
      BY <1>4, <3>1 DEF IInv, BatchPlaced, Placed
    <3>3. y.rid = x.rid /\ y.pos = x.at + 1
      BY <1>5, <2>1, <3>1
    <3> QED BY <1>1, <1>6, <3>2, <3>3 DEF Placed, sessions
  <2> QED BY <1>5, <2>1 DEF ItemPlaced, Placed
<1>14. BatchPlaced'
  <2>1. CASE n = 1
    BY <1>4, <2>1 DEF BatchPlaced
  <2>2. CASE n = 2
    <3>1. ASSUME NEW k \in DOMAIN batches[2].inputs, NEW x, x = batches[2].inputs[k]
          PROVE  /\ Placed(x.rid, x.at + 1, FALSE)'
                 /\ ids'[x.rid][x.at + 1] = -(batches[2].base + k)
      <4>1. Placed(x.rid, x.at + 1, FALSE) /\ ids[x.rid][x.at + 1] = -(batches[2].base + k)
        BY <1>4, <2>2, <3>1 DEF IInv, BatchPlaced, Placed
      <4> QED BY <1>1, <4>1 DEF Placed, sessions
    <3> QED BY <1>4, <1>6, <2>2, <3>1 DEF BatchPlaced, Placed
  <2> QED BY <2>1, <2>2
<1> QED BY <1>7, <1>8, <1>9, <1>10, <1>11, <1>12, <1>13, <1>14 DEF IInv

\* The device answers each input with one token.
LEMMA SampledFacts ==
  ASSUME NEW inputs \in Seq(Launches), NEW cache
  PROVE  /\ Sampled(inputs, cache) \in Seq(0..MaxNew)
         /\ Len(Sampled(inputs, cache)) = Len(inputs)
         /\ DOMAIN Sampled(inputs, cache) = 1..Len(inputs)
         /\ \A k \in 1..Len(inputs) :
              Sampled(inputs, cache)[k] =
                IF \A p \in 1..inputs[k].at : cache[inputs[k].rid][p] = p
                THEN inputs[k].at + 1 ELSE 0
<1> DEFINE out == Sampled(inputs, cache)
           Is(k) == IF \A p \in 1..inputs[k].at : cache[inputs[k].rid][p] = p
                    THEN inputs[k].at + 1 ELSE 0
<1>1. PICK n \in Nat : n = Len(inputs) /\ DOMAIN inputs = 1..n
  OBVIOUS
<1>2. out = [k \in 1..n |-> Is(k)]
  BY <1>1 DEF Sampled, Garbage
<1>3. ASSUME NEW k \in 1..n PROVE Is(k) \in 0..MaxNew
  <2>1. inputs[k] \in Launches
    BY <1>1
  <2>2. inputs[k].at \in 1..(MaxNew - 1)
    BY <2>1 DEF Launches
  <2> QED BY <2>2, ConstantsAssumption
<1>4. \A k \in 1..n : out[k] = Is(k)
  BY <1>2
<1> HIDE DEF Is, out
<1>5. [k \in 1..n |-> Is(k)] \in Seq(0..MaxNew) /\ Len([k \in 1..n |-> Is(k)]) = n
      /\ DOMAIN [k \in 1..n |-> Is(k)] = 1..n
  BY <1>3
<1> QED BY <1>1, <1>2, <1>4, <1>5 DEF Is, out

\* Execute carries out the first queued batch and gives results of its length.
LEMMA ExecuteFacts ==
  ASSUME IInv, Execute
  PROVE  \E i \in Queued, read \in Seq(Launches), out \in Seq(0..MaxNew) :
           /\ \A j \in Queued : i <= j
           /\ UNCHANGED <<sessions, activeRids, ct, host, loop, caller>>
           /\ read = IF CudaGraph THEN host[Len(batches[i].inputs)] ELSE batches[i].inputs
           /\ Len(read) = Len(batches[i].inputs)
           /\ out = Sampled(read, Stored(read)) /\ kv' = Stored(read)
           /\ Len(out) = Len(read) /\ DOMAIN out = 1..Len(read)
           /\ future' = [s \in 0..(MapSize - 1) |->
                           IF s - batches[i].base \in DOMAIN out
                           THEN out[s - batches[i].base] ELSE future[s]]
           /\ batches' \in Seq(Batches) /\ Len(batches') = Len(batches)
           /\ DOMAIN batches' = DOMAIN batches
           /\ \A j \in DOMAIN batches : /\ batches'[j].inputs = batches[j].inputs
                                        /\ batches'[j].base = batches[j].base
                                        /\ j # i => batches'[j] = batches[j]
           /\ batches'[i].out = out
<1>0. Types /\ BatchesOK
  BY DEF IInv
<1>1. batches \in Seq(Batches) /\ Len(batches) \in Nat /\ DOMAIN batches = 1..Len(batches)
  BY <1>0, TypeFacts
<1>2. Queued \subseteq 1..Len(batches) /\ Queued # {}
  BY <1>1 DEF Queued, Execute
<1>3. \E i \in Queued : \A j \in Queued : i <= j
  BY <1>1, <1>2, Smallest
<1>4. PICK i : i = CHOOSE j \in Queued : \A k \in Queued : j <= k
  OBVIOUS
<1>5. i \in Queued /\ \A j \in Queued : i <= j
  BY <1>3, <1>4
<1>6. /\ i \in DOMAIN batches /\ batches[i].inputs \in Seq(Launches) /\ batches[i] \in Batches
      /\ Len(batches[i].inputs) \in 1..MaxBatch
      /\ CudaGraph => Len(host[Len(batches[i].inputs)]) = Len(batches[i].inputs)
  <2>1. i \in DOMAIN batches /\ batches[i] \in Batches
    BY <1>1, <1>2, <1>5
  <2> QED BY <1>0, <2>1, TypeFacts DEF BatchesOK
<1>7. PICK read : read = IF CudaGraph THEN host[Len(batches[i].inputs)] ELSE batches[i].inputs
  OBVIOUS
<1>8. read \in Seq(Launches) /\ Len(read) = Len(batches[i].inputs)
  <2>1. host \in [1..MaxBatch -> Seq(Launches)]
    BY <1>0 DEF Types
  <2>2. CASE CudaGraph
    <3>1. PICK n \in 1..MaxBatch : n = Len(batches[i].inputs)
      BY <1>6
    <3>2. host[n] \in Seq(Launches)
      BY <2>1
    <3> QED BY <1>6, <1>7, <2>2, <3>1, <3>2
  <2>3. CASE ~CudaGraph
    BY <1>6, <1>7, <2>3
  <2> QED BY <2>2, <2>3
<1>9. PICK out : out = Sampled(read, Stored(read))
  OBVIOUS
<1>10. out \in Seq(0..MaxNew) /\ Len(out) = Len(read) /\ DOMAIN out = 1..Len(read)
  BY <1>8, <1>9, SampledFacts
<1>11. /\ kv' = Stored(read)
       /\ future' = [s \in 0..(MapSize - 1) |->
                           IF s - batches[i].base \in DOMAIN out
                           THEN out[s - batches[i].base] ELSE future[s]]
       /\ batches' = [batches EXCEPT ![i].out = out]
       /\ UNCHANGED <<sessions, activeRids, ct, host, loop, caller>>
  BY <1>4, <1>7, <1>9 DEF Execute
<1>12. PICK e : e = [batches[i] EXCEPT !.out = out]
  OBVIOUS
<1>13. e \in Batches /\ e.out = out /\ e.inputs = batches[i].inputs /\ e.base = batches[i].base
  <2>1. PICK b \in Batches : b = batches[i]
    BY <1>6
  <2>2. e = [b EXCEPT !.out = out]
    BY <1>12, <2>1
  <2>3. e \in Batches /\ e.out = out /\ e.inputs = b.inputs /\ e.base = b.base
    BY <1>10, <2>2 DEF Batches
  <2> QED BY <2>1, <2>3
<1>14. batches' = [batches EXCEPT ![i] = e]
  BY <1>11, <1>12
<1>15. /\ batches' \in Seq(Batches) /\ Len(batches') = Len(batches)
       /\ DOMAIN batches' = DOMAIN batches /\ batches'[i] = e
       /\ \A j \in DOMAIN batches : j # i => batches'[j] = batches[j]
  BY ONLY <1>1, <1>6, <1>13, <1>14
<1>16. \A j \in DOMAIN batches : batches'[j].inputs = batches[j].inputs /\ batches'[j].base = batches[j].base
  BY <1>13, <1>15
<1> QED BY <1>5, <1>7, <1>8, <1>9, <1>10, <1>11, <1>13, <1>15, <1>16

LEMMA ExecuteInv == ASSUME IInv, Execute PROVE IInv'
<1>0. Types /\ TypeOK
  BY DEF IInv, Types
<1>1. PICK i \in Queued, read \in Seq(Launches), out \in Seq(0..MaxNew) :
        /\ UNCHANGED <<sessions, activeRids, ct, host, loop, caller>>
        /\ Len(read) = Len(batches[i].inputs)
        /\ Len(out) = Len(read) /\ DOMAIN out = 1..Len(read)
        /\ future' = [s \in 0..(MapSize - 1) |->
                           IF s - batches[i].base \in DOMAIN out
                           THEN out[s - batches[i].base] ELSE future[s]]
        /\ batches' \in Seq(Batches) /\ Len(batches') = Len(batches)
        /\ DOMAIN batches' = DOMAIN batches
        /\ \A j \in DOMAIN batches : /\ batches'[j].inputs = batches[j].inputs
                                     /\ batches'[j].base = batches[j].base
                                     /\ j # i => batches'[j] = batches[j]
        /\ batches'[i].out = out
  BY ExecuteFacts
<1>2. Types'
  <2>1. TypeOK'
    BY <1>0, <1>1 DEF TypeOK, sessions, loop, caller
  <2>2. future' \in [0..(MapSize - 1) -> 0..MaxNew]
    <3>1. future \in [0..(MapSize - 1) -> 0..MaxNew]
      BY <1>0 DEF Types
    <3>2. \A k \in DOMAIN out : out[k] \in 0..MaxNew
      BY <1>1, SeqFacts
    <3> QED BY <1>1, <3>1, <3>2
  <2> QED BY <1>0, <1>1, <2>1, <2>2 DEF Types, loop
<1>3. Depth' /\ ItemOK' /\ Queues' /\ SessionsOK'
  BY <1>1 DEF IInv, Depth, ItemOK, Queues, SessionsOK, Eligible, Alive, sessions, loop, caller
<1>4. BatchesOK'
  <2>1. ASSUME NEW j \in DOMAIN batches
        PROVE  batches'[j].out = <<>> \/ Len(batches'[j].out) = Len(batches'[j].inputs)
    <3>1. batches[j].out = <<>> \/ Len(batches[j].out) = Len(batches[j].inputs)
      BY DEF IInv, BatchesOK
    <3> QED BY <1>1, <3>1
  <2> QED BY <1>1, <2>1 DEF IInv, BatchesOK
<1>5. \A r : (InItem(r)' <=> InItem(r)) /\ (InBatch(1, r)' <=> InBatch(1, r)) /\ (InBatch(2, r)' <=> InBatch(2, r))
  BY <1>1 DEF InItem, InBatch, loop
<1>6. Counted'
  <2>1. \A r \in Requests : inflight[r] = Flights(r)
    BY DEF IInv, Counted
  <2>2. \A r : Flights(r)' = Flights(r)
    BY <1>5 DEF Flights, One
  <2> QED BY <1>1, <2>1, <2>2 DEF Counted, sessions
<1>7. ItemPlaced'
  BY <1>1, <1>5 DEF IInv, ItemPlaced, Placed, sessions, loop
<1>8. BatchPlaced'
  <2>1. ASSUME NEW j \in DOMAIN batches, NEW k \in DOMAIN batches[j].inputs, NEW x, x = batches[j].inputs[k]
        PROVE  /\ Placed(x.rid, x.at + 1, j = 1 /\ InBatch(2, x.rid))'
               /\ ids'[x.rid][x.at + 1] = -(batches[j].base + k)
    <3>1. /\ Placed(x.rid, x.at + 1, j = 1 /\ InBatch(2, x.rid))
          /\ ids[x.rid][x.at + 1] = -(batches[j].base + k)
      BY <2>1 DEF IInv, BatchPlaced, Placed
    <3> QED BY <1>1, <1>5, <3>1 DEF Placed, sessions
  <2>2. ASSUME NEW j \in DOMAIN batches', NEW k \in DOMAIN batches'[j].inputs, NEW x, x = batches'[j].inputs[k]
        PROVE  /\ Placed(x.rid, x.at + 1, j = 1 /\ InBatch(2, x.rid))'
               /\ ids'[x.rid][x.at + 1] = -(batches'[j].base + k)
    <3>1. j \in DOMAIN batches /\ batches'[j].inputs = batches[j].inputs /\ batches'[j].base = batches[j].base
      BY <1>1
    <3> QED BY <2>1, <2>2, <3>1
  <2> QED BY <2>2 DEF BatchPlaced, Placed
<1> QED BY <1>2, <1>3, <1>4, <1>6, <1>7, <1>8 DEF IInv

\* RemoveAt of the last entry.
LEMMA RemoveLast ==
  ASSUME NEW S, NEW q \in Seq(S), q # <<>>
  PROVE  RemoveAt(q, Len(q)) \in Seq(S) /\ Len(RemoveAt(q, Len(q))) = Len(q) - 1
         /\ \A i \in 1..(Len(q) - 1) : RemoveAt(q, Len(q))[i] = q[i]
<1>1. PICK n \in Nat \ {0} : n = Len(q)
  OBVIOUS
<1>2. PICK x : x = SubSeq(q, 1, n - 1)
  OBVIOUS
<1>3. x \in Seq(S) /\ Len(x) = n - 1 /\ \A i \in 1..(n - 1) : x[i] = q[i]
  BY <1>1, <1>2
<1>4. PICK y : y = SubSeq(q, n + 1, n)
  OBVIOUS
<1>5. y \in Seq(S) /\ Len(y) = 0
  BY <1>1, <1>4
<1>6. PICK z : z = x \o y
  OBVIOUS
<1>7. z \in Seq(S) /\ Len(z) = n - 1 /\ \A i \in 1..(n - 1) : z[i] = x[i]
  BY ONLY <1>1, <1>3, <1>5, <1>6
<1>8. RemoveAt(q, Len(q)) = z
  BY <1>1, <1>2, <1>4, <1>6 DEF RemoveAt
<1> QED BY <1>1, <1>3, <1>7, <1>8

\* What TakeOne finds and does: neither error is due, a request is still in the
\* first batch only if it goes on, and one of three things happens.
LEMMA TakeFacts ==
  ASSUME IInv, TakeOne, NEW r, r = Rid, NEW p, p = Pos, NEW t, t = Head(item).tok
  PROVE  /\ pc = "results" /\ item # <<>> /\ 1 \in DOMAIN item
         /\ item[1].rid = r /\ item[1].pos = p /\ item[1].tok = t
         /\ r \in Requests /\ p \in 2..MaxNew /\ t \in 0..MaxNew
         /\ item' \in Seq(Items) /\ Len(item') = Len(item) - 1 /\ item' = Tail(item)
         /\ DOMAIN item' = 1..(Len(item) - 1)
         /\ \A k \in DOMAIN item' : item'[k] = item[k + 1] /\ k + 1 \in DOMAIN item
         /\ \A q : InItem(q)' <=> InItem(q) /\ q # r
         /\ \A k \in DOMAIN item' : item'[k].rid # r
         /\ Len(batches) <= 1 /\ \A q : ~InBatch(2, q)
         /\ UNCHANGED <<activeRids, device, examine, selected, pc>>
         /\ inflight[r] = 1 + One(InBatch(1, r))
         /\ inflight' = [inflight EXCEPT ![r] = One(InBatch(1, r))]
         /\ r \in known \cap held /\ p \in 2..Len(ids[r]) /\ ids[r][p] < 0
         /\ InBatch(1, r) => Len(ids[r]) = p + 1 /\ r \notin finished
         /\ ~InBatch(1, r) => Len(ids[r]) = p
         /\ \/ /\ r \in canceled /\ ~InBatch(1, r)
               /\ canceled' = canceled \ {r} /\ known' = known \ {r} /\ held' = held \ {r}
               /\ ids' = [ids EXCEPT ![r] = <<>>]
               /\ UNCHANGED <<finished, tokens, ended, dropped>>
            \/ /\ r \in finished \ canceled /\ ~InBatch(1, r)
               /\ ids' = [ids EXCEPT ![r] = RemoveAt(ids[r], p)]
               /\ held' = held \ {r} /\ ended' = [ended EXCEPT ![r] = ended[r] + 1]
               /\ UNCHANGED <<known, finished, canceled, tokens, dropped>>
            \/ /\ r \notin finished
               /\ ids' = [ids EXCEPT ![r] = [ids[r] EXCEPT ![p] = t]]
               /\ tokens' = [tokens EXCEPT ![r] = Append(tokens[r], t)]
               /\ UNCHANGED <<known, canceled, dropped>>
               /\ \/ /\ finished' = finished \cup {r} /\ ~InBatch(1, r)
                     /\ held' = held \ {r} /\ ended' = [ended EXCEPT ![r] = ended[r] + 1]
                  \/ /\ finished' = finished \cup {r} /\ InBatch(1, r)
                     /\ UNCHANGED <<held, ended>>
                  \/ /\ Len(tokens[r]) + 1 # MaxNew
                     /\ UNCHANGED <<finished, held, ended>>
<1>0. Types /\ Depth /\ ItemOK
  BY DEF IInv
<1>1. /\ pc = "results" /\ item # <<>> /\ item' = Tail(item)
      /\ inflight' = [inflight EXCEPT ![r] = Left]
      /\ UNCHANGED <<activeRids, device, examine, selected>>
  BY DEF TakeOne
<1>2. item \in Seq(Items) /\ Len(item) \in Nat /\ DOMAIN item = 1..Len(item)
  BY <1>0, TypeFacts
<1>3. /\ Head(item) = item[1] /\ 1 \in DOMAIN item
      /\ item' \in Seq(Items) /\ Len(item') = Len(item) - 1 /\ DOMAIN item' = 1..(Len(item) - 1)
      /\ \A k \in DOMAIN item' : item'[k] = item[k + 1] /\ k + 1 \in DOMAIN item
  <2>1. Len(item) \in Nat \ {0} /\ Head(item) = item[1]
    BY <1>1, <1>2, TailFacts
  <2>2. /\ item' \in Seq(Items) /\ Len(item') = Len(item) - 1 /\ DOMAIN item' = 1..(Len(item) - 1)
        /\ \A k \in 1..(Len(item) - 1) : item'[k] = item[k + 1]
    BY <1>1, <1>2, TailFacts
  <2> QED BY <1>2, <2>1, <2>2
<1>4. item[1].rid = r /\ item[1].pos = p /\ item[1].tok = t
  BY <1>3 DEF Rid, Pos
<1>5. r \in Requests /\ p \in 2..MaxNew /\ t \in 0..MaxNew
  BY <1>0, <1>3, <1>4, TypeFacts
<1>6. \A k \in DOMAIN item' : item'[k].rid # r
  <2>1. ASSUME NEW k \in DOMAIN item', item'[k].rid = r PROVE FALSE
    <3>1. k + 1 \in DOMAIN item /\ item[k + 1].rid = item[1].rid /\ k + 1 # 1
      BY <1>2, <1>3, <1>4, <2>1
    <3> QED BY <1>0, <1>3, <3>1 DEF ItemOK
  <2> QED BY <2>1
<1>7. \A q : InItem(q)' <=> InItem(q) /\ q # r
  <2>1. ASSUME NEW q, InItem(q)' PROVE InItem(q) /\ q # r
    BY <1>3, <1>6, <2>1 DEF InItem
  <2>2. ASSUME NEW q, InItem(q), q # r PROVE InItem(q)'
    <3>1. PICK k \in DOMAIN item : item[k].rid = q
      BY <2>2 DEF InItem
    <3>2. k # 1
      BY <1>4, <2>2, <3>1
    <3>3. k - 1 \in DOMAIN item' /\ (k - 1) + 1 = k
      BY <1>2, <1>3, <3>1, <3>2
    <3> QED BY <1>3, <3>1, <3>3 DEF InItem
  <2> QED BY <2>1, <2>2
<1>8. Len(batches) <= 1 /\ DOMAIN batches = 1..Len(batches) /\ Len(batches) \in Nat
  BY <1>0, <1>1, TypeFacts DEF Depth
<1>9. \A q : ~InBatch(2, q)
  BY <1>8 DEF InBatch
<1>10. InItem(r)
  BY <1>3, <1>4 DEF InItem
<1>11. inflight[r] = 1 + One(InBatch(1, r))
  BY <1>5, <1>9, <1>10 DEF IInv, Counted, Flights, One
<1>12. Left = One(InBatch(1, r))
  BY <1>11 DEF Left, One
<1>13. NoneLeft <=> ~InBatch(1, r)
  BY <1>12 DEF NoneLeft, One
<1>14. Placed(r, p, InBatch(1, r))
  BY <1>3, <1>4 DEF IInv, ItemPlaced, Placed
<1>15. /\ r \in known \cap held /\ p \in 2..Len(ids[r]) /\ ids[r][p] < 0
       /\ InBatch(1, r) => Len(ids[r]) = p + 1 /\ r \notin finished
       /\ ~InBatch(1, r) => Len(ids[r]) = p
  BY <1>14 DEF Placed
<1>16. InRange /\ Unresolved
  BY <1>5, <1>15 DEF InRange, Unresolved
<1>17. ~Raises
  BY <1>16 DEF Raises
<1>18. TakeCanceled \/ TakeExtra \/ TakeToken
  BY <1>17 DEF TakeOne
<1>19. canceled \subseteq finished
  BY DEF IInv, SessionsOK
<1>20. CASE TakeCanceled
  <2>1. r \in canceled /\ NoneLeft /\ ~InBatch(1, r)
    BY <1>13, <1>15, <1>19, <1>20 DEF TakeCanceled
  <2>2. /\ canceled' = canceled \ {r} /\ known' = known \ {r} /\ held' = held \ {r}
        /\ ids' = [ids EXCEPT ![r] = <<>>]
        /\ UNCHANGED <<finished, tokens, ended, dropped, pc>>
    BY <1>20, <2>1 DEF TakeCanceled, caller
  <2> QED BY <1>1, <1>3, <1>4, <1>5, <1>6, <1>7, <1>8, <1>9, <1>11, <1>12, <1>15, <2>1, <2>2
<1>21. CASE TakeExtra
  <2>1. r \in finished \ canceled /\ NoneLeft /\ ~InBatch(1, r)
    BY <1>13, <1>15, <1>21 DEF TakeExtra
  <2>2. /\ ids' = [ids EXCEPT ![r] = RemoveAt(ids[r], p)]
        /\ held' = held \ {r} /\ ended' = [ended EXCEPT ![r] = ended[r] + 1]
        /\ UNCHANGED <<known, finished, canceled, tokens, dropped, pc>>
    BY <1>16, <1>21, <2>1 DEF TakeExtra
  <2> QED BY <1>1, <1>3, <1>4, <1>5, <1>6, <1>7, <1>8, <1>9, <1>11, <1>12, <1>15, <2>1, <2>2
<1>22. CASE TakeToken
  <2>1. /\ r \notin finished
        /\ ids' = [ids EXCEPT ![r] = [ids[r] EXCEPT ![p] = t]]
        /\ tokens' = [tokens EXCEPT ![r] = Append(tokens[r], t)]
        /\ UNCHANGED <<known, canceled, dropped, pc>>
    BY <1>22 DEF TakeToken
  <2>2. \/ /\ finished' = finished \cup {r} /\ ~InBatch(1, r)
           /\ held' = held \ {r} /\ ended' = [ended EXCEPT ![r] = ended[r] + 1]
        \/ /\ finished' = finished \cup {r} /\ InBatch(1, r)
           /\ UNCHANGED <<held, ended>>
        \/ /\ Len(tokens[r]) + 1 # MaxNew
           /\ UNCHANGED <<finished, held, ended>>
    BY <1>13, <1>22 DEF TakeToken
  <2> QED BY <1>1, <1>3, <1>4, <1>5, <1>6, <1>7, <1>8, <1>9, <1>11, <1>12, <1>15, <2>1, <2>2
<1> QED BY <1>18, <1>20, <1>21, <1>22

\* What a step of TakeOne means for one request's entries.
LEMMA TakeIds ==
  ASSUME IInv, TakeOne
  PROVE  /\ ids' \in [Requests -> Seq(Int)]
         /\ \A q \in Requests : /\ Len(ids'[q]) <= Len(ids[q])
                                /\ q \in known' => ids'[q] # <<>>
                                /\ q # Rid => ids'[q] = ids[q]
         /\ InBatch(1, Rid) => /\ Len(ids'[Rid]) = Pos + 1
                               /\ ids'[Rid][Pos + 1] = ids[Rid][Pos + 1]
<1>1. PICK r, p, t : r = Rid /\ p = Pos /\ t = Head(item).tok
  OBVIOUS
<1>2. /\ r \in Requests /\ p \in 2..MaxNew /\ t \in 0..MaxNew
      /\ p \in 2..Len(ids[r])
      /\ InBatch(1, r) => Len(ids[r]) = p + 1 /\ r \notin finished
      /\ ~InBatch(1, r) => Len(ids[r]) = p
  BY <1>1, TakeFacts
<1>3. ids \in [Requests -> Seq(Int)] /\ ids[r] \in Seq(Int) /\ ids[r] # <<>>
      /\ \A q \in known : ids[q] # <<>>
  <2>1. ids \in [Requests -> Seq(Int)]
    BY DEF IInv, Types, TypeOK
  <2>2. \A q \in known : ids[q] # <<>>
    BY DEF IInv, SessionsOK
  <2>3. r \in known
    BY <1>1, TakeFacts
  <2> QED BY <1>2, <2>1, <2>2, <2>3
<1>4. PICK new : ids' = [ids EXCEPT ![r] = new]
                 /\ \/ new = <<>> /\ ~InBatch(1, r) /\ known' = known \ {r}
                    \/ new = RemoveAt(ids[r], p) /\ ~InBatch(1, r) /\ known' = known
                    \/ new = [ids[r] EXCEPT ![p] = t] /\ known' = known
  <2>1. \/ /\ ids' = [ids EXCEPT ![r] = <<>>]
           /\ ~InBatch(1, r) /\ known' = known \ {r}
        \/ /\ ids' = [ids EXCEPT ![r] = RemoveAt(ids[r], p)]
           /\ ~InBatch(1, r) /\ known' = known
        \/ /\ ids' = [ids EXCEPT ![r] = [ids[r] EXCEPT ![p] = t]]
           /\ known' = known
    BY <1>1, TakeFacts
  <2> QED BY ONLY <2>1
<1>5. PICK old \in Seq(Int) : old = ids[r]
  BY <1>3
<1>6. /\ new \in Seq(Int) /\ Len(new) <= Len(old)
      /\ r \in known' => new # <<>>
      /\ InBatch(1, r) => Len(new) = p + 1 /\ new[p + 1] = old[p + 1]
  <2>1. CASE new = <<>> /\ ~InBatch(1, r) /\ known' = known \ {r}
    <3>1. new \in Seq(Int) /\ Len(new) = 0 /\ Len(old) \in Nat
      BY <2>1
    <3> QED BY <2>1, <3>1
  <2>2. CASE new = RemoveAt(ids[r], p) /\ ~InBatch(1, r) /\ known' = known
    <3>1. p = Len(old) /\ old # <<>> /\ new = RemoveAt(old, Len(old))
      BY <1>2, <1>3, <1>5, <2>2
    <3>2. new \in Seq(Int) /\ Len(new) = Len(old) - 1
      BY <3>1, RemoveLast
    <3>3. Len(new) \in Nat /\ Len(new) # 0 /\ Len(new) <= Len(old)
      <4>1. Len(old) \in Nat /\ Len(old) >= 2
        BY <1>2, <1>5, <3>1
      <4> QED BY <3>2, <4>1
    <3>4. new # <<>>
      BY <3>2, <3>3, SeqFacts
    <3> QED BY <2>2, <3>2, <3>3, <3>4
  <2>3. CASE new = [ids[r] EXCEPT ![p] = t] /\ known' = known
    <3>1. new = [old EXCEPT ![p] = t] /\ t \in Int /\ p \in 1..Len(old) /\ Len(old) \in Nat
      BY <1>2, <1>5, <2>3
    <3>2. new \in Seq(Int) /\ Len(new) = Len(old) /\ \A i \in 1..Len(old) : i # p => new[i] = old[i]
      BY ONLY <1>5, <3>1
    <3>3. new # <<>>
      <4>1. Len(new) # 0
        BY <3>1, <3>2
      <4> QED BY <3>2, <4>1, SeqFacts
    <3>4. InBatch(1, r) => p + 1 \in 1..Len(old) /\ p + 1 # p /\ Len(old) = p + 1
      BY <1>2, <1>5
    <3> QED BY <3>2, <3>3, <3>4
  <2> QED BY <1>4, <2>1, <2>2, <2>3
<1>7. ids' \in [Requests -> Seq(Int)] /\ ids'[r] = new /\ \A q \in Requests : q # r => ids'[q] = ids[q]
  BY <1>2, <1>3, <1>4, <1>6
<1>8. ASSUME NEW q \in Requests
      PROVE  Len(ids'[q]) <= Len(ids[q]) /\ (q \in known' => ids'[q] # <<>>)
  <2>1. CASE q = r
    BY <1>5, <1>6, <1>7, <2>1
  <2>2. CASE q # r
    <3>1. q \in known' => q \in known
      BY <1>4
    <3>2. Len(ids[q]) \in Nat
      BY <1>3
    <3> QED BY <1>3, <1>7, <2>2, <3>1, <3>2
  <2> QED BY <2>1, <2>2
<1> QED BY <1>1, <1>5, <1>6, <1>7, <1>8

\* The results of one request leave the entries of all others alone, and of the
\* same request those of its next launch.
LEMMA TakeInv == ASSUME IInv, TakeOne PROVE IInv'
<1>0. Types /\ TypeOK /\ SessionsOK
  BY DEF IInv, Types
<1>1. PICK r, p, t : r = Rid /\ p = Pos /\ t = Head(item).tok
  OBVIOUS
<1>2. /\ pc = "results" /\ r \in Requests /\ t \in 0..MaxNew
      /\ item' \in Seq(Items)
      /\ \A k \in DOMAIN item' : item'[k] = item[k + 1] /\ k + 1 \in DOMAIN item
      /\ \A q : InItem(q)' <=> InItem(q) /\ q # r
      /\ \A k \in DOMAIN item' : item'[k].rid # r
      /\ Len(batches) <= 1 /\ \A q : ~InBatch(2, q)
      /\ UNCHANGED <<activeRids, device, examine, selected, pc>>
      /\ inflight[r] = 1 + One(InBatch(1, r))
      /\ inflight' = [inflight EXCEPT ![r] = One(InBatch(1, r))]
      /\ r \in known \cap held
  BY <1>1, TakeFacts
<1>3. \A j, q : InBatch(j, q)' <=> InBatch(j, q)
  BY <1>2 DEF InBatch, device
<1>4. /\ ids' \in [Requests -> Seq(Int)]
      /\ \A q \in Requests : /\ Len(ids'[q]) <= Len(ids[q])
                             /\ q \in known' => ids'[q] # <<>>
                             /\ q # r => ids'[q] = ids[q]
      /\ InBatch(1, r) => Len(ids'[r]) = p + 1 /\ ids'[r][p + 1] = ids[r][p + 1]
  BY <1>1, TakeIds
<1>5. /\ known' \subseteq known /\ held' \subseteq held
      /\ \A q : q # r => /\ (q \in known' <=> q \in known) /\ (q \in held' <=> q \in held)
                         /\ (q \in finished' <=> q \in finished)
                         /\ (q \in canceled' <=> q \in canceled)
      /\ InBatch(1, r) => r \in known' \cap held'
      /\ finished' \subseteq finished \cup {r} /\ canceled' \subseteq canceled
      /\ dropped' = dropped
      /\ r \in known' \ finished' => r \in held'
      /\ r \in canceled' => r \in known' \cap finished'
  <2>1. \/ /\ r \in canceled /\ ~InBatch(1, r)
           /\ canceled' = canceled \ {r} /\ known' = known \ {r} /\ held' = held \ {r}
           /\ UNCHANGED <<finished, dropped>>
        \/ /\ r \in finished \ canceled /\ ~InBatch(1, r)
           /\ held' = held \ {r} /\ UNCHANGED <<known, finished, canceled, dropped>>
        \/ /\ r \notin finished /\ UNCHANGED <<known, canceled, dropped>>
           /\ \/ finished' = finished \cup {r} /\ ~InBatch(1, r) /\ held' = held \ {r}
              \/ finished' = finished \cup {r} /\ InBatch(1, r) /\ held' = held
              \/ finished' = finished /\ held' = held
    BY <1>1, TakeFacts
  <2>2. canceled \subseteq finished
    BY <1>0 DEF SessionsOK
  <2> QED BY <1>2, <2>1, <2>2
<1>6. /\ tokens' \in [Requests -> Seq(0..MaxNew)]
      /\ \A q \in Requests : tokens[q] # <<>> => tokens'[q] # <<>>
  <2>1. tokens' = tokens \/ tokens' = [tokens EXCEPT ![r] = Append(tokens[r], t)]
    BY <1>1, TakeFacts
  <2>2. tokens \in [Requests -> Seq(0..MaxNew)]
    BY <1>0 DEF TypeOK
  <2>3. PICK y : y = Append(tokens[r], t)
    OBVIOUS
  <2>4. y \in Seq(0..MaxNew) /\ y # <<>>
    BY <1>2, <2>2, <2>3, AppendFacts
  <2> QED BY <2>1, <2>2, <2>3, <2>4
<1>7. ended' \in [Requests -> Nat]
  <2>1. ended' = ended \/ ended' = [ended EXCEPT ![r] = ended[r] + 1]
    BY <1>1, TakeFacts
  <2>2. ended \in [Requests -> Nat]
    BY <1>0 DEF TypeOK
  <2> QED BY <2>1, <2>2
<1>8. Types'
  <2>1. inflight' \in [Requests -> Nat]
    BY <1>0, <1>2 DEF TypeOK, One
  <2>2. \A q \in Requests : Len(ids'[q]) <= MaxNew
    <3>1. \A q \in Requests : Len(ids[q]) \in 0..MaxNew /\ Len(ids'[q]) \in Nat
      BY <1>0, <1>4, TypeFacts
    <3> QED BY <1>4, <3>1, ConstantsAssumption
  <2>3. TypeOK'
    BY <1>0, <1>2, <1>4, <1>5, <1>6, <1>7, <2>1, <2>2 DEF TypeOK, device
  <2> QED BY <1>0, <1>2, <2>3 DEF Types, device
<1>9. Depth' /\ BatchesOK' /\ Queues'
  <2>1. Depth'
    BY <1>2 DEF IInv, Depth, device
  <2>2. BatchesOK'
    BY <1>2 DEF IInv, BatchesOK, device
  <2>3. \A q \in Range(activeRids) : q \in Requests
    BY <1>0, SeqFacts DEF TypeOK
  <2>4. Queues'
    BY <1>2, <1>6, <2>3 DEF IInv, Queues
  <2> QED BY <2>1, <2>2, <2>4
<1>10. ItemOK'
  <2>1. ASSUME NEW k \in DOMAIN item', NEW m \in DOMAIN item', item'[k].rid = item'[m].rid
        PROVE  k = m
    <3>1. k + 1 = m + 1
      BY <1>2, <2>1 DEF IInv, ItemOK
    <3>2. k \in Int /\ m \in Int
      BY <1>2
    <3> QED BY <3>1, <3>2
  <2> QED BY <2>1 DEF ItemOK
<1>11. SessionsOK'
  <2>1. \A q \in known' : q \in Requests /\ ids'[q] # <<>> /\ tokens'[q] # <<>>
    BY <1>0, <1>4, <1>5, <1>6 DEF SessionsOK, TypeOK
  <2>2. known' \ finished' \subseteq held'
    BY <1>0, <1>5 DEF SessionsOK
  <2>3. canceled' \subseteq known' \cap finished'
    BY <1>0, <1>5 DEF SessionsOK
  <2> QED BY <2>1, <2>2, <2>3 DEF SessionsOK
<1>12. Counted'
  <2>1. ASSUME NEW q \in Requests PROVE inflight'[q] = Flights(q)'
    <3>1. inflight[q] = Flights(q) /\ inflight \in [Requests -> Nat]
      BY <1>0 DEF IInv, Counted, TypeOK
    <3>2. CASE q = r
      <4>1. ~InItem(r)' /\ (InBatch(1, r)' <=> InBatch(1, r)) /\ ~InBatch(2, r)'
        BY <1>2, <1>3
      <4>2. Flights(q)' = One(InBatch(1, r))
        BY <3>2, <4>1 DEF Flights, One
      <4> QED BY <1>2, <3>1, <3>2, <4>2
    <3>3. CASE q # r
      <4>1. Flights(q)' = Flights(q)
        BY <1>2, <1>3, <3>3 DEF Flights, One
      <4> QED BY <1>2, <3>1, <3>3, <4>1
    <3> QED BY <3>2, <3>3
  <2> QED BY <2>1 DEF Counted
<1>13. ItemPlaced'
  <2>1. ASSUME NEW k \in DOMAIN item', NEW x, x = item'[k]
        PROVE  Placed(x.rid, x.pos, InBatch(1, x.rid))'
    <3>1. k + 1 \in DOMAIN item /\ x = item[k + 1] /\ x.rid # r /\ x.rid \in Requests
      BY <1>0, <1>2, <2>1, TypeFacts
    <3>2. Placed(x.rid, x.pos, InBatch(1, x.rid))
      BY <3>1 DEF IInv, ItemPlaced, Placed
    <3> QED BY <1>3, <1>4, <1>5, <3>1, <3>2 DEF Placed
  <2> QED BY <2>1 DEF ItemPlaced, Placed
<1>14. BatchPlaced'
  <2>1. ASSUME NEW j \in DOMAIN batches, NEW k \in DOMAIN batches[j].inputs, NEW x, x = batches[j].inputs[k]
        PROVE  /\ Placed(x.rid, x.at + 1, FALSE)'
               /\ ids'[x.rid][x.at + 1] = -(batches[j].base + k)
    <3>1. /\ Placed(x.rid, x.at + 1, FALSE) /\ x.rid \in Requests
          /\ ids[x.rid][x.at + 1] = -(batches[j].base + k)
      BY <1>0, <1>2, <2>1, TypeFacts DEF IInv, BatchPlaced, Placed
    <3>2. CASE x.rid # r
      BY <1>4, <1>5, <3>1, <3>2 DEF Placed
    <3>3. CASE x.rid = r
      <4>1. j = 1
        BY <1>0, <1>2, TypeFacts
      <4>2. InBatch(1, r)
        BY <2>1, <3>3, <4>1 DEF InBatch
      <4>3. Len(ids[r]) = p + 1 /\ Len(ids[r]) = x.at + 1
        BY <1>1, <3>1, <3>3, <4>2, TakeFacts DEF Placed
      <4>4. Len(ids'[r]) = x.at + 1 /\ ids'[r][x.at + 1] = ids[r][x.at + 1]
        BY <1>4, <4>2, <4>3
      <4> QED BY <1>5, <3>1, <3>3, <4>2, <4>4 DEF Placed
    <3> QED BY <3>2, <3>3
  <2> QED BY <1>2, <1>3, <2>1 DEF BatchPlaced, Placed, device
<1> QED BY <1>8, <1>9, <1>10, <1>11, <1>12, <1>13, <1>14 DEF IInv

LEMMA StutterInv == ASSUME IInv, UNCHANGED vars PROVE IInv'
<1>1. /\ UNCHANGED <<known, finished, held, ids, inflight, canceled, activeRids>>
      /\ UNCHANGED <<batches, ct, future, host, kv, pc, examine, selected, item>>
      /\ UNCHANGED <<tokens, ended, dropped>>
  BY DEF vars, sessions, device, loop, caller
<1>2. ItemOK' /\ Counted' /\ ItemPlaced' /\ BatchPlaced'
  BY <1>1, PipelineKept, FlightsSome
<1>3. Types' /\ Depth' /\ BatchesOK' /\ SessionsOK' /\ Queues'
  BY <1>1 DEF IInv, Types, TypeOK, Depth, BatchesOK, SessionsOK, Queues, Eligible, Alive
<1> QED BY <1>2, <1>3 DEF IInv

\* Every step keeps the invariant.
LEMMA NextInv == ASSUME IInv, [Next]_vars PROVE IInv'
BY AddRequestInv, DiscardInv, StepCallInv, SelectInv, LaunchInv, SynchronizeInv, EndStepInv,
   TakeInv, ExecuteInv, StutterInv DEF Next, Step

\* Every reachable state satisfies the invariant.
LEMMA Invariant == Spec => []IInv
BY InitInv, NextInv, PTL DEF Spec

\* Sessions, batches, ring and caller keep their types; generated_ids,
\* placeholders included, never grow beyond max_new_tokens.
THEOREM TypeCorrect == Spec => []TypeOK
<1>1. IInv => TypeOK
  BY DEF IInv, Types
<1> QED BY <1>1, Invariant, PTL

\* _overlap_inflight counts exactly the steps in flight, and whoever has one
\* still holds its blocks: the device never works on blocks that were given back,
\* however calls to add_requests and discard_request fall between the steps.
THEOREM HeldWhileInFlight == Spec => []BlocksHeld
BY InvBlocksHeld, Invariant, PTL

\* Every placeholder finds its own unresolved entry of generated_ids when its
\* token arrives: neither RuntimeError of _step_overlap is ever raised.
THEOREM PlaceholdersFound == Spec => []NeverRaises
<1>1. IInv => NeverRaises
  BY DEF IInv, Types, NeverRaises
<1> QED BY <1>1, Invariant, PTL

-----------------------------------------------------------------------------
(***************************************************************************)
(* OverlapScheduler implements DecodeContract when inputs do not go        *)
(* through the host buffers of a CUDA graph: what the device computes from *)
(* placeholders is what it would compute from tokens, and the caller       *)
(* cannot tell overlapped steps from steps one after the other.            *)
(***************************************************************************)

\* A token that is still on its way: some launch in flight will fill position p.
Awaited(r, p) ==
  \/ \E k \in DOMAIN item : item[k].rid = r /\ item[k].pos = p
  \/ \E j \in DOMAIN batches : \E k \in DOMAIN batches[j].inputs :
       batches[j].inputs[k].rid = r /\ batches[j].inputs[k].at + 1 = p
\* K/V that is still to be stored: a queued launch has position p as its input.
Entered(r, p) ==
  \E j \in Queued : \E k \in DOMAIN batches[j].inputs :
    batches[j].inputs[k].rid = r /\ batches[j].inputs[k].at = p

(***************************************************************************)
(* What the device computes, provided it reads its inputs when they are    *)
(* launched (CudaGraph is FALSE). Entries of generated_ids and K/V are     *)
(* right or on their way; results that have arrived are right; the results *)
(* of the last batch carried out are still in the ring (FutureRight); and  *)
(* an input of the second batch is known or names a slot that the first    *)
(* one, which the device carries out before, will fill (SecondResolves).   *)
(* That is why no ring slot is read after it was used again: a placeholder *)
(* is read by the very next batch.                                         *)
(***************************************************************************)
IdsRight == \A r \in known : \A p \in 1..Len(ids[r]) : ids[r][p] = p \/ Awaited(r, p)
KVRight == \A r \in known : \A p \in 1..(Len(ids[r]) - 1) : kv[r][p] = p \/ Entered(r, p)
OutRight ==
  /\ \A j \in DOMAIN batches : \A k \in DOMAIN batches[j].out :
       batches[j].out[k] = batches[j].inputs[k].at + 1
  /\ \A k \in DOMAIN item : item[k].tok = item[k].pos
InOrder == 2 \in DOMAIN batches /\ batches[1].out = <<>> => batches[2].out = <<>>
FutureRight ==
  batches # <<>> => \A k \in DOMAIN Last(batches).out :
                      future[Last(batches).base + k] = Last(batches).out[k]
SecondResolves ==
  2 \in DOMAIN batches /\ batches[1].out = <<>> =>
    \A k \in DOMAIN batches[2].inputs :
      LET x == batches[2].inputs[k]
      IN  \/ x.id = x.at
          \/ \E m \in DOMAIN batches[1].inputs :
               /\ batches[1].inputs[m].rid = x.rid /\ batches[1].inputs[m].at + 1 = x.at
               /\ x.id = -(batches[1].base + m)
Right == /\ IdsRight /\ KVRight /\ OutRight /\ InOrder /\ FutureRight
         /\ InputsResolve /\ SecondResolves

\* What the caller was told of a request: the tokens returned and those in flight
\* are the entries of generated_ids, and the end was reported only of who is
\* finished and nowhere in flight.
PromisedTo(r) ==
  /\ Len(tokens[r]) <= MaxNew /\ ended[r] \in 0..1
  /\ r \in known \ finished => /\ r \notin dropped /\ ended[r] = 0
                               /\ Len(tokens[r]) + inflight[r] = Len(ids[r])
  /\ r \in finished \ dropped /\ inflight[r] > 0 => ended[r] = 0
  /\ tokens[r] = <<>> => r \notin finished \cup dropped /\ ended[r] = 0
  /\ r \in known \cap dropped => r \in canceled
Promised == \A r \in Requests : PromisedTo(r)
\* Together with IInv an inductive invariant.
RightInv == Promised /\ (CudaGraph \/ Right)

-----------------------------------------------------------------------------
\* The promises to a request that a step does not touch.
LEMMA PromiseKept ==
  ASSUME NEW r, PromisedTo(r), inflight'[r] = inflight[r], tokens'[r] = tokens[r],
         ended'[r] = ended[r], Len(ids'[r]) = Len(ids[r]),
         r \in known' <=> r \in known, r \in finished' <=> r \in finished,
         r \in dropped' <=> r \in dropped, r \in canceled' <=> r \in canceled
  PROVE  PromisedTo(r)'
BY DEF PromisedTo

LEMMA InitPromised == Init => Promised
<1> SUFFICES ASSUME Init PROVE Promised
  OBVIOUS
<1>1. ASSUME NEW r \in Requests PROVE PromisedTo(r)
  <2>1. Len(<<>>) = 0
    OBVIOUS
  <2> QED BY <2>1, ConstantsAssumption DEF Init, PromisedTo
<1> QED BY <1>1 DEF Promised

\* The promises are kept by every step, with graphs too.
LEMMA NextPromised == ASSUME IInv, Promised, [Next]_vars PROVE Promised'
<1>0. TypeOK /\ SessionsOK
  BY DEF IInv, Types
<1>1. /\ ids \in [Requests -> Seq(Int)] /\ tokens \in [Requests -> Seq(0..MaxNew)]
      /\ inflight \in [Requests -> Nat] /\ ended \in [Requests -> Nat]
      /\ \A r \in Requests : Len(ids[r]) \in Nat /\ Len(ids[r]) <= MaxNew /\ Len(tokens[r]) \in Nat
  BY <1>0 DEF TypeOK
<1>2. ASSUME NEW q \in Requests, PromisedTo(q) PROVE PromisedTo(q)'
  <2>1. CASE UNCHANGED <<sessions, caller>>
    BY <1>2, <2>1, PromiseKept DEF sessions, caller
  <2>2. CASE \E r \in Requests : AddRequest(r)
    <3>1. PICK r \in Requests : AddRequest(r)
      BY <2>2
    <3>2. /\ tokens[r] = <<>> /\ tokens' = [tokens EXCEPT ![r] = <<1>>]
          /\ ids' = [ids EXCEPT ![r] = <<1>>] /\ known' = known \cup {r}
          /\ UNCHANGED <<inflight, canceled, dropped>>
          /\ \/ finished' = finished \cup {r} /\ ended' = [ended EXCEPT ![r] = 1]
             \/ UNCHANGED <<finished, ended>>
      BY <3>1 DEF AddRequest
    <3>3. CASE q # r
      BY <1>1, <1>2, <3>2, <3>3, PromiseKept
    <3>4. CASE q = r
      <4>1. q \notin finished \cup dropped /\ ended[q] = 0
        BY <1>2, <3>2, <3>4 DEF PromisedTo
      <4>2. q \notin known /\ inflight[q] = 0
        <5>1. q \notin known
          BY <1>0, <3>2, <3>4 DEF SessionsOK
        <5> QED BY <1>1, <5>1, FlightsSome
      <4>3. tokens'[q] = <<1>> /\ ids'[q] = <<1>> /\ Len(<<1>>) = 1 /\ <<1>> # <<>>
        BY <1>1, <3>2, <3>4
      <4>4. ended'[q] \in 0..1 /\ (q \in finished' \/ ended'[q] = 0)
        BY <1>1, <3>2, <3>4, <4>1
      <4> QED BY <1>1, <3>2, <3>4, <4>1, <4>2, <4>3, <4>4, ConstantsAssumption DEF PromisedTo
    <3> QED BY <3>3, <3>4
  <2>3. CASE \E r \in Requests : Discard(r)
    <3>1. PICK r \in Requests : Discard(r)
      BY <2>3
    <3>2. /\ r \in known /\ dropped' = dropped \cup {r} /\ UNCHANGED <<inflight, tokens, ended>>
          /\ \/ /\ finished' = finished \cup {r} /\ canceled' = canceled \cup {r}
                /\ UNCHANGED <<known, ids>>
             \/ /\ known' = known \ {r} /\ ids' = [ids EXCEPT ![r] = <<>>]
                /\ UNCHANGED <<finished, canceled>>
      BY <3>1 DEF Discard
    <3>3. CASE q # r
      BY <1>1, <1>2, <3>2, <3>3, PromiseKept
    <3>4. CASE q = r
      <4>1. tokens[q] # <<>>
        BY <1>0, <3>2, <3>4 DEF SessionsOK
      <4> QED BY <1>2, <3>2, <3>4, <4>1 DEF PromisedTo
    <3> QED BY <3>3, <3>4
  <2>4. CASE Launch
    <3>1. /\ UNCHANGED <<known, finished, canceled, caller>>
          /\ q \notin Range(selected) => ids'[q] = ids[q] /\ inflight'[q] = inflight[q]
      BY <2>4, LaunchFacts DEF Launch
    <3>2. CASE q \notin Range(selected)
      BY <1>2, <3>1, <3>2, PromiseKept DEF caller
    <3>3. CASE q \in Range(selected)
      <4>1. selected \in Seq(Requests)
        BY <1>0 DEF TypeOK
      <4>2. PICK k \in 1..Len(selected) : selected[k] = q
        BY <3>3, <4>1, SeqFacts
      <4>3. /\ ids'[q] = Append(ids[q], -(ct + k)) /\ inflight'[q] = inflight[q] + 1
            /\ q \in known \ finished
        BY <2>4, <4>2, LaunchFacts
      <4>4. -(ct + k) \in Int
        BY <1>0, <2>4, LaunchFacts, LimitFacts DEF TypeOK
      <4>5. Len(ids'[q]) = Len(ids[q]) + 1
        BY <1>1, <4>3, <4>4, AppendFacts
      <4> QED BY <1>1, <1>2, <3>1, <4>3, <4>5 DEF PromisedTo, caller
    <3> QED BY <3>2, <3>3
  <2>5. CASE TakeOne
    <3>1. PICK r, p, t : r = Rid /\ p = Pos /\ t = Head(item).tok
      OBVIOUS
    <3>2. /\ r \in Requests /\ p \in 2..MaxNew /\ t \in 0..MaxNew
          /\ inflight[r] = 1 + One(InBatch(1, r))
          /\ inflight' = [inflight EXCEPT ![r] = One(InBatch(1, r))]
          /\ r \in known /\ dropped' = dropped
          /\ \/ /\ r \in canceled /\ ~InBatch(1, r)
                /\ canceled' = canceled \ {r} /\ known' = known \ {r}
                /\ ids' = [ids EXCEPT ![r] = <<>>]
                /\ UNCHANGED <<finished, tokens, ended>>
             \/ /\ r \in finished \ canceled /\ ~InBatch(1, r)
                /\ ids' = [ids EXCEPT ![r] = RemoveAt(ids[r], p)]
                /\ ended' = [ended EXCEPT ![r] = ended[r] + 1]
                /\ UNCHANGED <<known, finished, canceled, tokens>>
             \/ /\ r \notin finished
                /\ ids' = [ids EXCEPT ![r] = [ids[r] EXCEPT ![p] = t]]
                /\ tokens' = [tokens EXCEPT ![r] = Append(tokens[r], t)]
                /\ UNCHANGED <<known, canceled>>
                /\ \/ /\ finished' = finished \cup {r} /\ ~InBatch(1, r)
                      /\ ended' = [ended EXCEPT ![r] = ended[r] + 1]
                   \/ finished' = finished \cup {r} /\ InBatch(1, r) /\ ended' = ended
                   \/ UNCHANGED <<finished, ended>>
      BY <2>5, <3>1, TakeFacts
    <3>3. CASE q # r
      <4>1. /\ inflight'[q] = inflight[q] /\ tokens'[q] = tokens[q] /\ ended'[q] = ended[q]
            /\ ids'[q] = ids[q]
        BY <1>1, <3>2, <3>3
      <4>2. /\ q \in known' <=> q \in known
            /\ q \in finished' <=> q \in finished
            /\ q \in canceled' <=> q \in canceled
            /\ dropped' = dropped
        BY <3>2, <3>3
      <4> QED BY <1>2, <4>1, <4>2, PromiseKept
    <3>4. CASE q = r
      <4>1. tokens[q] # <<>> /\ inflight[q] > 0 /\ inflight'[q] = One(InBatch(1, r))
            /\ inflight[q] = inflight'[q] + 1
        BY <1>0, <1>1, <3>2, <3>4 DEF SessionsOK, One
      <4>2. CASE /\ r \in canceled /\ ~InBatch(1, r)
                 /\ canceled' = canceled \ {r} /\ known' = known \ {r}
                 /\ UNCHANGED <<finished, tokens, ended>>
        BY <1>2, <3>2, <3>4, <4>1, <4>2 DEF PromisedTo, One
      <4>3. CASE /\ r \in finished \ canceled /\ ~InBatch(1, r)
                 /\ ended' = [ended EXCEPT ![r] = ended[r] + 1]
                 /\ UNCHANGED <<known, finished, canceled, tokens>>
        <5>1. ended[q] = 0 /\ q \notin dropped
          BY <1>2, <3>2, <3>4, <4>1, <4>3 DEF PromisedTo
        <5>2. ended'[q] = 1 /\ inflight'[q] = 0
          BY <1>1, <3>4, <4>1, <4>3, <5>1 DEF One
        <5> QED BY <1>2, <3>2, <3>4, <4>1, <4>3, <5>1, <5>2 DEF PromisedTo
      <4>4. CASE /\ r \notin finished
                 /\ ids' = [ids EXCEPT ![r] = [ids[r] EXCEPT ![p] = t]]
                 /\ tokens' = [tokens EXCEPT ![r] = Append(tokens[r], t)]
                 /\ UNCHANGED <<known, canceled>>
                 /\ \/ /\ finished' = finished \cup {r} /\ ~InBatch(1, r)
                       /\ ended' = [ended EXCEPT ![r] = ended[r] + 1]
                    \/ finished' = finished \cup {r} /\ InBatch(1, r) /\ ended' = ended
                    \/ UNCHANGED <<finished, ended>>
        <5>1. /\ q \in known \ finished /\ q \notin dropped /\ ended[q] = 0
              /\ Len(tokens[q]) + inflight[q] = Len(ids[q])
          BY <1>2, <3>2, <3>4, <4>4 DEF PromisedTo
        <5>2. Len(tokens'[q]) = Len(tokens[q]) + 1 /\ tokens'[q] # <<>>
          <6>1. tokens'[q] = Append(tokens[q], t)
            BY <1>1, <3>4, <4>4
          <6>2. PICK old \in Seq(0..MaxNew) : old = tokens[q]
            BY <1>1
          <6>3. t \in 0..MaxNew
            BY <3>2
          <6>4. Len(Append(old, t)) = Len(old) + 1 /\ Append(old, t) # <<>>
            BY ONLY <6>2, <6>3, AppendFacts
          <6> QED BY <6>1, <6>2, <6>4
        <5>3. Len(ids'[q]) = Len(ids[q])
          <6>1. ids'[q] = [ids[q] EXCEPT ![p] = t]
            BY <1>1, <3>4, <4>4
          <6> QED BY <1>1, <6>1
        <5>4. /\ Len(tokens'[q]) + inflight'[q] = Len(ids'[q]) /\ Len(tokens'[q]) <= MaxNew
          BY <1>1, <4>1, <5>1, <5>2, <5>3, ConstantsAssumption DEF One
        <5>5. /\ ended'[q] \in 0..1 /\ (q \notin finished' => ended'[q] = 0)
              /\ (inflight'[q] > 0 => ended'[q] = 0)
          BY <1>1, <3>4, <4>1, <4>4, <5>1 DEF One
        <5> QED BY <3>2, <3>4, <4>4, <5>1, <5>2, <5>4, <5>5 DEF PromisedTo
      <4> QED BY <3>2, <4>2, <4>3, <4>4
    <3> QED BY <3>3, <3>4
  <2>6. Next \/ UNCHANGED vars
    OBVIOUS
  <2>7. CASE StepCall \/ AllOver \/ SelectOne \/ SelectNone \/ Synchronize \/ NothingDue \/ Taken
             \/ Execute \/ UNCHANGED vars
    <3>1. UNCHANGED <<sessions, caller>>
      BY <2>7 DEF StepCall, AllOver, SelectOne, SelectNone, Synchronize, NothingDue, Taken, Execute,
                  vars
    <3> QED BY <2>1, <3>1
  <2> QED BY <2>2, <2>3, <2>4, <2>5, <2>6, <2>7 DEF Next, Step
<1> QED BY <1>2 DEF Promised

-----------------------------------------------------------------------------
\* The newest batch.
LEMMA LastIs == ASSUME Types, batches # <<>> PROVE Last(batches) = batches[Len(batches)]
BY DEF Last

\* Nothing is wrong at first.
LEMMA InitRight == Init => Right
<1> SUFFICES ASSUME Init PROVE Right
  OBVIOUS
<1>1. batches = <<>> /\ DOMAIN batches = {} /\ item = <<>> /\ DOMAIN item = {} /\ known = {}
  BY DEF Init
<1>2. Queued = {}
  BY <1>1 DEF Queued
<1> QED BY <1>1, <1>2 DEF Right, IdsRight, KVRight, OutRight, InOrder, FutureRight, InputsResolve,
                          SecondResolves

\* Steps that leave the pipeline and the device alone.
LEMMA RightKept ==
  ASSUME Right, UNCHANGED <<batches, item, future, kv>>,
         \A r \in known' : (r \in known /\ ids'[r] = ids[r]) \/ ids'[r] = << 1 >>
  PROVE  Right'
<1>1. /\ Queued' = Queued
      /\ \A r, p : (Awaited(r, p)' <=> Awaited(r, p)) /\ (Entered(r, p)' <=> Entered(r, p))
  <2>1. Queued' = Queued
    BY DEF Queued
  <2> QED BY <2>1 DEF Awaited, Entered
<1>2. Len(<<1>>) = 1 /\ (<<1>>)[1] = 1 /\ 1..1 = {1} /\ 1..(1 - 1) = {}
  OBVIOUS
<1>3. IdsRight'
  BY <1>1, <1>2 DEF Right, IdsRight
<1>4. KVRight'
  BY <1>1, <1>2 DEF Right, KVRight
<1>5. OutRight' /\ InOrder' /\ FutureRight' /\ SecondResolves'
  BY DEF Right, OutRight, InOrder, FutureRight, SecondResolves
<1>6. InputsResolve'
  BY <1>1 DEF Right, InputsResolve, Value
<1> QED BY <1>3, <1>4, <1>5, <1>6 DEF Right

\* Results that arrived are what the session waits for.
LEMMA SynchronizeRight == ASSUME IInv, Right, Synchronize PROVE Right'
<1>0. Types
  BY DEF IInv
<1>1. /\ UNCHANGED <<sessions, ct, future, host, kv, selected>> /\ item = <<>> /\ DOMAIN item = {}
      /\ batches # <<>> /\ batches[1].out # <<>>
  <2>1. batches # <<>> /\ batches[1].out # <<>>
    BY SynchronizeFacts DEF Synchronize
  <2> QED BY <2>1, SynchronizeFacts
<1>2. PICK n \in 1..2 : n = Len(batches)
  BY SynchronizeFacts
<1>3. /\ DOMAIN batches = 1..n /\ Len(batches') = n - 1 /\ DOMAIN batches' = 1..(n - 1)
      /\ \A j \in DOMAIN batches' : batches'[j] = batches[j + 1]
  BY <1>2, SynchronizeFacts
<1>4. /\ n = 1 => DOMAIN batches = {1} /\ DOMAIN batches' = {} /\ batches' = <<>>
      /\ n = 2 => DOMAIN batches = {1, 2} /\ DOMAIN batches' = {1} /\ batches'[1] = batches[2]
  <2>1. 1..1 = {1} /\ 1..2 = {1, 2} /\ 1..(1 - 1) = {} /\ 1..(2 - 1) = {1}
    OBVIOUS
  <2>2. n = 1 => batches' = <<>>
    <3>1. batches' \in Seq(Batches)
      BY SynchronizeFacts
    <3> QED BY <1>3, <3>1, SeqFacts
  <2> QED BY <1>3, <2>1, <2>2
<1>5. /\ DOMAIN item' = DOMAIN batches[1].inputs
      /\ DOMAIN batches[1].out = DOMAIN batches[1].inputs
      /\ \A k \in DOMAIN batches[1].inputs :
              /\ item'[k].rid = batches[1].inputs[k].rid
              /\ item'[k].pos = batches[1].inputs[k].at + 1
              /\ item'[k].tok = batches[1].out[k]
  <2>1. DOMAIN batches[1].out = 1..Len(batches[1].out)
    BY <1>0, <1>2, <1>3, TypeFacts, SeqFacts
  <2> QED BY <2>1, SynchronizeFacts
<1>6. \A r, p : Awaited(r, p)' <=> Awaited(r, p)
  <2>1. CASE n = 1
    BY <1>1, <1>4, <1>5, <2>1 DEF Awaited
  <2>2. CASE n = 2
    BY <1>1, <1>4, <1>5, <2>2 DEF Awaited
  <2> QED BY <2>1, <2>2
<1>7. /\ n = 1 => Queued = {} /\ Queued' = {}
      /\ n = 2 => /\ batches[2].out = <<>> => Queued = {2} /\ Queued' = {1}
                  /\ batches[2].out # <<>> => Queued = {} /\ Queued' = {}
  BY <1>1, <1>4 DEF Queued
<1>8. \A r, p : Entered(r, p)' <=> Entered(r, p)
  <2>1. CASE n = 1
    BY <1>7, <2>1 DEF Entered
  <2>2. CASE n = 2
    BY <1>4, <1>7, <2>2 DEF Entered
  <2> QED BY <2>1, <2>2
<1>9. IdsRight' /\ KVRight'
  BY <1>1, <1>6, <1>8 DEF Right, IdsRight, KVRight, sessions
<1>10. OutRight'
  <2>1. \A k \in DOMAIN item' : item'[k].tok = item'[k].pos
    BY <1>3, <1>4, <1>5 DEF Right, OutRight
  <2>2. \A j \in DOMAIN batches' : \A k \in DOMAIN batches'[j].out :
          batches'[j].out[k] = batches'[j].inputs[k].at + 1
    BY <1>4 DEF Right, OutRight
  <2> QED BY <2>1, <2>2 DEF OutRight
<1>11. InOrder' /\ SecondResolves'
  BY <1>4 DEF InOrder, SecondResolves
<1>12. FutureRight'
  <2>1. CASE n = 1
    BY <1>4, <2>1 DEF FutureRight
  <2>2. CASE n = 2
    <3>1. Last(batches) = batches[2]
      BY <1>0, <1>1, <1>2, <2>2, LastIs
    <3>2. Last(batches') = batches'[1]
      BY <1>3, <2>2 DEF Last
    <3> QED BY <1>1, <1>4, <2>2, <3>1, <3>2 DEF Right, FutureRight
  <2> QED BY <2>1, <2>2
<1>13. InputsResolve'
  <2>1. CASE n = 1
    BY <1>7, <2>1 DEF InputsResolve
  <2>2. CASE n = 2 /\ batches[2].out = <<>>
    <3>1. \A x \in Range(batches[2].inputs) : Value(x) = x.at
      BY <1>7, <2>2 DEF Right, InputsResolve
    <3> QED BY <1>1, <1>4, <1>7, <2>2, <3>1 DEF InputsResolve, Value
  <2>3. CASE n = 2 /\ batches[2].out # <<>>
    BY <1>7, <2>3 DEF InputsResolve
  <2> QED BY <2>1, <2>2, <2>3
<1> QED BY <1>9, <1>10, <1>11, <1>12, <1>13 DEF Right

\* A token fills its own entry; the entry removed after the end was the last.
LEMMA TakeRight == ASSUME IInv, Right, TakeOne PROVE Right'
<1>0. Types
  BY DEF IInv
<1>1. PICK r, p, t : r = Rid /\ p = Pos /\ t = Head(item).tok
  OBVIOUS
<1>2. /\ 1 \in DOMAIN item /\ item[1].rid = r /\ item[1].pos = p /\ item[1].tok = t
      /\ r \in Requests /\ p \in 2..MaxNew
      /\ DOMAIN item' = 1..(Len(item) - 1)
      /\ \A k \in DOMAIN item' : item'[k] = item[k + 1] /\ k + 1 \in DOMAIN item
      /\ Len(batches) <= 1
      /\ UNCHANGED <<activeRids, device, examine, selected, pc>>
      /\ p \in 2..Len(ids[r])
      /\ ~InBatch(1, r) => Len(ids[r]) = p
      /\ DOMAIN item = 1..Len(item) /\ Len(item) \in Nat
  <2>1. DOMAIN item = 1..Len(item) /\ Len(item) \in Nat
    BY <1>0, TypeFacts
  <2>2. /\ 1 \in DOMAIN item /\ item[1].rid = r /\ item[1].pos = p /\ item[1].tok = t
        /\ r \in Requests /\ p \in 2..MaxNew
        /\ DOMAIN item' = 1..(Len(item) - 1)
        /\ \A k \in DOMAIN item' : item'[k] = item[k + 1] /\ k + 1 \in DOMAIN item
    BY <1>1, TakeFacts
  <2>3. /\ Len(batches) <= 1
        /\ UNCHANGED <<activeRids, device, examine, selected, pc>>
        /\ p \in 2..Len(ids[r])
        /\ ~InBatch(1, r) => Len(ids[r]) = p
    BY <1>1, TakeFacts
  <2> QED BY ONLY <2>1, <2>2, <2>3
<1>3. /\ t = p
      /\ ids' \in [Requests -> Seq(Int)] /\ known' \subseteq known /\ known \subseteq Requests
      /\ \A q \in Requests : q # r => ids'[q] = ids[q]
  <2>1. t = p
    BY <1>2 DEF Right, OutRight
  <2>2. known' \subseteq known
    BY <1>1, TakeFacts
  <2>3. known \subseteq Requests
    BY <1>0 DEF Types, TypeOK
  <2> QED BY <1>1, <2>1, <2>2, <2>3, TakeIds
<1>4. ids \in [Requests -> Seq(Int)] /\ Len(ids[r]) \in Nat
  BY <1>0, <1>2 DEF Types, TypeOK
<1>5. Queued' = Queued /\ \A q, i : Entered(q, i)' <=> Entered(q, i)
  <2>1. Queued' = Queued
    BY <1>2 DEF Queued, device
  <2> QED BY <1>2, <2>1 DEF Entered, device
<1>6. ASSUME NEW q, NEW i, Awaited(q, i), q # r \/ i # p PROVE Awaited(q, i)'
  <2>1. CASE \E j \in DOMAIN batches : \E k \in DOMAIN batches[j].inputs :
               batches[j].inputs[k].rid = q /\ batches[j].inputs[k].at + 1 = i
    BY <1>2, <2>1 DEF Awaited, device
  <2>2. CASE \E k \in DOMAIN item : item[k].rid = q /\ item[k].pos = i
    <3>1. PICK k \in DOMAIN item : item[k].rid = q /\ item[k].pos = i
      BY <2>2
    <3>2. k # 1
      BY <1>2, <1>6, <3>1
    <3>3. k - 1 \in DOMAIN item' /\ (k - 1) + 1 = k
      BY <1>2, <3>1, <3>2
    <3> QED BY <1>2, <3>1, <3>3 DEF Awaited
  <2> QED BY <1>6, <2>1, <2>2 DEF Awaited
<1>7. r \in known' =>
        /\ Len(ids'[r]) <= Len(ids[r])
        /\ \A i \in 1..Len(ids'[r]) : (ids'[r][i] = ids[r][i] /\ i # p) \/ ids'[r][i] = i
  <2>0. PICK old \in Seq(Int) : old = ids[r]
    BY <1>2, <1>4
  <2>1. CASE known' = known \ {r}
    BY <2>1
  <2>2. CASE ids' = [ids EXCEPT ![r] = RemoveAt(ids[r], p)] /\ ~InBatch(1, r)
    <3>1. p = Len(old) /\ old # <<>> /\ ids'[r] = RemoveAt(old, Len(old))
      BY <1>2, <1>4, <2>0, <2>2
    <3>2. /\ Len(ids'[r]) = Len(old) - 1 /\ \A i \in 1..(Len(old) - 1) : ids'[r][i] = old[i]
      BY <3>1, RemoveLast
    <3>3. \A i \in 1..(Len(old) - 1) : i # p
      BY <2>0, <3>1
    <3> QED BY <1>4, <2>0, <3>2, <3>3
  <2>3. CASE ids' = [ids EXCEPT ![r] = [ids[r] EXCEPT ![p] = t]]
    <3>1. ids'[r] = [old EXCEPT ![p] = p] /\ p \in 1..Len(old)
      BY <1>2, <1>3, <1>4, <2>0, <2>3
    <3>2. /\ Len(ids'[r]) = Len(old) /\ ids'[r][p] = p
          /\ \A i \in 1..Len(old) : i # p => ids'[r][i] = old[i]
      BY <2>0, <3>1
    <3> QED BY <1>4, <2>0, <3>2
  <2> QED BY <1>1, <2>1, <2>2, <2>3, TakeFacts
<1>8. IdsRight'
  <2>1. ASSUME NEW q \in known', NEW i \in 1..Len(ids'[q]) PROVE ids'[q][i] = i \/ Awaited(q, i)'
    <3>1. q \in known /\ q \in Requests
      BY <1>3
    <3>2. CASE q # r
      BY <1>3, <1>6, <3>1, <3>2 DEF Right, IdsRight
    <3>3. CASE q = r
      <4>1. i \in 1..Len(ids[r])
        BY <1>3, <1>4, <1>7, <3>1, <3>3
      <4>2. ids[r][i] = i \/ Awaited(r, i)
        BY <3>1, <3>3, <4>1 DEF Right, IdsRight
      <4> QED BY <1>6, <1>7, <3>3, <4>2
    <3> QED BY <3>2, <3>3
  <2> QED BY <2>1 DEF IdsRight
<1>9. KVRight'
  <2>1. ASSUME NEW q \in known', NEW i \in 1..(Len(ids'[q]) - 1) PROVE kv'[q][i] = i \/ Entered(q, i)'
    <3>1. q \in known /\ q \in Requests
      BY <1>3
    <3>2. i \in 1..(Len(ids[q]) - 1)
      <4>1. CASE q # r
        BY <1>3, <3>1, <4>1
      <4>2. CASE q = r
        <5>1. Len(ids'[r]) \in Nat
          BY <1>2, <1>3
        <5> QED BY <1>4, <1>7, <4>2, <5>1
      <4> QED BY <4>1, <4>2
    <3> QED BY <1>2, <1>5, <3>1, <3>2 DEF Right, KVRight, device
  <2> QED BY <2>1 DEF KVRight
<1>10. OutRight'
  <2>1. \A k \in DOMAIN item' : item'[k].tok = item'[k].pos
    BY <1>2 DEF Right, OutRight
  <2> QED BY <1>2, <2>1 DEF Right, OutRight, device
<1>11. InOrder' /\ FutureRight' /\ SecondResolves'
  BY <1>2 DEF Right, InOrder, FutureRight, SecondResolves, device
<1>12. InputsResolve'
  BY <1>2, <1>5 DEF Right, InputsResolve, Value, device
<1> QED BY <1>8, <1>9, <1>10, <1>11, <1>12 DEF Right

\* The last entry of a selected session is a token or a placeholder of the batch
\* before: its input is resolved when the device comes to it.
LEMMA LaunchRight == ASSUME IInv, Right, Launch, ~CudaGraph PROVE Right'
<1>0. Types /\ item = <<>> /\ DOMAIN item = {}
  BY LaunchFacts DEF IInv
<1>1. /\ UNCHANGED <<known, finished, held, canceled, future, kv, examine, selected>> /\ item' = <<>>
  BY LaunchFacts DEF Launch
<1>2. PICK n \in 0..1 : n = Len(batches) /\ DOMAIN batches = 1..n /\ DOMAIN batches' = 1..(n + 1)
  BY <1>0, LaunchFacts, TypeFacts
<1>3. PICK b : b = batches'[n + 1]
  OBVIOUS
<1>4. PICK L \in 1..MaxBatch : L = Len(selected)
  BY LaunchFacts
<1>5. /\ b.base = ct /\ b.out = <<>> /\ DOMAIN b.inputs = 1..L
      /\ \A k \in 1..L : /\ b.inputs[k].rid = selected[k] /\ b.inputs[k].at = Len(ids[selected[k]])
                         /\ b.inputs[k].id = ids[selected[k]][Len(ids[selected[k]])]
  <2>1. PICK e : e = batches'[Len(batches) + 1]
    OBVIOUS
  <2>2. /\ e.base = ct /\ e.out = <<>> /\ DOMAIN e.inputs = 1..Len(selected)
        /\ \A k \in 1..Len(selected) :
             e.inputs[k] = [rid |-> selected[k], id |-> ids[selected[k]][Len(ids[selected[k]])],
                            at |-> Len(ids[selected[k]])]
    BY <2>1, LaunchFacts
  <2>3. ASSUME NEW k \in 1..Len(selected)
        PROVE  /\ e.inputs[k].rid = selected[k] /\ e.inputs[k].at = Len(ids[selected[k]])
               /\ e.inputs[k].id = ids[selected[k]][Len(ids[selected[k]])]
    <3>1. e.inputs[k] = [rid |-> selected[k], id |-> ids[selected[k]][Len(ids[selected[k]])],
                         at |-> Len(ids[selected[k]])]
      BY <2>2
    <3> QED BY <3>1
  <2> QED BY <1>2, <1>3, <1>4, <2>1, <2>2, <2>3
<1>6. \A j \in 1..n : batches'[j] = batches[j]
  BY <1>2, LaunchFacts
<1>7. /\ n = 0 => DOMAIN batches = {} /\ DOMAIN batches' = {1} /\ batches'[1] = b
      /\ n = 1 => /\ DOMAIN batches = {1} /\ DOMAIN batches' = {1, 2}
                  /\ batches'[1] = batches[1] /\ batches'[2] = b
  <2>1. 1..0 = {} /\ 1..1 = {1} /\ 1..2 = {1, 2}
    OBVIOUS
  <2> QED BY <1>2, <1>3, <1>6, <2>1
<1>8. /\ batches' # <<>> /\ Last(batches') = b
  <2>1. Len(batches') = n + 1
    <3>1. batches' \in Seq(Batches)
      BY LaunchFacts
    <3> QED BY <1>2, <3>1
  <2> QED BY <1>2, <1>3, <2>1 DEF Last
<1>9. ASSUME NEW r \in known
      PROVE  /\ r \in Requests /\ Len(ids[r]) \in Nat
             /\ r \notin Range(selected) => ids'[r] = ids[r]
             /\ r \in Range(selected) =>
                  /\ Len(ids'[r]) = Len(ids[r]) + 1
                  /\ \A i \in 1..Len(ids[r]) : ids'[r][i] = ids[r][i]
                  /\ \E k \in 1..L : b.inputs[k].rid = r /\ b.inputs[k].at = Len(ids[r])
  <2>1. r \in Requests /\ ids[r] \in Seq(Int) /\ Len(ids[r]) \in Nat /\ selected \in Seq(Requests)
    BY <1>0, TypeFacts DEF Types, TypeOK
  <2>2. r \notin Range(selected) => ids'[r] = ids[r]
    BY <2>1, LaunchFacts
  <2>3. CASE r \in Range(selected)
    <3>1. PICK k \in 1..L : selected[k] = r
      BY <1>4, <2>1, <2>3, SeqFacts
    <3>2. ids'[r] = Append(ids[r], -(ct + k))
      BY <1>4, <3>1, LaunchFacts
    <3>3. -(ct + k) \in Int
      BY <1>0, <3>1, LimitFacts DEF Types, TypeOK
    <3>4. Len(ids'[r]) = Len(ids[r]) + 1 /\ \A i \in 1..Len(ids[r]) : ids'[r][i] = ids[r][i]
      BY <2>1, <3>2, <3>3, AppendFacts
    <3> QED BY <1>5, <2>1, <2>3, <3>1, <3>4
  <2> QED BY <2>1, <2>2, <2>3
<1>10. \A r, i : Awaited(r, i) => Awaited(r, i)'
  BY <1>0, <1>2, <1>6 DEF Awaited
<1>11. Queued' = Queued \cup {n + 1}
  <2>1. CASE n = 0
    BY <1>5, <1>7, <2>1 DEF Queued
  <2>2. CASE n = 1
    BY <1>5, <1>7, <2>2 DEF Queued
  <2> QED BY <2>1, <2>2
<1>12. \A r, i : Entered(r, i) => Entered(r, i)'
  <2>1. ASSUME NEW r, NEW i, Entered(r, i) PROVE Entered(r, i)'
    <3>1. PICK j \in Queued : \E k \in DOMAIN batches[j].inputs :
                                batches[j].inputs[k].rid = r /\ batches[j].inputs[k].at = i
      BY <2>1 DEF Entered
    <3>2. j \in Queued' /\ batches'[j] = batches[j]
      BY <1>2, <1>6, <1>11 DEF Queued
    <3> QED BY <3>1, <3>2 DEF Entered
  <2> QED BY <2>1
<1>13. \A r, i : (\E k \in 1..L : b.inputs[k].rid = r /\ b.inputs[k].at = i) =>
                   Entered(r, i)' /\ Awaited(r, i + 1)'
  <2>1. n + 1 \in Queued' /\ n + 1 \in DOMAIN batches'
    BY <1>2, <1>11
  <2> QED BY <1>3, <1>5, <2>1 DEF Entered, Awaited
<1>14. IdsRight'
  <2>1. ASSUME NEW r \in known, NEW i \in 1..Len(ids'[r]) PROVE ids'[r][i] = i \/ Awaited(r, i)'
    <3>1. CASE i \in 1..Len(ids[r])
      <4>1. ids'[r][i] = ids[r][i]
        BY <1>9, <3>1
      <4> QED BY <1>10, <3>1, <4>1 DEF Right, IdsRight
    <3>2. CASE i \notin 1..Len(ids[r])
      <4>1. r \in Range(selected) /\ i = Len(ids[r]) + 1
        BY <1>9, <3>2
      <4> QED BY <1>9, <1>13, <4>1
    <3> QED BY <3>1, <3>2
  <2> QED BY <1>1, <2>1 DEF IdsRight
<1>15. KVRight'
  <2>1. ASSUME NEW r \in known, NEW i \in 1..(Len(ids'[r]) - 1) PROVE kv[r][i] = i \/ Entered(r, i)'
    <3>1. CASE i \in 1..(Len(ids[r]) - 1)
      BY <1>12, <3>1 DEF Right, KVRight
    <3>2. CASE i \notin 1..(Len(ids[r]) - 1)
      <4>1. r \in Range(selected) /\ i = Len(ids[r])
        BY <1>9, <3>2
      <4> QED BY <1>9, <1>13, <4>1
    <3> QED BY <3>1, <3>2
  <2> QED BY <1>1, <2>1 DEF KVRight
<1>16. DOMAIN <<>> = {}
  OBVIOUS
<1>17. OutRight'
  <2>1. \A j \in DOMAIN batches' : \A k \in DOMAIN batches'[j].out :
          batches'[j].out[k] = batches'[j].inputs[k].at + 1
    <3>1. CASE n = 0
      BY <1>5, <1>7, <1>16, <3>1
    <3>2. CASE n = 1
      BY <1>5, <1>7, <1>16, <3>2 DEF Right, OutRight
    <3> QED BY <3>1, <3>2
  <2> QED BY <1>1, <1>16, <2>1 DEF OutRight
<1>18. InOrder' /\ FutureRight'
  <2>1. InOrder'
    <3>1. CASE n = 0
      BY <1>7, <3>1 DEF InOrder
    <3>2. CASE n = 1
      BY <1>5, <1>7, <3>2 DEF InOrder
    <3> QED BY <3>1, <3>2
  <2>2. FutureRight'
    BY <1>5, <1>8, <1>16 DEF FutureRight
  <2> QED BY <2>1, <2>2
\* The last token of a selected session is known or in the batch before.
<1>19. ASSUME NEW k \in 1..L, NEW x, x = b.inputs[k]
       PROVE  /\ x.at \in Nat \ {0} /\ x.id \in Int
              /\ \/ x.id = x.at
                 \/ /\ n = 1
                    /\ \E m \in DOMAIN batches[1].inputs :
                         /\ batches[1].inputs[m].rid = x.rid /\ batches[1].inputs[m].at + 1 = x.at
                         /\ x.id = -(batches[1].base + m)
  <2>1. PICK r \in known : r = x.rid
    BY <1>4, <1>5, <1>19, LaunchFacts
  <2>2. x.at = Len(ids[r]) /\ x.id = ids[r][Len(ids[r])] /\ Len(ids[r]) \in 1..MaxNew
        /\ ids[r] \in Seq(Int)
    <3>1. ids[r] # <<>> /\ r \in Requests /\ ids[r] \in Seq(Int) /\ Len(ids[r]) <= MaxNew
      BY <1>0, <1>9, TypeFacts DEF IInv, SessionsOK
    <3>2. Len(ids[r]) \in Nat /\ Len(ids[r]) # 0
      BY <3>1, SeqFacts
    <3> QED BY <1>5, <1>19, <2>1, <3>1, <3>2, ConstantsAssumption
  <2>3. x.at \in Nat \ {0} /\ x.id \in Int
    BY <2>2
  <2>4. ids[r][Len(ids[r])] = Len(ids[r]) \/ Awaited(r, Len(ids[r]))
    BY <2>2 DEF Right, IdsRight
  <2>5. CASE Awaited(r, Len(ids[r]))
    <3>1. PICK j \in DOMAIN batches : \E m \in DOMAIN batches[j].inputs :
            batches[j].inputs[m].rid = r /\ batches[j].inputs[m].at + 1 = Len(ids[r])
      BY <1>0, <2>5 DEF Awaited
    <3>2. j = 1 /\ n = 1
      BY <1>2
    <3>3. PICK m \in DOMAIN batches[1].inputs :
            batches[1].inputs[m].rid = r /\ batches[1].inputs[m].at + 1 = Len(ids[r])
      BY <3>1, <3>2
    <3>4. ids[r][Len(ids[r])] = -(batches[1].base + m)
      BY <3>1, <3>2, <3>3 DEF IInv, BatchPlaced
    <3> QED BY <2>1, <2>2, <2>3, <3>2, <3>3, <3>4
  <2> QED BY <2>2, <2>3, <2>4, <2>5
<1>20. SecondResolves'
  <2>1. CASE n = 0
    BY <1>7, <2>1 DEF SecondResolves
  <2>2. CASE n = 1
    <3>1. ASSUME NEW k \in DOMAIN batches'[2].inputs, NEW x, x = batches'[2].inputs[k]
          PROVE  \/ x.id = x.at
                 \/ \E m \in DOMAIN batches'[1].inputs :
                      /\ batches'[1].inputs[m].rid = x.rid /\ batches'[1].inputs[m].at + 1 = x.at
                      /\ x.id = -(batches'[1].base + m)
      <4>1. k \in 1..L /\ x = b.inputs[k] /\ batches'[1] = batches[1]
        BY <1>5, <1>7, <2>2, <3>1
      <4> QED BY <1>19, <4>1
    <3> QED BY <3>1 DEF SecondResolves
  <2> QED BY <2>1, <2>2
<1>21. InputsResolve'
  <2>1. ASSUME NEW i \in Queued', \A j \in Queued' : i <= j, NEW x \in Range(batches'[i].inputs)
        PROVE  Value(x)' = x.at
    <3>1. CASE i \in Queued
      <4>1. batches'[i] = batches[i] /\ \A j \in Queued : i <= j
        BY <1>2, <1>6, <1>11, <2>1, <3>1 DEF Queued
      <4> QED BY <1>1, <2>1, <3>1, <4>1 DEF Right, InputsResolve, Value
    <3>2. CASE i \notin Queued
      <4>1. i = n + 1 /\ Queued = {}
        <5>1. i = n + 1
          BY <1>11, <3>2
        <5>2. Queued \subseteq 1..n
          BY <1>2 DEF Queued
        <5>3. ASSUME NEW j \in Queued PROVE FALSE
          <6>1. j \in Queued' /\ j \in 1..n
            BY <1>11, <5>2
          <6>2. i <= j
            BY <2>1, <6>1
          <6> QED BY <1>2, <5>1, <6>1, <6>2
        <5> QED BY <5>1, <5>3
      <4>2. PICK k \in 1..L : x = b.inputs[k]
        BY <1>3, <1>5, <2>1, <4>1 DEF Range
      <4>3. x.at \in Nat \ {0} /\ x.id \in Int
        BY <1>19, <4>2
      <4>4. CASE x.id = x.at
        BY <4>3, <4>4 DEF Value
      <4>5. CASE /\ n = 1
                 /\ \E m \in DOMAIN batches[1].inputs :
                      /\ batches[1].inputs[m].rid = x.rid /\ batches[1].inputs[m].at + 1 = x.at
                      /\ x.id = -(batches[1].base + m)
        <5>1. PICK m \in DOMAIN batches[1].inputs :
                /\ batches[1].inputs[m].at + 1 = x.at /\ x.id = -(batches[1].base + m)
          BY <4>5
        <5>2. 1 \in DOMAIN batches /\ batches[1].out # <<>>
          BY <1>7, <4>1, <4>5 DEF Queued
        <5>3. m \in DOMAIN batches[1].out
          <6>1. /\ DOMAIN batches[1].inputs = 1..Len(batches[1].inputs)
                /\ batches[1].out \in Seq(0..MaxNew)
            BY <1>0, <5>2, TypeFacts
          <6>2. Len(batches[1].out) = Len(batches[1].inputs)
            BY <5>2 DEF IInv, BatchesOK
          <6> QED BY <6>1, <6>2, SeqFacts
        <5>4. batches # <<>> /\ Last(batches) = batches[1]
          <6>1. batches # <<>>
            BY <5>2
          <6> QED BY <1>0, <1>2, <4>5, <6>1, LastIs
        <5>5. future[batches[1].base + m] = x.at
          BY <5>1, <5>2, <5>3, <5>4 DEF Right, FutureRight, OutRight
        <5>6. x.id < 0 /\ -x.id = batches[1].base + m
          <6>1. batches[1].base \in 0..(Limit - 1) /\ m \in Nat \ {0}
            BY <1>0, <5>2, TypeFacts
          <6> QED BY <5>1, <6>1, LimitFacts
        <5> QED BY <1>1, <5>5, <5>6 DEF Value
      <4> QED BY <1>19, <4>2, <4>4, <4>5
    <3> QED BY <3>1, <3>2
  <2> QED BY <2>1 DEF InputsResolve
<1> QED BY <1>14, <1>15, <1>17, <1>18, <1>20, <1>21 DEF Right

\* All K/V up to the input is in place, stored by earlier batches or this one:
\* the device samples the next token, and the ring then answers for the batch
\* behind.
LEMMA ExecuteRight == ASSUME IInv, Right, Execute, ~CudaGraph PROVE Right'
<1>0. Types
  BY DEF IInv
<1>1. PICK i \in Queued, read \in Seq(Launches), out \in Seq(0..MaxNew) :
        /\ \A j \in Queued : i <= j
        /\ UNCHANGED <<sessions, activeRids, ct, host, loop, caller>>
        /\ read = batches[i].inputs
        /\ out = Sampled(read, Stored(read)) /\ kv' = Stored(read)
        /\ Len(out) = Len(read) /\ DOMAIN out = 1..Len(read)
        /\ future' = [s \in 0..(MapSize - 1) |->
                           IF s - batches[i].base \in DOMAIN out
                           THEN out[s - batches[i].base] ELSE future[s]]
        /\ batches' \in Seq(Batches) /\ Len(batches') = Len(batches)
        /\ DOMAIN batches' = DOMAIN batches
        /\ \A j \in DOMAIN batches : /\ batches'[j].inputs = batches[j].inputs
                                     /\ batches'[j].base = batches[j].base
                                     /\ j # i => batches'[j] = batches[j]
        /\ batches'[i].out = out
  BY ExecuteFacts
<1>2. PICK n \in 1..2 : n = Len(batches) /\ DOMAIN batches = 1..n
  <2>1. Len(batches) \in Nat /\ DOMAIN batches = 1..Len(batches) /\ Len(batches) <= 2
    BY <1>0, TypeFacts DEF IInv, Depth
  <2>2. i \in DOMAIN batches
    BY DEF Queued
  <2> QED BY <2>1, <2>2
<1>3. i \in DOMAIN batches /\ i \in 1..n /\ batches[i].out = <<>>
  BY <1>2 DEF Queued
<1>4. PICK L \in 1..MaxBatch : /\ L = Len(read) /\ DOMAIN read = 1..L /\ DOMAIN out = 1..L
                               /\ Len(out) = L
  <2>1. Len(batches[i].inputs) \in 1..MaxBatch
    BY <1>3 DEF IInv, BatchesOK
  <2>2. DOMAIN read = 1..Len(read)
    BY SeqFacts
  <2> QED BY <1>1, <2>1, <2>2
<1>5. out # <<>>
  BY <1>4, SeqFacts
<1>6. ASSUME NEW k \in 1..L
      PROVE  /\ read[k].rid \in Requests /\ read[k].id \in Int /\ read[k].at \in 1..(MaxNew - 1)
             /\ read[k] = batches[i].inputs[k] /\ read[k] \in Range(read)
             /\ Value(read[k]) = read[k].at
  <2>1. read[k].rid \in Requests /\ read[k].id \in Int /\ read[k].at \in 1..(MaxNew - 1)
    BY <1>0, <1>1, <1>3, <1>4, TypeFacts
  <2>2. read[k] \in Range(read)
    BY <1>4 DEF Range
  <2> QED BY <1>1, <2>1, <2>2 DEF Right, InputsResolve
<1>7. Queued' = Queued \ {i}
  BY <1>1, <1>3, <1>5 DEF Queued
<1>8. \A r, p : Awaited(r, p)' <=> Awaited(r, p)
  BY <1>1 DEF Awaited, loop
<1>9. IdsRight'
  BY <1>1, <1>8 DEF Right, IdsRight, sessions
\* What the step stores is right, and what was right stays.
<1>10. ASSUME NEW r \in Requests, NEW p \in 1..MaxNew
       PROVE  /\ (\E k \in 1..L : read[k].rid = r /\ read[k].at = p) => kv'[r][p] = p
              /\ kv[r][p] = p => kv'[r][p] = p
  <2>1. CASE \E k \in DOMAIN read : read[k].rid = r /\ read[k].at = p
    <3>1. kv'[r][p] = Value(CHOOSE x \in Range(read) : x.rid = r /\ x.at = p)
      BY <1>1, <2>1 DEF Stored
    <3>2. PICK x : x = CHOOSE y \in Range(read) : y.rid = r /\ y.at = p
      OBVIOUS
    <3>3. x \in Range(read) /\ x.at = p
      BY <1>4, <1>6, <2>1, <3>2
    <3>4. PICK k \in 1..L : x = read[k]
      BY <1>4, <3>3 DEF Range
    <3>5. Value(x) = p
      BY <1>6, <3>3, <3>4
    <3> QED BY <3>1, <3>2, <3>5
  <2>2. CASE ~\E k \in DOMAIN read : read[k].rid = r /\ read[k].at = p
    <3>1. kv'[r][p] = kv[r][p]
      BY <1>1, <2>2 DEF Stored
    <3> QED BY <1>4, <2>2, <3>1
  <2> QED BY <2>1, <2>2
<1>11. ASSUME NEW r \in known, NEW p \in 1..(Len(ids[r]) - 1)
       PROVE  r \in Requests /\ p \in 1..MaxNew
  BY <1>0, TypeFacts, ConstantsAssumption DEF Types, TypeOK
<1>12. ASSUME NEW r \in known, NEW p \in 1..(Len(ids[r]) - 1)
       PROVE  kv'[r][p] = p \/ \E j \in Queued \ {i} : \E k \in DOMAIN batches[j].inputs :
                                 batches[j].inputs[k].rid = r /\ batches[j].inputs[k].at = p
  <2>1. r \in Requests /\ p \in 1..MaxNew
    BY <1>11
  <2>2. kv[r][p] = p \/ Entered(r, p)
    BY DEF Right, KVRight
  <2> QED BY <1>1, <1>4, <1>10, <2>1, <2>2 DEF Entered
<1>13. KVRight'
  <2>1. ASSUME NEW r \in known, NEW p \in 1..(Len(ids[r]) - 1)
        PROVE  kv'[r][p] = p \/ Entered(r, p)'
    <3>1. CASE kv'[r][p] = p
      BY <3>1
    <3>2. CASE \E j \in Queued \ {i} : \E k \in DOMAIN batches[j].inputs :
                 batches[j].inputs[k].rid = r /\ batches[j].inputs[k].at = p
      <4>1. \A j \in Queued \ {i} : j \in Queued' /\ batches'[j] = batches[j]
        BY <1>1, <1>7 DEF Queued
      <4> QED BY <3>2, <4>1 DEF Entered
    <3> QED BY <1>12, <3>1, <3>2
  <2> QED BY <1>1, <2>1 DEF KVRight, sessions
\* The device reads what it needs.
<1>14. ASSUME NEW k \in 1..L, NEW p \in 1..read[k].at PROVE kv'[read[k].rid][p] = p
  <2>1. PICK r, a : r = read[k].rid /\ a = read[k].at
    OBVIOUS
  <2>2. r \in Requests /\ a \in 1..(MaxNew - 1) /\ MaxNew \in Nat /\ p \in 1..a
    BY <1>6, <2>1, ConstantsAssumption
  <2>3. /\ r \in known /\ Len(ids[r]) \in Nat /\ a + 1 <= Len(ids[r])
        /\ i = 1 /\ InBatch(2, r) => Len(ids[r]) = a + 2
    <3>1. k \in DOMAIN batches[i].inputs /\ batches[i].inputs[k].rid = r /\ batches[i].inputs[k].at = a
      BY <1>1, <1>4, <1>6, <2>1
    <3>2. /\ r \in known /\ a + 1 \in 2..Len(ids[r])
          /\ i = 1 /\ InBatch(2, r) => Len(ids[r]) = (a + 1) + 1
      BY <1>3, <3>1 DEF IInv, BatchPlaced, Placed
    <3>3. Len(ids[r]) \in Nat
      BY <1>0, <2>2, TypeFacts
    <3> QED BY <2>2, <3>2, <3>3
  <2>4. p \in 1..(Len(ids[r]) - 1)
    BY <2>2, <2>3
  <2>5. CASE kv'[r][p] = p
    BY <2>1, <2>5
  <2>6. CASE \E j \in Queued \ {i} : \E m \in DOMAIN batches[j].inputs :
               batches[j].inputs[m].rid = r /\ batches[j].inputs[m].at = p
    <3>0. PICK j \in Queued \ {i} : \E m \in DOMAIN batches[j].inputs :
            batches[j].inputs[m].rid = r /\ batches[j].inputs[m].at = p
      BY <2>6
    <3>1. PICK m \in DOMAIN batches[j].inputs :
            batches[j].inputs[m].rid = r /\ batches[j].inputs[m].at = p
      BY <3>0
    <3>2. j = 2 /\ i = 1
      <4>1. j \in 1..n /\ i <= j /\ j # i
        BY <1>1, <1>2 DEF Queued
      <4> QED BY <1>2, <1>3, <4>1
    <3>3. j \in DOMAIN batches
      BY DEF Queued
    <3>4. InBatch(2, r)
      BY <3>1, <3>2, <3>3 DEF InBatch
    <3>5. Len(ids[r]) = p + 1
      <4>1. Placed(r, p + 1, FALSE)
        BY <3>1, <3>2, <3>3 DEF IInv, BatchPlaced, Placed
      <4> QED BY <4>1 DEF Placed
    <3> QED BY <2>2, <2>3, <3>2, <3>4, <3>5
  <2> QED BY <1>12, <2>3, <2>4, <2>5, <2>6
<1>15. ASSUME NEW k \in 1..L PROVE out[k] = read[k].at + 1
  <2>1. Sampled(read, Stored(read))[k] =
          IF \A p \in 1..read[k].at : Stored(read)[read[k].rid][p] = p THEN read[k].at + 1 ELSE 0
    BY <1>4, SampledFacts
  <2>2. \A p \in 1..read[k].at : Stored(read)[read[k].rid][p] = p
    BY <1>1, <1>14
  <2> QED BY <1>1, <2>1, <2>2
<1>16. OutRight'
  <2>1. ASSUME NEW j \in DOMAIN batches, NEW k \in DOMAIN batches'[j].out
        PROVE  batches'[j].out[k] = batches'[j].inputs[k].at + 1
    <3>1. CASE j = i
      BY <1>1, <1>4, <1>6, <1>15, <2>1, <3>1
    <3>2. CASE j # i
      BY <1>1, <2>1, <3>2 DEF Right, OutRight
    <3> QED BY <3>1, <3>2
  <2>2. item' = item
    BY <1>1 DEF loop
  <2> QED BY <1>1, <2>1, <2>2 DEF Right, OutRight
<1>17. InOrder' /\ (i = 1 /\ n = 2 => batches'[2].out = <<>>)
  <2>1. CASE i = 1
    BY <1>1, <1>2, <1>3, <1>5, <2>1 DEF Right, InOrder
  <2>2. CASE i = 2
    <3>1. 1 \notin Queued /\ 1 \in DOMAIN batches
      BY <1>1, <1>2, <2>2
    <3>2. batches'[1].out # <<>>
      BY <1>1, <2>2, <3>1 DEF Queued
    <3> QED BY <2>2, <3>2 DEF InOrder
  <2> QED BY <1>2, <1>3, <2>1, <2>2
<1>18. ASSUME NEW k \in 1..L PROVE future'[batches[i].base + k] = out[k] /\ batches[i].base + k \in Nat \ {0}
  <2>1. batches[i].base \in 0..(Limit - 1)
    BY <1>0, <1>3, TypeFacts
  <2>2. PICK s \in 0..(MapSize - 1) : s = batches[i].base + k /\ s - batches[i].base = k /\ s \in Nat \ {0}
    <3>1. PICK c : c = batches[i].base
      OBVIOUS
    <3>2. c \in 0..(Limit - 1) /\ k \in Nat \ {0} /\ k <= MaxBatch /\ MaxBatch \in Nat
      BY <1>4, <2>1, <3>1, ConstantsAssumption
    <3>3. c + k \in 0..(MapSize - 1) /\ (c + k) - c = k /\ c + k \in Nat \ {0}
      BY ONLY <3>2, LimitFacts
    <3> QED BY <3>1, <3>3
  <2> QED BY <1>1, <1>4, <2>2
<1>19. FutureRight'
  <2>1. batches' # <<>> /\ Last(batches') = batches'[n]
    BY <1>1, <1>2 DEF Last
  <2>2. CASE i = n
    BY <1>1, <1>4, <1>18, <2>1, <2>2, <1>3 DEF FutureRight
  <2>3. CASE i # n
    <3>1. batches'[n].out = <<>>
      <4>1. i = 1 /\ n = 2
        <5>1. n = 1 \/ n = 2
          BY <1>2
        <5>2. 1..1 = {1} /\ 1..2 = {1, 2}
          OBVIOUS
        <5> QED BY <1>3, <2>3, <5>1, <5>2
      <4> QED BY <1>17, <4>1
    <3>2. DOMAIN <<>> = {}
      OBVIOUS
    <3> QED BY <2>1, <3>1, <3>2 DEF FutureRight
  <2> QED BY <2>2, <2>3
<1>20. SecondResolves'
  <2>1. CASE i = 1
    BY <1>1, <1>5, <2>1 DEF SecondResolves
  <2>2. CASE i = 2
    <3>1. 1 \notin Queued /\ 1 \in DOMAIN batches
      BY <1>1, <1>2, <2>2
    <3>2. batches'[1].out # <<>>
      BY <1>1, <2>2, <3>1 DEF Queued
    <3> QED BY <3>2 DEF SecondResolves
  <2> QED BY <1>2, <1>3, <2>1, <2>2
<1>21. InputsResolve'
  <2>1. ASSUME NEW j \in Queued', NEW x \in Range(batches'[j].inputs) PROVE Value(x)' = x.at
    <3>1. j \in 1..n /\ i <= j /\ j # i /\ batches'[j] = batches[j] /\ j \in DOMAIN batches
      BY <1>1, <1>2, <1>7 DEF Queued
    <3>2. j = 2 /\ i = 1
      BY <1>2, <1>3, <3>1
    <3>3. PICK k \in DOMAIN batches[2].inputs : x = batches[2].inputs[k]
      BY <2>1, <3>1, <3>2 DEF Range
    <3>4. x.id \in Int /\ x.at \in 1..(MaxNew - 1)
      BY <1>0, <3>1, <3>2, <3>3, TypeFacts
    <3>5. \/ x.id = x.at
          \/ \E m \in DOMAIN batches[1].inputs :
               batches[1].inputs[m].at + 1 = x.at /\ x.id = -(batches[1].base + m)
      BY <1>3, <3>1, <3>2, <3>3 DEF Right, SecondResolves
    <3>6. CASE x.id = x.at
      BY <3>4, <3>6, ConstantsAssumption DEF Value
    <3>7. CASE \E m \in DOMAIN batches[1].inputs :
                 batches[1].inputs[m].at + 1 = x.at /\ x.id = -(batches[1].base + m)
      <4>1. PICK m \in 1..L : read[m].at + 1 = x.at /\ x.id = -(batches[i].base + m)
        BY <1>1, <1>4, <3>2, <3>7
      <4>2. future'[batches[i].base + m] = x.at /\ batches[i].base + m \in Nat \ {0}
        BY <1>15, <1>18, <4>1
      <4>3. x.id < 0 /\ -x.id = batches[i].base + m
        BY <4>1, <4>2
      <4> QED BY <4>2, <4>3 DEF Value
    <3> QED BY <3>5, <3>6, <3>7
  <2> QED BY <2>1 DEF InputsResolve
<1> QED BY <1>9, <1>13, <1>16, <1>17, <1>19, <1>20, <1>21 DEF Right

LEMMA NextRight == ASSUME IInv, Right, ~CudaGraph, [Next]_vars PROVE Right'
<1>1. ASSUME UNCHANGED <<batches, item, future, kv, known, ids>> PROVE Right'
  BY <1>1, RightKept
<1>2. ASSUME NEW r \in Requests, AddRequest(r) PROVE Right'
  <2>1. /\ UNCHANGED <<batches, item, future, kv>> /\ ids' = [ids EXCEPT ![r] = <<1>>]
        /\ known' = known \cup {r}
    BY <1>2 DEF AddRequest, device, loop
  <2>2. ids \in [Requests -> Seq(Int)] /\ known \subseteq Requests
    BY DEF IInv, Types, TypeOK
  <2>3. ASSUME NEW q \in known' PROVE (q \in known /\ ids'[q] = ids[q]) \/ ids'[q] = <<1>>
    BY <2>1, <2>2
  <2> QED BY <2>1, <2>3, RightKept
<1>3. ASSUME NEW r \in Requests, Discard(r) PROVE Right'
  <2>1. /\ UNCHANGED <<batches, item, future, kv>>
        /\ \/ UNCHANGED <<known, ids>>
           \/ ids' = [ids EXCEPT ![r] = <<>>] /\ known' = known \ {r}
    BY <1>3 DEF Discard, device, loop
  <2>2. ids \in [Requests -> Seq(Int)] /\ known \subseteq Requests
    BY DEF IInv, Types, TypeOK
  <2>3. ASSUME NEW q \in known' PROVE (q \in known /\ ids'[q] = ids[q]) \/ ids'[q] = <<1>>
    BY <2>1, <2>2
  <2> QED BY <2>1, <2>3, RightKept
<1>4. CASE \/ StepCall \/ AllOver \/ SelectOne \/ SelectNone \/ NothingDue \/ Taken \/ UNCHANGED vars
  <2>1. UNCHANGED <<batches, item, future, kv, known, ids>>
    BY <1>4 DEF StepCall, AllOver, SelectOne, SelectNone, NothingDue, Taken, vars, sessions, device,
                loop
  <2> QED BY <1>1, <2>1
<1> QED BY <1>2, <1>3, <1>4, LaunchRight, SynchronizeRight, TakeRight, ExecuteRight DEF Next, Step

\* Every reachable state satisfies both invariants.
LEMMA InvariantRight == Spec => [](IInv /\ RightInv)
<1>1. Init => IInv /\ RightInv
  BY InitInv, InitPromised, InitRight DEF RightInv
<1>2. IInv /\ RightInv /\ [Next]_vars => (IInv /\ RightInv)'
  <2> SUFFICES ASSUME IInv, RightInv, [Next]_vars PROVE (IInv /\ RightInv)'
    OBVIOUS
  <2>1. IInv'
    BY NextInv
  <2>2. Promised'
    BY NextPromised DEF RightInv
  <2>3. CASE CudaGraph
    BY <2>1, <2>2, <2>3 DEF RightInv
  <2>4. CASE ~CudaGraph
    BY <2>1, <2>2, <2>4, NextRight DEF RightInv
  <2> QED BY <2>3, <2>4
<1> QED BY <1>1, <1>2, PTL DEF Spec

\* Whatever the device is given next resolves to the last token of its session,
\* for every size of the ring the code computes from kv_cache_max_concurrency:
\* without graphs no slot is reused while a placeholder names it.
THEOREM InputsAreTokens == ASSUME CudaGraph = FALSE PROVE Spec => []InputsResolve
<1>1. RightInv => InputsResolve
  BY DEF RightInv, Right
<1> QED BY <1>1, InvariantRight, PTL

-----------------------------------------------------------------------------
\* The refinement of DecodeContract: finished or discarded requests have had
\* their last token.
LEMMA InitMaps == Init => Contract!CInit
BY DEF Init, Contract!CInit

\* A step that changes what the caller sees of no request.
LEMMA AdvanceMaps ==
  ASSUME IInv, Types', UNCHANGED dropped, finished \subseteq finished',
         \A r \in Requests :
           /\ \/ Contract!Gains(r)
              \/ tokens'[r] = tokens[r] /\ (r \in finished' \cup dropped => r \in finished \cup dropped)
           /\ ended'[r] = ended[r] \/ Contract!End(r)
  PROVE  Contract!Advance
<1>1. DOMAIN tokens' = Requests /\ DOMAIN ended' = Requests
  BY DEF Types, TypeOK
<1>2. \A r \in Requests : Contract!Served(r)
  BY DEF Contract!Served, Contract!Waits
<1>3. (finished \cup dropped) \subseteq (finished \cup dropped)'
  OBVIOUS
<1> QED BY <1>1, <1>2, <1>3 DEF Contract!Advance

\* A step is a step of the contract or changes nothing the caller sees.
LEMMA NextMaps ==
  ASSUME IInv, IInv', Promised, Right, [Next]_vars
  PROVE  [Contract!CNext]_(Contract!cvars)
<1>0. Types /\ TypeOK /\ SessionsOK /\ Types'
  BY DEF IInv, Types
<1>1. /\ ids \in [Requests -> Seq(Int)] /\ tokens \in [Requests -> Seq(0..MaxNew)]
      /\ ended \in [Requests -> Nat] /\ inflight \in [Requests -> Nat]
      /\ \A r \in Requests : Len(ids[r]) \in Nat /\ Len(tokens[r]) \in Nat
  BY <1>0 DEF TypeOK
<1>2. CASE UNCHANGED <<finished, caller>>
  BY <1>2 DEF Contract!cvars, caller
<1>3. ASSUME NEW r \in Requests, AddRequest(r) PROVE Contract!Advance
  <2>1. /\ tokens[r] = <<>> /\ tokens' = [tokens EXCEPT ![r] = <<1>>] /\ dropped' = dropped
        /\ \/ finished' = finished \cup {r} /\ ended' = [ended EXCEPT ![r] = 1]
           \/ UNCHANGED <<finished, ended>> /\ MaxNew # 1
    BY <1>3 DEF AddRequest
  <2>2. r \notin finished \cup dropped /\ ended[r] = 0
    BY <2>1 DEF Promised, PromisedTo
  <2>3. tokens'[r] = Append(tokens[r], Len(tokens[r]) + 1) /\ Len(tokens'[r]) = 1
    <3>1. tokens'[r] = <<1>>
      BY <1>1, <2>1
    <3>2. Append(<<>>, Len(<<>>) + 1) = <<1>> /\ Len(<<1>>) = 1
      OBVIOUS
    <3> QED BY <2>1, <3>1, <3>2
  <2>4. Contract!Gains(r)
    BY <2>1, <2>2, <2>3, ConstantsAssumption DEF Contract!Gains
  <2>5. ended'[r] = ended[r] \/ Contract!End(r)
    BY <1>1, <2>1, <2>2 DEF Contract!End
  <2>6. \A q \in Requests : q # r => /\ tokens'[q] = tokens[q] /\ ended'[q] = ended[q]
                                     /\ q \in finished' => q \in finished
    BY <1>1, <2>1
  <2> QED BY <1>0, <2>1, <2>4, <2>5, <2>6, AdvanceMaps
<1>4. ASSUME NEW r \in Requests, Discard(r) PROVE Contract!Drop(r) \/ Contract!Advance
  <2>1. /\ dropped' = dropped \cup {r} /\ UNCHANGED <<tokens, ended>>
        /\ finished' = finished \cup {r} \/ finished' = finished
    BY <1>4 DEF Discard
  <2> QED BY <2>1 DEF Contract!Drop
<1>5. CASE TakeOne
  <2>1. PICK r, p, t : r = Rid /\ p = Pos /\ t = Head(item).tok
    OBVIOUS
  <2>2. /\ 1 \in DOMAIN item /\ item[1].pos = p /\ item[1].tok = t
        /\ r \in Requests /\ p \in 2..MaxNew
        /\ inflight[r] = 1 + One(InBatch(1, r))
        /\ r \in known /\ dropped' = dropped
        /\ InBatch(1, r) => Len(ids[r]) = p + 1 /\ r \notin finished
        /\ ~InBatch(1, r) => Len(ids[r]) = p
    BY <1>5, <2>1, TakeFacts
  <2>3. t = p
    BY <2>2 DEF Right, OutRight
  <2>4. \/ r \in canceled /\ UNCHANGED <<finished, caller>>
        \/ /\ r \in finished \ canceled
           /\ ended' = [ended EXCEPT ![r] = ended[r] + 1] /\ UNCHANGED <<finished, tokens>>
        \/ /\ r \notin finished
           /\ tokens' = [tokens EXCEPT ![r] = Append(tokens[r], t)]
           /\ \/ finished' = finished \cup {r} /\ ended' = [ended EXCEPT ![r] = ended[r] + 1]
              \/ finished' = finished \cup {r} /\ ended' = ended
              \/ UNCHANGED <<finished, ended>> /\ Len(tokens[r]) + 1 # MaxNew
    BY <1>5, <2>1, TakeFacts DEF caller
  <2>5. PromisedTo(r) /\ inflight[r] > 0
    BY <2>2 DEF Promised, One
  <2>6. CASE r \in canceled /\ UNCHANGED <<finished, caller>>
    BY <1>2, <2>6
  <2>7. CASE /\ r \in finished \ canceled
             /\ ended' = [ended EXCEPT ![r] = ended[r] + 1] /\ UNCHANGED <<finished, tokens>>
    <3>1. r \notin dropped /\ ended[r] = 0
      BY <2>2, <2>5, <2>7 DEF PromisedTo
    <3>2. Contract!End(r)
      BY <1>1, <2>2, <2>7, <3>1 DEF Contract!End
    <3>3. \A q \in Requests : q # r => ended'[q] = ended[q]
      BY <1>1, <2>7
    <3>4. Contract!Advance
      BY <1>0, <2>2, <2>7, <3>2, <3>3, AdvanceMaps
    <3> QED BY <3>4 DEF Contract!CNext
  <2>8. CASE /\ r \notin finished
             /\ tokens' = [tokens EXCEPT ![r] = Append(tokens[r], t)]
             /\ \/ finished' = finished \cup {r} /\ ended' = [ended EXCEPT ![r] = ended[r] + 1]
                \/ finished' = finished \cup {r} /\ ended' = ended
                \/ UNCHANGED <<finished, ended>> /\ Len(tokens[r]) + 1 # MaxNew
    <3>1. r \notin dropped /\ ended[r] = 0 /\ Len(tokens[r]) + inflight[r] = Len(ids[r])
      BY <2>2, <2>5, <2>8 DEF PromisedTo
    <3>2. p = Len(tokens[r]) + 1
      BY <1>1, <2>2, <3>1 DEF One
    <3>3. tokens'[r] = Append(tokens[r], Len(tokens[r]) + 1)
      BY <1>1, <2>2, <2>3, <2>8, <3>2
    <3>4. Len(tokens'[r]) = Len(tokens[r]) + 1
      <4>1. PICK old \in Seq(0..MaxNew) : old = tokens[r]
        BY <1>1, <2>2
      <4>2. p \in 0..MaxNew
        BY <2>2
      <4>3. Len(Append(old, p)) = Len(old) + 1
        BY ONLY <4>1, <4>2, AppendFacts
      <4> QED BY <3>2, <3>3, <4>1, <4>3
    <3>5. Contract!Gains(r)
      <4>1. Len(tokens'[r]) <= MaxNew
        BY <2>2, <3>2, <3>4
      <4>2. Len(tokens'[r]) = MaxNew => r \in finished'
        BY <2>8, <3>4
      <4> QED BY <2>8, <3>1, <3>3, <4>1, <4>2 DEF Contract!Gains
    <3>6. ended'[r] = ended[r] \/ Contract!End(r)
      BY <1>1, <2>2, <2>8, <3>1 DEF Contract!End
    <3>7. \A q \in Requests : q # r => /\ tokens'[q] = tokens[q] /\ ended'[q] = ended[q]
                                       /\ q \in finished' => q \in finished
      BY <1>1, <2>8
    <3>8. finished \subseteq finished'
      BY <2>8
    <3>9. Contract!Advance
      BY <1>0, <2>2, <3>5, <3>6, <3>7, <3>8, AdvanceMaps
    <3> QED BY <3>9 DEF Contract!CNext
  <2> QED BY <2>4, <2>6, <2>7, <2>8
<1>6. CASE StepCall \/ AllOver \/ SelectOne \/ SelectNone \/ Launch \/ Synchronize \/ NothingDue
           \/ Taken \/ Execute \/ UNCHANGED vars
  <2>1. UNCHANGED <<finished, caller>>
    BY <1>6 DEF StepCall, AllOver, SelectOne, SelectNone, Launch, Synchronize, NothingDue, Taken,
                Execute, vars, sessions
  <2> QED BY <1>2, <2>1
<1>7. ASSUME NEW r \in Requests, AddRequest(r) \/ Discard(r) PROVE Contract!CNext
  BY <1>3, <1>4, <1>7 DEF Contract!CNext
<1> QED BY <1>5, <1>6, <1>7 DEF Next, Step

\* Overlapped steps return what one step after the other would: the tokens in
\* order, the end once, nothing for a discarded request. The hypothesis is
\* needed: with graphs the host buffers are overwritten while a batch is queued.
THEOREM RefinesContract == ASSUME CudaGraph = FALSE PROVE Spec => ImplementsSync
<1>1. Init => Contract!CInit
  BY InitMaps
<1>2. (IInv /\ RightInv) /\ (IInv /\ RightInv)' /\ [Next]_vars => [Contract!CNext]_(Contract!cvars)
  BY NextMaps DEF RightInv
<1> QED BY <1>1, <1>2, InvariantRight, PTL DEF Spec, ImplementsSync, Contract!CSpec

=============================================================================
