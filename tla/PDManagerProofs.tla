-------------------------- MODULE PDManagerProofs ---------------------------
(***************************************************************************)
(* Theorems about PDManager: a release never overtakes the copy of a       *)
(* prompt, the limit on active requests holds over both engines, and every *)
(* client sees a stream in order that ends once. The argument follows each *)
(* request from add_request through the two queues to the decoder and      *)
(* back, and then its tokens into its stream.                              *)
(***************************************************************************)
EXTENDS PDManager, QueueLemmas

\* A task of the tokenize threads is a request, or the {} that stops one.
Tasks == {{}} \cup {{r} : r \in Requests}
Results == [rid : Requests, fin : BOOLEAN, err : BOOLEAN]

\* Types of what the argument is about.
Types ==
  /\ running \in BOOLEAN
  /\ tokQ \in Seq(Tasks)
  /\ toker \in [Tokenizers -> [at : {"idle", "encode", "dead"}, on : Tasks]]
  /\ pending \in Seq(Requests)
  /\ ppc \in {"count", "take", "dead"} /\ batch \in Seq(Requests) /\ cap \in Nat
  /\ psess \subseteq Requests /\ dsess \subseteq Requests
  /\ results \in Seq(Results) /\ hand \subseteq Results
  /\ dpc \in {"top", "ingest", "handle", "emit", "dead"}
  /\ copying \subseteq Requests /\ copied \subseteq copying /\ release \in Seq(Requests)
  /\ client \in [Requests -> {"idle", "adding", "raised", "added", "open", "read", "done", "gone"}]

\* What the threads have in hand where they are; a thread that died or a call of
\* close leaves the manager stopped.
Stages ==
  /\ dpc = "dead" => ~running
  /\ closer.at # "idle" => ~running
  /\ ppc # "take" => batch = <<>>
  /\ dpc \notin {"handle", "dead"} => hand = {}
  /\ dpc # "emit" => step.fin = {}
  /\ \A x, y \in hand : x = y

\* What is being served, or may be adopted yet: close may discard the session of a
\* result that the decoder goes on to copy.
Load == psess \cup Decoding \cup InFlight

\* The limit holds with room for a whole batch: between the count of the sessions
\* and the prefill only the decoder changes them, and it takes nobody that was
\* not counted.
Room ==
  /\ MaxActive # 0 => Cardinality(Load) <= MaxActive
  /\ ppc = "take" => /\ Len(batch) <= cap
                     /\ MaxActive # 0 => Cardinality(Load) + cap <= MaxActive

\* Where a request is on its way to the prefill engine (Before) and from there to
\* the decoder and back (After).
Asked(r) == \E i \in DOMAIN tokQ : r \in tokQ[i]
Encoded(r) == \E t \in Tokenizers : r \in toker[t].on
Waiting(r) == r \in Range(pending) \cup Range(batch)
Before(r) == Asked(r) \/ Encoded(r) \/ Waiting(r)
Resulted(r) == \E i \in DOMAIN results : results[i].rid = r
Handled(r) == \E x \in hand : x.rid = r
After(r) == r \in psess \cup dsess \cup copying \cup Range(release) \/ Resulted(r) \/ Handled(r)

\* A request that may yet come to the prefill engine: no step makes more of them.
Early == {"idle", "adding", "raised"}
Coming(r) == client[r] \in Early \/ Before(r)
Fewer == \A r \in Requests : Coming(r)' => Coming(r)

\* On its way in a request is in one place, once.
Once ==
  /\ \A i, j \in DOMAIN pending : pending[i] = pending[j] => i = j
  /\ \A i, j \in DOMAIN batch : batch[i] = batch[j] => i = j
  /\ Range(pending) \cap Range(batch) = {}
  /\ \A i, j \in DOMAIN tokQ : tokQ[i] \cap tokQ[j] # {} => i = j
  /\ \A t, u \in Tokenizers : toker[t].on \cap toker[u].on # {} => t = u
  /\ \A r \in Requests : /\ ~(Asked(r) /\ Encoded(r))
                         /\ ~(Asked(r) /\ Waiting(r))
                         /\ ~(Encoded(r) /\ Waiting(r))

\* A request that was prefilled never comes back, and one that was not added is
\* nowhere.
Forward ==
  \A r \in Requests :
    /\ ~(Before(r) /\ After(r))
    /\ client[r] \in {"idle", "adding", "raised"} => ~Before(r) /\ ~After(r)

\* A result that is not final stands for a session whose copy has not begun; the
\* prefill engine has it, until close discards it.
Bound(x) ==
  ~x.fin => /\ x.rid \notin copying \cup Range(release)
            /\ running => x.rid \in psess

\* At most one result stands for a request; nothing is to be released whose copy
\* goes on.
Handover ==
  /\ \A i, j \in DOMAIN results : results[i].rid = results[j].rid => i = j
  /\ \A x \in hand : ~Resulted(x.rid)
  /\ \A i \in DOMAIN results : Bound(results[i])
  /\ \A x \in hand : Bound(x)
  /\ copying \cap Range(release) = {}
  /\ CopySafe

(***************************************************************************)
(* The inductive invariant. CopySafe alone is not inductive: a result      *)
(* handled twice would release in the second place what the first copies,  *)
(* so the invariant follows each request through the queues: it is in at   *)
(* most one place on its way in (Once), never both before and after its    *)
(* prefill (Forward), and has at most one result, which comes before its   *)
(* copy and its release (Handover).                                        *)
(***************************************************************************)
IInv == Types /\ Stages /\ Room /\ Once /\ Forward /\ Handover

-----------------------------------------------------------------------------
\* Steps that leave the queues on either side of the prefill alone.
LEMMA FrontKept ==
  ASSUME Once, UNCHANGED <<tokQ, toker, pending, batch>>
  PROVE  Once' /\ \A r : Before(r)' <=> Before(r)
<1>1. \A r : /\ Asked(r)' <=> Asked(r)
             /\ Encoded(r)' <=> Encoded(r)
             /\ Waiting(r)' <=> Waiting(r)
  BY DEF Asked, Encoded, Waiting
<1>2. Once'
  BY <1>1 DEF Once
<1> QED BY <1>1, <1>2 DEF Before

\* Discarding sessions: those of the prefill engine only when the manager is stopped.
LEMMA BackKept ==
  ASSUME Handover, UNCHANGED <<results, hand, copying, release>>,
         dsess' \subseteq dsess, psess' \subseteq psess, running' => running,
         psess' = psess \/ ~running'
  PROVE  Handover' /\ \A r : After(r)' => After(r)
<1>1. \A r : (Resulted(r)' <=> Resulted(r)) /\ (Handled(r)' <=> Handled(r))
  BY DEF Resulted, Handled
<1>2. \A x : Bound(x) => Bound(x)'
  BY DEF Bound
<1>3. CopySafe'
  BY DEF Handover, CopySafe
<1>4. Handover'
  BY <1>1, <1>2, <1>3 DEF Handover
<1>5. \A r : After(r)' => After(r)
  BY <1>1 DEF After
<1> QED BY <1>4, <1>5

\* They are finite in number.
LEMMA Bounded ==
  ASSUME Types, NEW S, S \subseteq Load
  PROVE  /\ IsFiniteSet(S) /\ IsFiniteSet(Load) /\ Load \subseteq Requests
         /\ Cardinality(S) \in Nat /\ Cardinality(Load) \in Nat
         /\ Cardinality(S) <= Cardinality(Load)
<1>1. Range(results) \subseteq Results
  BY DEF Types, Range
<1>2. InFlight \subseteq Requests
  BY <1>1 DEF InFlight, Types, Results
<1>3. Load \in SUBSET Requests /\ IsFiniteSet(Requests)
  BY <1>2, PDAssumption DEF Types, Load, Decoding
<1>4. IsFiniteSet(Load)
  BY <1>3, FS_Subset
<1>5. IsFiniteSet(S) /\ Cardinality(S) <= Cardinality(Load)
  BY <1>4, FS_Subset
<1> QED BY <1>3, <1>4, <1>5, FS_CardinalityType

\* No step adds to them but a prefill and what it counts.
LEMMA LoadKept ==
  ASSUME psess' \subseteq psess, Decoding' \subseteq Decoding, UNCHANGED <<results, hand>>
  PROVE  Load' \subseteq Load
BY DEF Load, InFlight

\* No room is lost by a step that adds no session.
LEMMA RoomKept ==
  ASSUME Types, Room, Load' \subseteq Load,
         ppc' = "take" => ppc = "take" /\ Len(batch') <= Len(batch) /\ cap' = cap,
         Len(batch') \in Nat
  PROVE  Room'
<1>1. PICK S : S = Load'
  OBVIOUS
<1>2. PICK m \in Nat, n \in Nat : m = Cardinality(S) /\ n = Cardinality(Load) /\ m <= n
  BY <1>1, Bounded
<1>3. MaxActive \in Nat /\ cap \in Nat /\ Len(batch) \in Nat
  BY PDAssumption DEF Types
<1>4. MaxActive # 0 => Cardinality(Load') <= MaxActive
  BY <1>1, <1>2, <1>3 DEF Room
<1>5. ASSUME ppc' = "take"
      PROVE  /\ Len(batch') <= cap'
             /\ MaxActive # 0 => Cardinality(Load') + cap' <= MaxActive
  <2>1. ppc = "take" /\ Len(batch') <= Len(batch) /\ cap' = cap
    BY <1>5
  <2>2. Len(batch) <= cap /\ (MaxActive # 0 => n + cap <= MaxActive)
    BY <1>2, <2>1 DEF Room
  <2> QED BY <1>1, <1>2, <1>3, <2>1, <2>2
<1> QED BY <1>4, <1>5 DEF Room

\* Nor can a request appear on both sides.
LEMMA ForwardKept ==
  ASSUME Forward, \A r \in Requests : Before(r)' => Before(r),
         \A r \in Requests : After(r)' => After(r),
         \A r \in Requests : client'[r] \in Early => client[r] \in Early
  PROVE  Forward'
BY DEF Forward, Early

\* Steps that move no request from one place to another.
LEMMA QuietInv ==
  ASSUME IInv, Types', Stages',
         UNCHANGED <<tokQ, toker, pending, batch, cap, results, hand, copying, release, psess>>,
         dsess' \subseteq dsess, Decoding' \subseteq Decoding,
         ppc' = "take" => ppc = "take", running' => running,
         \A r \in Requests : client'[r] \in Early => client[r] \in Early
  PROVE  IInv' /\ Fewer
<1>0. Types /\ Room /\ Once /\ Forward /\ Handover
  BY DEF IInv
<1>1. Once' /\ \A r : Before(r)' <=> Before(r)
  BY <1>0, FrontKept
<1>2. Handover' /\ \A r : After(r)' => After(r)
  BY <1>0, BackKept
<1>3. Forward'
  BY <1>0, <1>1, <1>2, ForwardKept
<1>4. Room'
  <2>1. Len(batch') \in Nat /\ Len(batch') <= Len(batch)
    BY <1>0 DEF Types
  <2>2. Load' \subseteq Load
    BY LoadKept
  <2> QED BY <1>0, <2>1, <2>2, RoomKept
<1>5. Fewer
  BY <1>1 DEF Fewer, Coming
<1> QED BY <1>1, <1>2, <1>3, <1>4, <1>5 DEF IInv

LEMMA QuietSteps ==
  ASSUME IInv,
         \/ \E r \in Requests : \/ Register(r) \/ AddRaises(r) \/ Open(r) \/ Read(r)
                                \/ EndStream(r) \/ Abandon(r) \/ CopyEnds(r)
         \/ CountRaises \/ Step \/ Emit \/ DecodeRaises \/ UNCHANGED vars
  PROVE  IInv' /\ Fewer
<1>0. Types /\ Stages
  BY DEF IInv
<1>1. CASE \E r \in Requests : \/ Register(r) \/ AddRaises(r) \/ Open(r) \/ Read(r)
                               \/ EndStream(r) \/ Abandon(r)
  <2>1. PICK r \in Requests : \/ Register(r) \/ AddRaises(r) \/ Open(r) \/ Read(r)
                              \/ EndStream(r) \/ Abandon(r)
    BY <1>1
  <2>2. /\ UNCHANGED <<running, tokQ, toker, pending, ppc, batch, cap, psess, results, dpc, hand, step>>
        /\ UNCHANGED <<dsess, copying, copied, release, closer>>
    BY <2>1 DEF Register, AddRaises, Open, Read, EndStream, Abandon, Leave, tokenize, prefill,
                decode, copies
  <2>3. PICK c \in {"adding", "raised", "open", "read", "done", "gone"} :
          \/ client' = [client EXCEPT ![r] = c] /\ (c \in Early => client[r] \in Early)
          \/ client' = client
    BY <2>1 DEF Register, AddRaises, Open, Read, EndStream, Abandon, Leave, Early
  <2>4. Types' /\ Stages' /\ \A q \in Requests : client'[q] \in Early => client[q] \in Early
    BY <1>0, <2>2, <2>3 DEF Types, Stages
  <2>5. Decoding' \subseteq Decoding
    BY <2>2 DEF Decoding
  <2> QED BY <2>2, <2>4, <2>5, QuietInv
<1>2. CASE \E r \in Requests : CopyEnds(r)
  <2>1. /\ UNCHANGED <<running, tokQ, toker, pending, ppc, batch, cap, psess, results, dpc, hand, step>>
        /\ UNCHANGED <<dsess, copying, release, client, closer>>
        /\ copied \subseteq copying => copied' \subseteq copying
    BY <1>2 DEF CopyEnds, tokenize, prefill, decode, clients
  <2>2. Types' /\ Stages'
    BY <1>0, <2>1 DEF Types, Stages
  <2>3. Decoding' \subseteq Decoding
    BY <2>1 DEF Decoding
  <2> QED BY <2>1, <2>2, <2>3, QuietInv
<1>3. CASE CountRaises
  <2>1. /\ UNCHANGED <<tokQ, toker, pending, batch, cap, psess, results, dpc, hand, step>>
        /\ UNCHANGED <<dsess, copying, copied, release, client, closer>>
        /\ running' = FALSE /\ ppc' = "dead" /\ (ppc = "count" \/ batch = <<>>)
    BY <1>3 DEF CountRaises, Counting, tokenize, decode, clients, copies
  <2>2. Types' /\ Stages'
    BY <1>0, <2>1 DEF Types, Stages
  <2>3. Decoding' \subseteq Decoding
    BY <2>1 DEF Decoding
  <2> QED BY <2>1, <2>2, <2>3, QuietInv
<1>4. CASE Step \/ Emit
  <2>1. /\ UNCHANGED <<running, tokQ, toker, pending, ppc, batch, cap, psess, results, hand>>
        /\ UNCHANGED <<copying, copied, release, client, closer>>
        /\ dsess' \subseteq dsess \ step.fin /\ dpc \in {"ingest", "emit"}
        /\ dpc' = "emit" \/ (dpc' = "top" /\ step'.fin = {})
    <3>1. CASE Step
      BY <1>0, <3>1 DEF Step, Stages, tokenize, prefill, clients, copies
    <3>2. CASE Emit
      BY <3>2 DEF Emit, Keeps, Nothing, tokenize, prefill, clients, copies
    <3> QED BY <1>4, <3>1, <3>2
  <2>2. Types' /\ Stages'
    BY <1>0, <2>1 DEF Types, Stages
  <2>3. Decoding' \subseteq Decoding
    BY <2>1 DEF Decoding
  <2> QED BY <2>1, <2>2, <2>3, QuietInv
<1>5. CASE DecodeRaises
  <2>1. /\ UNCHANGED <<tokQ, toker, pending, ppc, batch, cap, psess, results, hand, step>>
        /\ UNCHANGED <<dsess, copying, copied, release, client, closer>>
        /\ running' = FALSE /\ dpc \in {"ingest", "handle"} /\ dpc' = "dead"
    BY <1>5 DEF DecodeRaises, StepRaises, CopyRaises, tokenize, prefill, clients, copies
  <2>2. Types' /\ Stages'
    BY <1>0, <2>1 DEF Types, Stages
  <2>3. Decoding' \subseteq Decoding
    BY <2>1 DEF Decoding
  <2> QED BY <2>1, <2>2, <2>3, QuietInv
<1>6. CASE UNCHANGED vars
  <2>1. /\ UNCHANGED <<running, tokQ, toker, pending, ppc, batch, cap, psess, results, dpc, hand, step>>
        /\ UNCHANGED <<dsess, copying, copied, release, client, closer>>
    BY <1>6 DEF vars, tokenize, prefill, decode, copies, clients
  <2>2. Types' /\ Stages'
    BY <1>0, <2>1 DEF Types, Stages
  <2>3. Decoding' \subseteq Decoding
    BY <2>1 DEF Decoding
  <2> QED BY <2>1, <2>2, <2>3, QuietInv
<1> QED BY <1>1, <1>2, <1>3, <1>4, <1>5, <1>6

-----------------------------------------------------------------------------
\* The invariant holds at first.
LEMMA InitInv == Init => IInv
<1> SUFFICES ASSUME Init PROVE IInv
  OBVIOUS
<1>1. /\ tokQ = <<>> /\ pending = <<>> /\ batch = <<>> /\ results = <<>> /\ release = <<>>
      /\ hand = {} /\ copying = {} /\ copied = {} /\ psess = {} /\ dsess = {}
      /\ toker = [t \in Tokenizers |-> Idle] /\ client = [r \in Requests |-> "idle"]
      /\ running = TRUE /\ ppc = "count" /\ cap = 0 /\ dpc = "top" /\ closer = Idle
      /\ step = Nothing
  BY DEF Init
<1>2. Range(pending) = {} /\ Range(batch) = {} /\ Range(release) = {}
  BY <1>1 DEF Range
<1>3. \A r : ~Before(r) /\ ~After(r)
  BY <1>1, <1>2 DEF Before, After, Asked, Encoded, Waiting, Resulted, Handled, Idle
<1>4. Types /\ Stages
  BY <1>1 DEF Types, Stages, Tasks, Idle, Nothing
<1>5. Room
  <2>1. Range(results) = {}
    BY <1>1 DEF Range
  <2>2. Load = {}
    BY <1>1, <2>1 DEF Load, Decoding, InFlight, Nothing
  <2>3. Cardinality(Load) = 0 /\ MaxActive \in Nat
    BY <2>2, FS_EmptySet, PDAssumption
  <2> QED BY <1>1, <2>3 DEF Room
<1>6. Once
  BY <1>1, <1>2 DEF Once, Asked, Encoded, Waiting, Idle
<1>7. Forward
  BY <1>3 DEF Forward
<1>8. Handover
  BY <1>1, <1>2 DEF Handover, CopySafe
<1> QED BY <1>4, <1>5, <1>6, <1>7, <1>8 DEF IInv

\* Steps of the queues in front of the engines.
LEMMA FrontInv ==
  ASSUME IInv, Types', Stages', Once', Room',
         UNCHANGED <<results, hand, copying, release, dsess, psess>>,
         running' => running,
         \A r \in Requests : Before(r)' => Before(r) \/ (client[r] = "adding" /\ client'[r] = "added"),
         \A r \in Requests : client'[r] \in Early => client[r] \in Early
  PROVE  IInv' /\ Fewer
<1>1. Handover' /\ \A r : After(r)' => After(r)
  BY BackKept DEF IInv
<1>2. Forward'
  BY <1>1 DEF Forward, Early, IInv
<1>3. Fewer
  BY DEF Fewer, Coming, Early
<1> QED BY <1>1, <1>2, <1>3 DEF IInv

\* A request is pending, or a task, once.
LEMMA SubmitInv == ASSUME IInv, NEW r \in Requests, Submit(r) PROVE IInv' /\ Fewer
<1>0. Types /\ Stages /\ Room /\ Once /\ Forward
  BY DEF IInv
<1>1. /\ UNCHANGED <<running, toker, ppc, batch, cap, psess, results, dpc, hand, step>>
      /\ UNCHANGED <<dsess, copying, copied, release, closer>>
      /\ client[r] = "adding" /\ client' = [client EXCEPT ![r] = "added"]
  BY DEF Submit, prefill, decode, copies
<1>2. ~Asked(r) /\ ~Encoded(r) /\ ~Waiting(r)
  BY <1>0, <1>1 DEF Forward, Before
<1>3. \A q \in Requests : client'[q] \in Early => client[q] \in Early
  BY <1>0, <1>1 DEF Types, Early
<1>4. client'[r] = "added"
  BY <1>0, <1>1 DEF Types
<1>5. Room'
  <2>1. Len(batch') \in Nat /\ Len(batch') <= Len(batch)
    BY <1>0, <1>1 DEF Types
  <2>2. Load' \subseteq Load
    BY <1>1, LoadKept DEF Decoding
  <2> QED BY <1>0, <1>1, <2>1, <2>2, RoomKept
<1>6. CASE pending' = Append(pending, r) /\ UNCHANGED tokQ
  <2>1. PICK n \in Nat : /\ pending' \in Seq(Requests) /\ DOMAIN pending' = DOMAIN pending \cup {n}
                         /\ n \notin DOMAIN pending /\ pending'[n] = r
                         /\ \A i \in DOMAIN pending : pending'[i] = pending[i]
                         /\ Range(pending') = Range(pending) \cup {r}
    <3>1. pending \in Seq(Requests) /\ Len(pending) + 1 \in Nat
      BY <1>0 DEF Types
    <3> QED BY <1>6, <3>1, AppendFacts
  <2>2. /\ \A q : Asked(q)' <=> Asked(q)
        /\ \A q : Encoded(q)' <=> Encoded(q)
        /\ \A q : Waiting(q)' <=> (Waiting(q) \/ q = r)
    BY <1>1, <1>6, <2>1 DEF Asked, Encoded, Waiting
  <2>3. Types' /\ Stages'
    BY <1>0, <1>1, <1>6, <2>1 DEF Types, Stages
  <2>4. \A i \in DOMAIN pending : pending[i] # r
    BY <1>2 DEF Waiting, Range
  <2>5. \A i, j \in DOMAIN pending' : pending'[i] = pending'[j] => i = j
    BY <1>0, <2>1, <2>4 DEF Once
  <2>6. r \notin Range(batch)
    BY <1>2 DEF Waiting
  <2>7. Once'
    BY <1>0, <1>1, <1>2, <1>6, <2>1, <2>2, <2>5, <2>6 DEF Once
  <2> QED BY <1>1, <1>3, <1>4, <1>5, <2>2, <2>3, <2>7, FrontInv DEF Before
<1>7. CASE tokQ' = Append(tokQ, {r}) /\ UNCHANGED pending
  <2>0. {r} \in Tasks /\ tokQ \in Seq(Tasks)
    BY <1>0 DEF Tasks, Types
  <2>1. PICK n \in Nat : /\ tokQ' \in Seq(Tasks) /\ DOMAIN tokQ' = DOMAIN tokQ \cup {n}
                         /\ n \notin DOMAIN tokQ /\ tokQ'[n] = {r}
                         /\ \A i \in DOMAIN tokQ : tokQ'[i] = tokQ[i]
    BY <1>7, <2>0, AppendFacts
  <2>2. /\ \A q : Asked(q)' <=> (Asked(q) \/ q = r)
        /\ \A q : Encoded(q)' <=> Encoded(q)
        /\ \A q : Waiting(q)' <=> Waiting(q)
    BY <1>1, <1>7, <2>1 DEF Asked, Encoded, Waiting
  <2>3. Types' /\ Stages'
    BY <1>0, <1>1, <1>7, <2>1 DEF Types, Stages
  <2>4. \A i \in DOMAIN tokQ : r \notin tokQ[i]
    BY <1>2 DEF Asked
  <2>5. \A i, j \in DOMAIN tokQ' : tokQ'[i] \cap tokQ'[j] # {} => i = j
    BY <1>0, <2>1, <2>4 DEF Once
  <2>7. Once'
    BY <1>0, <1>1, <1>2, <1>7, <2>1, <2>2, <2>5 DEF Once
  <2> QED BY <1>1, <1>3, <1>4, <1>5, <2>2, <2>3, <2>7, FrontInv DEF Before
<1> QED BY <1>6, <1>7 DEF Submit

\* A task moves to a thread, from there to the pending requests.
LEMMA TakeTaskInv == ASSUME IInv, NEW t \in Tokenizers, TakeTask(t) PROVE IInv' /\ Fewer
<1>0. Types /\ Stages /\ Room /\ Once /\ Forward
  BY DEF IInv
<1>1. /\ UNCHANGED <<running, pending, ppc, batch, cap, psess, results, dpc, hand, step>>
      /\ UNCHANGED <<dsess, copying, copied, release, client, closer>>
      /\ tokQ # <<>> /\ tokQ' = Tail(tokQ)
  BY DEF TakeTask, prefill, decode, copies, clients
<1>2. PICK on \in {{}, Head(tokQ)}, at \in {"idle", "encode", "dead"} :
        toker' = [toker EXCEPT ![t] = [at |-> at, on |-> on]]
  BY DEF TakeTask, Idle
<1>3. /\ tokQ' \in Seq(Tasks) /\ Head(tokQ) \in Tasks /\ Head(tokQ) = tokQ[1] /\ 1 \in DOMAIN tokQ
      /\ \A i \in DOMAIN tokQ' : i + 1 \in DOMAIN tokQ /\ i \in Nat \ {0} /\ tokQ'[i] = tokQ[i + 1]
  BY <1>0, <1>1, TailFacts DEF Types
<1>4. on \in Tasks /\ on \subseteq Head(tokQ)
  BY <1>3 DEF Tasks
<1>5. toker' \in [Tokenizers -> [at : {"idle", "encode", "dead"}, on : Tasks]]
  BY <1>0, <1>2, <1>4 DEF Types
<1>6. /\ toker'[t].on = on
      /\ \A u \in Tokenizers \ {t} : toker'[u] = toker[u]
  BY <1>0, <1>2 DEF Types
<1>7. Types' /\ Stages'
  BY <1>0, <1>1, <1>3, <1>5 DEF Types, Stages
<1>8. \A q : Waiting(q)' <=> Waiting(q)
  BY <1>1 DEF Waiting
<1>9. \A q : Asked(q)' => Asked(q) /\ q \notin Head(tokQ)
  <2> SUFFICES ASSUME NEW q, NEW i \in DOMAIN tokQ', q \in tokQ'[i]
               PROVE  Asked(q) /\ q \notin tokQ[1]
    BY <1>3 DEF Asked
  <2>1. i + 1 \in DOMAIN tokQ /\ q \in tokQ[i + 1] /\ i + 1 # 1
    BY <1>3
  <2> QED BY <1>0, <1>3, <2>1 DEF Asked, Once
<1>10. \A q \in Head(tokQ) : Asked(q)
  BY <1>3 DEF Asked
<1>11. \A q : Encoded(q)' => (Encoded(q) /\ q \notin Head(tokQ)) \/ q \in Head(tokQ)
  BY <1>4, <1>6 DEF Encoded
<1>12. \A i, j \in DOMAIN tokQ' : tokQ'[i] \cap tokQ'[j] # {} => i = j
  <2> SUFFICES ASSUME NEW i \in DOMAIN tokQ', NEW j \in DOMAIN tokQ', tokQ'[i] \cap tokQ'[j] # {}
               PROVE  i = j
    OBVIOUS
  <2>1. i + 1 = j + 1
    BY <1>0, <1>3 DEF Once
  <2> QED BY <1>3, <2>1
<1>13. \A q \in Head(tokQ) : q \in Requests /\ ~Encoded(q)
  BY <1>0, <1>3, <1>10 DEF Once, Tasks
<1>14. \A u, v \in Tokenizers : toker'[u].on \cap toker'[v].on # {} => u = v
  BY <1>0, <1>4, <1>6, <1>13 DEF Once, Encoded
<1>15. Once'
  <2>1. \A q \in Requests : /\ ~(Asked(q)' /\ Encoded(q)')
                            /\ ~(Asked(q)' /\ Waiting(q)')
                            /\ ~(Encoded(q)' /\ Waiting(q)')
    BY <1>0, <1>8, <1>9, <1>10, <1>11 DEF Once
  <2> QED BY <1>0, <1>1, <1>12, <1>14, <2>1 DEF Once
<1>16. \A q : Before(q)' => Before(q)
  BY <1>8, <1>9, <1>10, <1>11 DEF Before
<1>17. Room'
  <2>1. Len(batch') \in Nat /\ Len(batch') <= Len(batch)
    BY <1>0, <1>1 DEF Types
  <2>2. Load' \subseteq Load
    BY <1>1, LoadKept DEF Decoding
  <2> QED BY <1>0, <1>1, <2>1, <2>2, RoomKept
<1> QED BY <1>1, <1>7, <1>15, <1>16, <1>17, FrontInv

LEMMA EncodeInv == ASSUME IInv, NEW t \in Tokenizers, Encode(t) PROVE IInv' /\ Fewer
<1>0. Types /\ Stages /\ Room /\ Once /\ Forward
  BY DEF IInv
<1>1. /\ UNCHANGED <<running, tokQ, ppc, batch, cap, psess, results, dpc, hand, step>>
      /\ UNCHANGED <<dsess, copying, copied, release, client, closer>>
      /\ toker' = [toker EXCEPT ![t] = Idle]
  BY DEF Encode, prefill, decode, copies, clients
<1>2. PICK on : on = toker[t].on
  OBVIOUS
<1>3. on \in Tasks
  BY <1>0, <1>2 DEF Types
<1>4. IsFiniteSet(on) /\ on \subseteq Requests
  BY <1>3, FS_EmptySet, FS_Singleton DEF Tasks
<1>5. PICK q : /\ q \in Seq(on)
               /\ \A i, j \in DOMAIN q : q[i] = q[j] => i = j
               /\ pending' \in {pending, pending \o q}
  BY <1>2, <1>4, SetToSeqFacts DEF Encode
<1>6. q \in Seq(Requests) /\ Range(q) \subseteq on /\ \A i \in DOMAIN q : q[i] \in on
  BY <1>4, <1>5, SeqFacts
<1>7. toker' \in [Tokenizers -> [at : {"idle", "encode", "dead"}, on : Tasks]]
  BY <1>0, <1>1 DEF Types, Idle, Tasks
<1>8. /\ toker'[t].on = {}
      /\ \A u \in Tokenizers \ {t} : toker'[u] = toker[u]
  BY <1>0, <1>1 DEF Types, Idle
<1>9. PICK m : m = Len(pending)
  OBVIOUS
<1>10. /\ pending' \in Seq(Requests)
       /\ Range(pending') \subseteq Range(pending) \cup on
       /\ \A i \in DOMAIN pending' : \/ i \in DOMAIN pending /\ pending'[i] = pending[i]
                                     \/ i - m \in DOMAIN q /\ i = m + (i - m) /\ pending'[i] = q[i - m]
  <2>1. CASE pending' = pending
    BY <1>0, <2>1 DEF Types
  <2>2. CASE pending' = pending \o q
    <3>1. pending \in Seq(Requests)
      BY <1>0 DEF Types
    <3>2. /\ pending' \in Seq(Requests)
          /\ \A i \in DOMAIN pending : i \in DOMAIN pending' /\ pending'[i] = pending[i]
          /\ \A i \in DOMAIN q : pending'[m + i] = q[i]
          /\ \A i \in DOMAIN pending' : i \in DOMAIN pending \/ (i - m \in DOMAIN q /\ i = m + (i - m))
          /\ Range(pending') = Range(pending) \cup Range(q)
      BY <1>6, <1>9, <2>2, <3>1, ConcatFacts
    <3>3. \A i \in DOMAIN pending' : \/ i \in DOMAIN pending /\ pending'[i] = pending[i]
                                     \/ i - m \in DOMAIN q /\ i = m + (i - m) /\ pending'[i] = q[i - m]
      <4> SUFFICES ASSUME NEW i \in DOMAIN pending', i \notin DOMAIN pending
                   PROVE  i - m \in DOMAIN q /\ i = m + (i - m) /\ pending'[i] = q[i - m]
        BY <3>2
      <4>1. i - m \in DOMAIN q /\ i = m + (i - m)
        BY <3>2
      <4>2. PICK k : k = i - m
        OBVIOUS
      <4>3. k \in DOMAIN q /\ i = m + k
        BY <4>1, <4>2
      <4>4. pending'[i] = q[k]
        BY <3>2, <4>3
      <4> QED BY <4>1, <4>2, <4>4
    <3> QED BY <1>6, <3>2, <3>3
  <2> QED BY <1>5, <2>1, <2>2
<1>11. \A x \in on : Encoded(x) /\ x \in Requests /\ ~Waiting(x) /\ ~Asked(x)
  BY <1>0, <1>2, <1>4 DEF Encoded, Once
<1>12. \A x : Encoded(x)' => Encoded(x) /\ x \notin on
  BY <1>0, <1>2, <1>8 DEF Encoded, Once
<1>13. \A x : Asked(x)' <=> Asked(x)
  BY <1>1 DEF Asked
<1>14. \A x : Waiting(x)' => Waiting(x) \/ x \in on
  BY <1>1, <1>10 DEF Waiting
<1>15. \A i, j \in DOMAIN pending' : pending'[i] = pending'[j] => i = j
  <2> SUFFICES ASSUME NEW i \in DOMAIN pending', NEW j \in DOMAIN pending', pending'[i] = pending'[j]
               PROVE  i = j
    OBVIOUS
  <2>1. \A k \in DOMAIN pending : pending[k] \notin on
    BY <1>11 DEF Waiting, Range
  <2>2. CASE i \in DOMAIN pending /\ pending'[i] = pending[i] /\ j \in DOMAIN pending /\ pending'[j] = pending[j]
    BY <1>0, <2>2 DEF Once
  <2>3. CASE i - m \in DOMAIN q /\ i = m + (i - m) /\ pending'[i] = q[i - m]
    <3>1. pending'[i] \in on
      BY <1>6, <2>3
    <3>2. j - m \in DOMAIN q /\ j = m + (j - m) /\ pending'[j] = q[j - m]
      BY <1>10, <2>1, <3>1
    <3>3. i - m = j - m
      BY <1>5, <2>3, <3>2
    <3> QED BY <2>3, <3>2, <3>3
  <2>4. CASE j - m \in DOMAIN q /\ j = m + (j - m) /\ pending'[j] = q[j - m]
    <3>1. pending'[j] \in on
      BY <1>6, <2>4
    <3>2. i - m \in DOMAIN q /\ i = m + (i - m) /\ pending'[i] = q[i - m]
      BY <1>10, <2>1, <3>1
    <3>3. i - m = j - m
      BY <1>5, <2>4, <3>2
    <3> QED BY <2>4, <3>2, <3>3
  <2> QED BY <1>10, <2>2, <2>3, <2>4
<1>16. Once'
  <2>1. \A x \in Requests : /\ ~(Asked(x)' /\ Encoded(x)')
                            /\ ~(Asked(x)' /\ Waiting(x)')
                            /\ ~(Encoded(x)' /\ Waiting(x)')
    BY <1>0, <1>11, <1>12, <1>13, <1>14 DEF Once
  <2>2. Range(pending') \cap Range(batch') = {}
    BY <1>0, <1>1, <1>10, <1>11 DEF Once, Waiting
  <2>3. \A u, v \in Tokenizers : toker'[u].on \cap toker'[v].on # {} => u = v
    BY <1>0, <1>8 DEF Once
  <2> QED BY <1>0, <1>1, <1>15, <2>1, <2>2, <2>3 DEF Once
<1>17. \A x : Before(x)' => Before(x)
  BY <1>11, <1>12, <1>13, <1>14 DEF Before
<1>18. Types' /\ Stages'
  BY <1>0, <1>1, <1>7, <1>10 DEF Types, Stages
<1>19. Room'
  <2>1. Len(batch') \in Nat /\ Len(batch') <= Len(batch)
    BY <1>0, <1>1 DEF Types
  <2>2. Load' \subseteq Load
    BY <1>1, LoadKept DEF Decoding
  <2> QED BY <1>0, <1>1, <2>1, <2>2, RoomKept
<1> QED BY <1>1, <1>16, <1>17, <1>18, <1>19, FrontInv

\* close adds only the tasks that stop the threads.
LEMMA CloseInv == ASSUME IInv, Close PROVE IInv' /\ Fewer
<1>0. Types /\ Stages /\ Room /\ Once /\ Forward
  BY DEF IInv
<1>1. /\ UNCHANGED <<toker, pending, ppc, batch, cap, psess, results, dpc, hand, step>>
      /\ UNCHANGED <<dsess, copying, copied, release, client>>
      /\ running' = FALSE
  BY DEF Close, prefill, decode, copies, clients
<1>2. PICK q : q = [i \in 1..Cardinality(Tokenizers) |-> {}]
  OBVIOUS
<1>3. Cardinality(Tokenizers) \in Nat /\ {} \in Tasks
  BY PDAssumption, FS_CardinalityType DEF Tasks
<1>4. q \in Seq(Tasks) /\ \A i \in DOMAIN q : q[i] = {}
  <2>1. PICK n \in Nat : n = Cardinality(Tokenizers)
    BY <1>3
  <2>2. q \in [1..n -> Tasks] /\ \A i \in 1..n : q[i] = {}
    BY <1>2, <1>3, <2>1
  <2> QED BY <2>2
<1>5. PICK p : p = tokQ
  OBVIOUS
<1>6. p \in Seq(Tasks) /\ tokQ' = p \o q
  BY <1>0, <1>2, <1>5 DEF Types, Close
<1>7. PICK m : m = Len(p)
  OBVIOUS
<1>8. /\ tokQ' \in Seq(Tasks)
      /\ \A i \in DOMAIN p : i \in DOMAIN tokQ' /\ tokQ'[i] = p[i]
      /\ \A i \in DOMAIN q : tokQ'[m + i] = q[i]
      /\ \A i \in DOMAIN tokQ' : i \in DOMAIN p \/ (i - m \in DOMAIN q /\ i = m + (i - m))
  BY <1>4, <1>6, <1>7, ConcatFacts
<1>9. \A i \in DOMAIN tokQ' : (i \in DOMAIN p /\ tokQ'[i] = p[i]) \/ tokQ'[i] = {}
  <2> SUFFICES ASSUME NEW i \in DOMAIN tokQ', i \notin DOMAIN p PROVE tokQ'[i] = {}
    BY <1>8
  <2>1. PICK k : k = i - m
    OBVIOUS
  <2>2. k \in DOMAIN q /\ i = m + k
    BY <1>8, <2>1
  <2> QED BY <1>4, <1>8, <2>2
<1>10. /\ \A r : Asked(r)' => Asked(r)
       /\ \A r : Encoded(r)' <=> Encoded(r)
       /\ \A r : Waiting(r)' <=> Waiting(r)
  BY <1>1, <1>5, <1>9 DEF Asked, Encoded, Waiting
<1>11. \A i, j \in DOMAIN tokQ' : tokQ'[i] \cap tokQ'[j] # {} => i = j
  BY <1>0, <1>5, <1>9 DEF Once
<1>12. Once'
  BY <1>0, <1>1, <1>10, <1>11 DEF Once
<1>13. Types' /\ Stages'
  BY <1>0, <1>1, <1>8 DEF Types, Stages
<1>14. Room'
  <2>1. Len(batch') \in Nat /\ Len(batch') <= Len(batch)
    BY <1>0, <1>1 DEF Types
  <2>2. Load' \subseteq Load
    BY <1>1, LoadKept DEF Decoding
  <2> QED BY <1>0, <1>1, <2>1, <2>2, RoomKept
<1> QED BY <1>1, <1>10, <1>12, <1>13, <1>14, FrontInv DEF Before

\* A batch grows by a pending request while it is below the count.
LEMMA TakeOneInv == ASSUME IInv, TakeOne PROVE IInv' /\ Fewer
<1>0. Types /\ Stages /\ Room /\ Once /\ Forward
  BY DEF IInv
<1>1. /\ UNCHANGED <<running, tokQ, toker, ppc, cap, psess, results, dpc, hand, step>>
      /\ UNCHANGED <<dsess, copying, copied, release, client, closer>>
      /\ pending # <<>> /\ pending' = Tail(pending) /\ ppc = "take"
  BY DEF TakeOne, tokenize, decode, copies, clients
<1>2. pending \in Seq(Requests) /\ batch \in Seq(Requests) /\ Len(batch) \in Nat /\ cap \in Nat
  BY <1>0 DEF Types
<1>3. PICK r : r = Head(pending)
  OBVIOUS
<1>4. batch' \in {batch, Append(batch, r)} /\ Len(batch) < cap
  BY <1>2, <1>3 DEF TakeOne, BatchFull
<1>5. /\ pending' \in Seq(Requests) /\ r \in Requests /\ r = pending[1] /\ 1 \in DOMAIN pending
      /\ \A i \in DOMAIN pending' : i + 1 \in DOMAIN pending /\ i \in Nat \ {0} /\ pending'[i] = pending[i + 1]
  BY <1>1, <1>2, <1>3, TailFacts
<1>6. /\ Range(pending') \subseteq Range(pending) \ {r}
      /\ r \in Range(pending)
  <2>1. r \in Range(pending)
    BY <1>5 DEF Range
  <2>2. ASSUME NEW i \in DOMAIN pending' PROVE pending'[i] \in Range(pending) \ {r}
    <3>1. i + 1 \in DOMAIN pending /\ pending'[i] = pending[i + 1] /\ i + 1 # 1
      BY <1>5
    <3> QED BY <1>0, <1>5, <3>1 DEF Once, Range
  <2> QED BY <2>1, <2>2 DEF Range
<1>7. \A i, j \in DOMAIN pending' : pending'[i] = pending'[j] => i = j
  <2> SUFFICES ASSUME NEW i \in DOMAIN pending', NEW j \in DOMAIN pending', pending'[i] = pending'[j]
               PROVE  i = j
    OBVIOUS
  <2>1. i + 1 = j + 1
    BY <1>0, <1>5 DEF Once
  <2> QED BY <1>5, <2>1
<1>8. \A i \in DOMAIN batch : batch[i] # r
  BY <1>0, <1>6 DEF Once, Range
<1>9. /\ batch' \in Seq(Requests) /\ Len(batch') \in Nat /\ Len(batch') <= cap
      /\ Range(batch') \subseteq Range(batch) \cup {r}
      /\ \A i, j \in DOMAIN batch' : batch'[i] = batch'[j] => i = j
  <2>1. CASE batch' = batch
    BY <1>0, <1>2, <1>4, <2>1 DEF Once
  <2>2. CASE batch' = Append(batch, r)
    <3>1. PICK n \in Nat : n = Len(batch) + 1
      BY <1>2
    <3>2. /\ batch' \in Seq(Requests) /\ Len(batch') = n
          /\ DOMAIN batch' = DOMAIN batch \cup {n} /\ n \notin DOMAIN batch
          /\ batch'[n] = r
          /\ \A i \in DOMAIN batch : batch'[i] = batch[i]
          /\ Range(batch') = Range(batch) \cup {r}
      BY <1>2, <1>5, <2>2, <3>1, AppendFacts
    <3>3. n <= cap
      BY <1>2, <1>4, <3>1
    <3>4. \A i, j \in DOMAIN batch' : batch'[i] = batch'[j] => i = j
      BY <1>0, <1>8, <3>2 DEF Once
    <3> QED BY <3>2, <3>3, <3>4
  <2> QED BY <1>4, <2>1, <2>2
<1>10. Room'
  <2>1. Load' = Load
    BY <1>1 DEF Load, InFlight, Decoding
  <2> QED BY <1>0, <1>1, <1>9, <2>1 DEF Room
<1>11. Types' /\ Stages'
  BY <1>0, <1>1, <1>5, <1>9 DEF Types, Stages
<1>12. /\ \A x : Asked(x)' <=> Asked(x)
       /\ \A x : Encoded(x)' <=> Encoded(x)
       /\ \A x : Waiting(x)' => Waiting(x)
  BY <1>1, <1>6, <1>9 DEF Asked, Encoded, Waiting
<1>13. Range(pending') \cap Range(batch') = {}
  BY <1>0, <1>6, <1>9 DEF Once
<1>14. Once'
  BY <1>0, <1>1, <1>7, <1>9, <1>12, <1>13 DEF Once
<1> QED BY <1>1, <1>10, <1>11, <1>12, <1>14, FrontInv DEF Before

\* Steps behind them.
LEMMA BackInv ==
  ASSUME IInv, Types', Stages', Room', Handover',
         UNCHANGED <<tokQ, toker, pending, batch, client>>, \A r \in Requests : After(r)' => After(r)
  PROVE  IInv' /\ Fewer
<1>1. Once' /\ \A r : Before(r)' <=> Before(r)
  BY FrontKept DEF IInv
<1>2. Forward'
  BY <1>1 DEF Forward, IInv
<1>3. Fewer
  BY <1>1 DEF Fewer, Coming
<1> QED BY <1>1, <1>2, <1>3 DEF IInv

\* The count: nothing that is copied is released, and the batch to come fits.
LEMMA CountInv == ASSUME IInv, Count PROVE IInv' /\ Fewer
<1>0. Types /\ Stages /\ Room /\ Handover
  BY DEF IInv
<1>1. /\ UNCHANGED <<running, tokQ, toker, pending, batch, results, dpc, hand>>
      /\ UNCHANGED <<step, dsess, copying, copied, client, closer>>
      /\ psess' = psess \ Range(release) /\ release' = <<>> /\ batch = <<>>
  BY <1>0 DEF Count, Counting, tokenize, decode, clients, Stages
<1>2. Range(release') = {} /\ release' \in Seq(Requests)
  BY <1>1 DEF Range
<1>3. PICK n \in Nat, m \in Nat : n = Cardinality(Decoding) /\ m = Cardinality(psess')
  <2>1. IsFiniteSet(psess') /\ IsFiniteSet(Decoding)
    BY <1>0, <1>1, PDAssumption, FS_Subset DEF Types, Decoding
  <2> QED BY <2>1, FS_CardinalityType
<1>4. MaxActive \in Nat /\ MaxPrefill \in Nat /\ ActiveUnfinished = n + m
  BY <1>1, <1>3, PDAssumption DEF ActiveUnfinished
<1>5. /\ AdmitCap \in Int
      /\ MaxActive # 0 => AdmitCap <= MaxActive - (n + m)
  BY <1>4 DEF AdmitCap
<1>6. /\ cap' \in Nat /\ ppc' \in {"count", "take", "dead"}
      /\ ppc' = "take" => cap' = AdmitCap /\ running
  BY <1>5 DEF Count
<1>7. Types' /\ Stages'
  BY <1>0, <1>1, <1>2, <1>6 DEF Types, Stages
<1>8. Load' \subseteq Load
  BY <1>1, LoadKept DEF Decoding
<1>9. \A x : Bound(x) => Bound(x)' /\ (running' /\ ~x.fin => x.rid \in psess')
  BY <1>1, <1>2 DEF Bound
<1>10. \A r : (Resulted(r)' <=> Resulted(r)) /\ (Handled(r)' <=> Handled(r))
  BY <1>1 DEF Resulted, Handled
<1>11. CopySafe'
  BY <1>0, <1>1 DEF Handover, CopySafe
<1>12. Handover'
  BY <1>0, <1>1, <1>2, <1>9, <1>10, <1>11 DEF Handover
<1>13. \A r : After(r)' => After(r)
  BY <1>1, <1>2, <1>10 DEF After
<1>14. ASSUME ppc' = "take", MaxActive # 0
       PROVE  Cardinality(Load') + cap' <= MaxActive
  <2>1. InFlight' \subseteq psess'
    <3>1. \A x \in Range(results) \cup hand : Bound(x)
      BY <1>0 DEF Handover, Range
    <3>2. running'
      BY <1>1, <1>6, <1>14
    <3> QED BY <1>1, <1>9, <3>1, <3>2 DEF InFlight
  <2>2. PICK D : D = Decoding /\ D = Decoding'
    BY <1>1 DEF Decoding
  <2>3. Load' = psess' \cup D
    BY <2>1, <2>2 DEF Load
  <2>4. IsFiniteSet(psess') /\ IsFiniteSet(D)
    BY <1>0, <1>1, <2>2, PDAssumption, FS_Subset DEF Types, Decoding
  <2>5. PICK i \in Nat : i = Cardinality(psess' \cap D)
    BY <2>4, FS_Subset, FS_CardinalityType
  <2>6. PICK j \in Nat : j = Cardinality(psess' \cup D)
    BY <2>4, FS_Union, FS_CardinalityType
  <2>7. j = m + n - i
    BY <1>3, <2>2, <2>4, <2>5, <2>6, FS_Union
  <2>8. cap' = AdmitCap
    BY <1>6, <1>14
  <2> QED BY <1>4, <1>5, <1>14, <2>3, <2>5, <2>6, <2>7, <2>8
<1>15. Room'
  <2>1. MaxActive # 0 => Cardinality(Load') <= MaxActive
    <3>1. PICK S : S = Load'
      OBVIOUS
    <3>2. PICK k \in Nat, l \in Nat : k = Cardinality(S) /\ l = Cardinality(Load) /\ k <= l
      BY <1>0, <1>8, <3>1, Bounded
    <3> QED BY <1>0, <1>4, <3>1, <3>2 DEF Room
  <2>2. Len(batch') = 0
    BY <1>1
  <2> QED BY <1>6, <1>14, <2>1, <2>2 DEF Room
<1> QED BY <1>1, <1>7, <1>12, <1>13, <1>15, BackInv

\* Complete copies become releases.
LEMMA StartRoundInv == ASSUME IInv, StartRound PROVE IInv' /\ Fewer
<1>0. Types /\ Stages /\ Room /\ Handover
  BY DEF IInv
<1>1. /\ UNCHANGED <<running, tokQ, toker, pending, ppc, batch, cap, psess, results, hand, step>>
      /\ UNCHANGED <<dsess, client, closer>>
      /\ dpc \in {"top", "ingest"} /\ dpc' = IF running THEN "ingest" ELSE "dead"
  BY DEF StartRound, tokenize, prefill, clients
<1>2. /\ copying' \subseteq copying /\ copied' \subseteq copying' /\ release' \in Seq(Requests)
      /\ Range(release') \subseteq Range(release) \cup copying
      /\ copying' \cap Range(release') = {}
  <2>1. CASE ~running
    BY <1>0, <2>1 DEF StartRound, Types, Handover
  <2>2. CASE running
    <3>1. PICK q : q = SetToSeq(copied)
      OBVIOUS
    <3>2. copied \subseteq Requests /\ IsFiniteSet(copied) /\ release \in Seq(Requests)
      BY <1>0, PDAssumption, FS_Subset DEF Types
    <3>3. q \in Seq(copied)
      BY <3>1, <3>2, SetToSeqFacts
    <3>4. q \in Seq(Requests) /\ Range(q) \subseteq copied
      BY <3>2, <3>3, SeqFacts
    <3>5. release' = release \o q /\ copying' = copying \ copied /\ copied' = {}
      BY <2>2, <3>1 DEF StartRound
    <3>6. release' \in Seq(Requests) /\ Range(release') = Range(release) \cup Range(q)
      BY <3>2, <3>4, <3>5, ConcatFacts
    <3> QED BY <1>0, <3>4, <3>5, <3>6 DEF Types, Handover
  <2> QED BY <2>1, <2>2
<1>3. Types' /\ Stages'
  BY <1>0, <1>1, <1>2 DEF Types, Stages
<1>4. Room'
  <2>1. Len(batch') \in Nat /\ Len(batch') <= Len(batch)
    BY <1>0, <1>1 DEF Types
  <2>2. Load' \subseteq Load
    BY <1>1, LoadKept DEF Decoding
  <2> QED BY <1>0, <1>1, <2>1, <2>2, RoomKept
<1>5. \A x : Bound(x) => Bound(x)'
  BY <1>1, <1>2 DEF Bound
<1>6. \A r : (Resulted(r)' <=> Resulted(r)) /\ (Handled(r)' <=> Handled(r))
  BY <1>1 DEF Resulted, Handled
<1>7. CopySafe'
  BY <1>0, <1>1, <1>2 DEF Handover, CopySafe
<1>8. Handover'
  BY <1>0, <1>1, <1>2, <1>5, <1>6, <1>7 DEF Handover
<1>9. \A r : After(r)' => After(r)
  BY <1>1, <1>2, <1>6 DEF After
<1> QED BY <1>1, <1>3, <1>4, <1>8, <1>9, BackInv

\* The first result is taken: no other is for the same request.
LEMMA IngestInv == ASSUME IInv, Ingest PROVE IInv' /\ Fewer
<1>0. Types /\ Stages /\ Room /\ Handover
  BY DEF IInv
<1>1. /\ UNCHANGED <<running, tokQ, toker, pending, ppc, batch, cap, psess, step>>
      /\ UNCHANGED <<dsess, copying, copied, release, client, closer>>
      /\ results # <<>> /\ results' = Tail(results) /\ hand' = {Head(results)}
      /\ dpc = "ingest" /\ dpc' = "handle"
  BY DEF Ingest, tokenize, prefill, copies, clients
<1>2. /\ results' \in Seq(Results) /\ Head(results) \in Results
      /\ Head(results) = results[1] /\ 1 \in DOMAIN results
      /\ \A i \in DOMAIN results' : i + 1 \in DOMAIN results /\ i \in Nat \ {0} /\ results'[i] = results[i + 1]
  BY <1>0, <1>1, TailFacts DEF Types
<1>3. PICK res : res = Head(results)
  OBVIOUS
<1>4. res.rid \in Requests /\ Resulted(res.rid) /\ Bound(res)
  BY <1>0, <1>2, <1>3 DEF Resulted, Results, Handover
<1>5. \A r : Resulted(r)' => Resulted(r) /\ r # res.rid
  <2> SUFFICES ASSUME NEW r, NEW i \in DOMAIN results', results'[i].rid = r
               PROVE  Resulted(r) /\ r # res.rid
    BY DEF Resulted
  <2>1. i + 1 \in DOMAIN results /\ results[i + 1].rid = r /\ i + 1 # 1
    BY <1>2
  <2>2. results[1].rid # r
    BY <1>0, <1>2, <2>1 DEF Handover
  <2> QED BY <1>2, <1>3, <2>1, <2>2 DEF Resulted
<1>6. \A r : Handled(r)' <=> r = res.rid
  BY <1>1, <1>3 DEF Handled
<1>7. Types' /\ Stages'
  BY <1>0, <1>1, <1>2 DEF Types, Stages
<1>8. Room'
  <2>1. Len(batch') \in Nat /\ Len(batch') <= Len(batch)
    BY <1>0, <1>1 DEF Types
  <2>2. Load' \subseteq Load
    <3>1. Range(results') \subseteq Range(results) /\ hand' \subseteq Range(results)
      BY <1>1, <1>2 DEF Range
    <3> QED BY <1>1, <3>1 DEF Load, InFlight, Decoding
  <2> QED BY <1>0, <1>1, <2>1, <2>2, RoomKept
<1>9. \A x : Bound(x) => Bound(x)'
  BY <1>1 DEF Bound
<1>10. Handover'
  <2>1. \A i, j \in DOMAIN results' : results'[i].rid = results'[j].rid => i = j
    <3> SUFFICES ASSUME NEW i \in DOMAIN results', NEW j \in DOMAIN results',
                        results'[i].rid = results'[j].rid
                 PROVE  i = j
      OBVIOUS
    <3>1. i + 1 = j + 1
      BY <1>0, <1>2 DEF Handover
    <3> QED BY <1>2, <3>1
  <2>2. ASSUME NEW i \in DOMAIN results' PROVE Bound(results'[i])
    BY <1>0, <1>2 DEF Handover
  <2>3. (\A i \in DOMAIN results : Bound(results[i]))'
    <3>1. ASSUME NEW i \in DOMAIN results' PROVE \E x : x = results'[i] /\ Bound(x)'
      BY <1>9, <2>2
    <3> QED BY <3>1 DEF Bound
  <2>4. \A x \in hand' : ~Resulted(x.rid)' /\ Bound(x)'
    BY <1>1, <1>3, <1>4, <1>5, <1>9
  <2>5. CopySafe'
    BY <1>0, <1>1 DEF Handover, CopySafe
  <2>6. copying' \cap Range(release') = {}
    BY <1>0, <1>1 DEF Handover
  <2> QED BY <2>1, <2>3, <2>4, <2>5, <2>6 DEF Handover
<1>11. \A r : After(r)' => After(r)
  BY <1>1, <1>4, <1>5, <1>6 DEF After
<1> QED BY <1>1, <1>7, <1>8, <1>10, <1>11, BackInv

\* It becomes a copy or a release, never both; its session was counted for the
\* prefill engine already.
LEMMA HandleResultInv == ASSUME IInv, HandleResult PROVE IInv' /\ Fewer
<1>0. Types /\ Stages /\ Room /\ Handover
  BY DEF IInv
<1>1. /\ UNCHANGED <<running, tokQ, toker, pending, ppc, batch, cap, psess, results, step>>
      /\ UNCHANGED <<copied, client, closer>>
      /\ hand' = {} /\ dpc = "handle" /\ dpc' = "ingest"
  BY DEF HandleResult, tokenize, prefill, clients
<1>2. PICK res \in hand :
        /\ dsess' = dsess \cup Adopted(res)
        /\ release' = release \o SetToSeq(Dropped(res) \cup ReleasedNow(Adopted(res)))
        /\ copying' = copying \cup (IF AsyncCopy THEN Adopted(res) ELSE {})
  BY DEF HandleResult
<1>3. PICK r : r = res.rid
  OBVIOUS
<1>4. r \in Requests /\ ~Resulted(r) /\ Bound(res) /\ Handled(r)
  BY <1>0, <1>2, <1>3 DEF Types, Handover, Results, Handled
<1>5. PICK now : now = Dropped(res) \cup ReleasedNow(Adopted(res))
  OBVIOUS
<1>6. /\ now \subseteq {r} /\ Adopted(res) \subseteq {r}
      /\ now # {} \/ Adopted(res) # {} => ~res.fin
      /\ AsyncCopy /\ Adopted(res) # {} => now = {}
  BY <1>3, <1>5 DEF Adopted, Dropped, ReleasedNow
<1>7. ~res.fin => (running => r \in psess) /\ r \notin copying \cup Range(release)
  BY <1>1, <1>3, <1>4 DEF Bound
<1>8. release' \in Seq(Requests) /\ Range(release') \subseteq Range(release) \cup now
  <2>1. PICK q : q = SetToSeq(now)
    OBVIOUS
  <2>2. IsFiniteSet(now) /\ now \subseteq Requests /\ release \in Seq(Requests)
    BY <1>0, <1>4, <1>6, FS_Singleton, FS_Subset DEF Types
  <2>3. q \in Seq(now)
    BY <2>1, <2>2, SetToSeqFacts
  <2>4. q \in Seq(Requests) /\ Range(q) \subseteq now
    BY <2>2, <2>3, SeqFacts
  <2>5. release' = release \o q
    BY <1>2, <1>5, <2>1
  <2> QED BY <2>2, <2>4, <2>5, ConcatFacts
<1>9. /\ dsess' \subseteq dsess \cup {r} /\ dsess' \subseteq Requests
      /\ copying' \subseteq copying \cup {r} /\ copying \subseteq copying' /\ copying' \subseteq Requests
      /\ Range(release') \subseteq Range(release) \cup {r}
  BY <1>0, <1>2, <1>4, <1>6, <1>7, <1>8 DEF Types
<1>10. copying' \cap Range(release') = {}
  BY <1>0, <1>2, <1>6, <1>7, <1>8 DEF Handover
<1>11. /\ \A x : Resulted(x)' <=> Resulted(x)
       /\ \A x : ~Handled(x)'
  BY <1>1 DEF Resulted, Handled
<1>12. Types' /\ Stages'
  BY <1>0, <1>1, <1>8, <1>9 DEF Types, Stages
<1>13. Room'
  <2>1. Len(batch') \in Nat /\ Len(batch') <= Len(batch)
    BY <1>0, <1>1 DEF Types
  <2>2. Adopted(res) \subseteq InFlight
    BY <1>2, <1>3, <1>6 DEF InFlight
  <2>3. Decoding' \subseteq Decoding \cup Adopted(res) /\ InFlight' \subseteq InFlight
    BY <1>1, <1>2 DEF Decoding, InFlight
  <2>4. Load' \subseteq Load
    BY <1>1, <2>2, <2>3 DEF Load
  <2> QED BY <1>0, <1>1, <2>1, <2>4, RoomKept
<1>14. Handover'
  <2>1. CopySafe'
    BY <1>0, <1>1, <1>2, <1>6, <1>7 DEF Handover, CopySafe
  <2>2. \A i \in DOMAIN results : results[i].rid # r
    BY <1>4 DEF Resulted
  <2>3. ASSUME NEW i \in DOMAIN results PROVE Bound(results[i])'
    <3>1. Bound(results[i]) /\ results[i].rid # r
      BY <1>0, <2>2 DEF Handover
    <3> QED BY <1>1, <1>9, <3>1 DEF Bound
  <2>4. (\A i \in DOMAIN results : Bound(results[i]))'
    BY <1>1, <2>3 DEF Bound
  <2>5. (\A i, j \in DOMAIN results : results[i].rid = results[j].rid => i = j)'
    BY <1>0, <1>1 DEF Handover
  <2>6. (\A x \in hand : ~Resulted(x.rid) /\ Bound(x))'
    BY <1>1
  <2> QED BY <1>10, <2>1, <2>4, <2>5, <2>6 DEF Handover
<1>15. \A x \in Requests : After(x)' => After(x)
  BY <1>1, <1>4, <1>9, <1>11 DEF After
<1> QED BY <1>1, <1>12, <1>13, <1>14, <1>15, BackInv

\* close discards what it finds, whatever the threads are at.
LEMMA CloseDiscardsInv == ASSUME IInv, CloseDiscards PROVE IInv' /\ Fewer
<1>0. Types /\ Stages /\ Room /\ Handover
  BY DEF IInv
<1>1. /\ UNCHANGED <<running, tokQ, toker, pending, ppc, batch, cap, results, dpc, hand, step>>
      /\ UNCHANGED <<copying, copied, release, client>>
      /\ ~running /\ psess' \subseteq psess /\ dsess' \subseteq dsess
  BY <1>0 DEF CloseDiscards, Stages, tokenize, prefill, decode, copies, clients
<1>2. Types' /\ Stages'
  BY <1>0, <1>1 DEF Types, Stages
<1>3. Room'
  <2>1. Len(batch') \in Nat /\ Len(batch') <= Len(batch)
    BY <1>0, <1>1 DEF Types
  <2>2. Load' \subseteq Load
    BY <1>1, LoadKept DEF Decoding
  <2> QED BY <1>0, <1>1, <2>1, <2>2, RoomKept
<1>4. Handover' /\ \A r : After(r)' => After(r)
  BY <1>0, <1>1, BackKept
<1> QED BY <1>1, <1>2, <1>3, <1>4, BackInv

\* A batch is prefilled: its requests were in no other place, so the results are
\* their only ones, and they are no more than the room that was counted.
LEMMA PrefillInv == ASSUME IInv, Prefill PROVE IInv' /\ Fewer
<1>0. Types /\ Stages /\ Room /\ Once /\ Forward /\ Handover
  BY DEF IInv
<1>1. /\ UNCHANGED <<running, tokQ, toker, pending, dpc, hand, step>>
      /\ UNCHANGED <<dsess, copying, copied, release, client, closer>>
      /\ ppc = "take" /\ ppc' = "count" /\ cap' = 0 /\ batch' = <<>>
  BY DEF Prefill, tokenize, decode, copies, clients
<1>2. PICK p, n : p = results /\ n = Len(batch)
  OBVIOUS
<1>3. /\ p \in Seq(Results) /\ n \in Nat /\ DOMAIN batch = 1..n
      /\ \A i \in 1..n : batch[i] \in Requests
  BY <1>0, <1>2 DEF Types
<1>4. PICK q : /\ psess \subseteq psess' /\ psess' \subseteq psess \cup Range(batch)
               /\ results' = p \o q /\ q \in [1..n -> Results]
               /\ \A i \in 1..n : q[i].rid = batch[i]
               /\ \A i \in 1..n : q[i].fin \/ batch[i] \in psess'
  <2>1. CASE \E eos \in SUBSET Range(batch) :
               LET fin == IF MaxNew = 1 THEN Range(batch) ELSE eos
               IN  /\ psess' = psess \cup (Range(batch) \ fin)
                   /\ results' = results \o
                        [i \in DOMAIN batch |-> Result(batch[i], batch[i] \in fin, FALSE)]
    <3>1. PICK fin : /\ psess' = psess \cup (Range(batch) \ fin)
                     /\ results' = p \o [i \in 1..n |-> Result(batch[i], batch[i] \in fin, FALSE)]
      BY <1>2, <1>3, <2>1
    <3>2. PICK q : q = [i \in 1..n |-> Result(batch[i], batch[i] \in fin, FALSE)]
      OBVIOUS
    <3>3. ASSUME NEW i \in 1..n
          PROVE  q[i] \in Results /\ q[i].rid = batch[i] /\ (q[i].fin \/ batch[i] \in psess')
      <4>1. q[i] = Result(batch[i], batch[i] \in fin, FALSE)
        BY <3>2
      <4>2. batch[i] \in Requests /\ batch[i] \in Range(batch)
        BY <1>3 DEF Range
      <4>3. CASE batch[i] \in fin
        <5>1. q[i] = Result(batch[i], TRUE, FALSE)
          BY <4>1, <4>3
        <5>2. q[i].rid = batch[i] /\ q[i].fin /\ q[i] \in Results
          BY <4>2, <5>1 DEF Result, Results
        <5> QED BY <5>2
      <4>4. CASE batch[i] \notin fin
        <5>1. q[i] \in [rid : {batch[i]}, fin : BOOLEAN, err : BOOLEAN]
          BY <3>2, <4>2 DEF Result
        <5>2. q[i].rid = batch[i] /\ q[i] \in Results
          BY <4>2, <5>1 DEF Results
        <5> QED BY <3>1, <4>2, <4>4, <5>2
      <4> QED BY <4>3, <4>4
    <3>4. q \in [1..n -> Results]
      BY <3>2, <3>3
    <3>5. results' = p \o q /\ psess \subseteq psess' /\ psess' \subseteq psess \cup Range(batch)
      BY <3>1, <3>2
    <3>6. /\ \A i \in 1..n : q[i].rid = batch[i]
          /\ \A i \in 1..n : q[i].fin \/ batch[i] \in psess'
      BY <3>3
    <3> QED BY <3>4, <3>5, <3>6, Zenon
  <2>2. CASE /\ results' = results \o [i \in DOMAIN batch |-> Result(batch[i], TRUE, TRUE)]
             /\ UNCHANGED psess
    <3>1. PICK q : q = [i \in 1..n |-> Result(batch[i], TRUE, TRUE)]
      OBVIOUS
    <3>2. q \in [1..n -> Results] /\ \A i \in 1..n : q[i].rid = batch[i] /\ q[i].fin
      BY <1>3, <3>1 DEF Result, Results
    <3>3. results' = p \o q /\ psess \subseteq psess' /\ psess' \subseteq psess \cup Range(batch)
      BY <1>2, <1>3, <2>2, <3>1
    <3>4. /\ \A i \in 1..n : q[i].rid = batch[i]
          /\ \A i \in 1..n : q[i].fin \/ batch[i] \in psess'
      BY <3>2
    <3> QED BY <3>2, <3>3, <3>4, Zenon
  <2> QED BY <2>1, <2>2 DEF Prefill
<1>5. q \in Seq(Results) /\ DOMAIN q = 1..n
  <2>1. n \in Nat /\ q \in [1..n -> Results]
    BY <1>3, <1>4
  <2> QED BY ONLY <2>1
<1>6. PICK m : m = Len(p)
  OBVIOUS
<1>7. /\ results' \in Seq(Results)
      /\ \A i \in DOMAIN results' : i \in DOMAIN p \/ (i - m \in 1..n /\ i = m + (i - m))
      /\ \A i \in DOMAIN p : results'[i] = p[i]
      /\ \A i \in 1..n : results'[m + i] = q[i]
  BY <1>3, <1>4, <1>5, <1>6, ConcatFacts
<1>8. \A i \in DOMAIN results' : \/ i \in DOMAIN p /\ results'[i] = p[i]
                                 \/ \E k \in 1..n : i = m + k /\ results'[i] = q[k]
  <2> SUFFICES ASSUME NEW i \in DOMAIN results', i \notin DOMAIN p
               PROVE  \E k \in 1..n : i = m + k /\ results'[i] = q[k]
    BY <1>7
  <2>1. PICK k : k = i - m
    OBVIOUS
  <2>2. k \in 1..n /\ i = m + k
    BY <1>7, <2>1
  <2> QED BY <1>7, <2>2
<1>9. \A i \in 1..n : Waiting(batch[i]) /\ ~After(batch[i])
  BY <1>0, <1>3 DEF Waiting, Range, Forward, Before
<1>10. /\ \A r : Resulted(r)' => Resulted(r) \/ r \in Range(batch)
       /\ \A r : Handled(r)' <=> Handled(r)
  <2>1. ASSUME NEW i \in DOMAIN results' PROVE Resulted(results'[i].rid) \/ results'[i].rid \in Range(batch)
    <3>1. CASE i \in DOMAIN p /\ results'[i] = p[i]
      BY <1>2, <3>1 DEF Resulted
    <3>2. CASE \E k \in 1..n : i = m + k /\ results'[i] = q[k]
      BY <1>3, <1>4, <3>2 DEF Range
    <3> QED BY <1>8, <3>1, <3>2
  <2> QED BY <1>1, <2>1 DEF Resulted, Handled
<1>11. /\ \A r : Asked(r)' <=> Asked(r)
       /\ \A r : Encoded(r)' <=> Encoded(r)
       /\ \A r : Waiting(r)' <=> r \in Range(pending)
  BY <1>1 DEF Asked, Encoded, Waiting, Range
<1>12. Range(batch) \subseteq Requests /\ Range(batch') = {} /\ batch' \in Seq(Requests)
  BY <1>1, <1>3 DEF Range
<1>13. Types' /\ Stages'
  BY <1>0, <1>1, <1>4, <1>7, <1>12 DEF Types, Stages
<1>14. Room'
  <2>1. IsFiniteSet(Range(batch)) /\ Cardinality(Range(batch)) <= n
    BY <1>0, <1>2, RangeBound DEF Types
  <2>2. PICK k \in Nat : k = Cardinality(Range(batch)) /\ k <= n /\ IsFiniteSet(Range(batch))
    BY <2>1, FS_CardinalityType
  <2>3. PICK l \in Nat : l = Cardinality(Load) /\ IsFiniteSet(Load)
    BY <1>0, Bounded
  <2>4. PICK S : S = Load
    OBVIOUS
  <2>5. PICK c \in Nat : c = Cardinality(S \cup Range(batch)) /\ c <= l + k
    <3>1. PICK d \in Nat : d = Cardinality(S \cap Range(batch))
      BY <2>2, <2>3, <2>4, FS_Intersection, FS_CardinalityType
    <3>2. PICK c \in Nat : c = Cardinality(S \cup Range(batch))
      BY <2>2, <2>3, <2>4, FS_Union, FS_CardinalityType
    <3>3. c = l + k - d
      BY <2>2, <2>3, <2>4, <3>1, <3>2, FS_Union
    <3> QED BY <3>1, <3>2, <3>3
  <2>6. PICK d \in Nat : d = Cardinality(Load') /\ d <= c
    <3>1. InFlight' \subseteq InFlight \cup Range(batch)
      <4> SUFFICES ASSUME NEW x \in Range(results') \cup hand', ~x.fin
                   PROVE  x.rid \in InFlight \cup Range(batch)
        BY DEF InFlight
      <4>1. CASE x \in Range(results) \cup hand
        BY <4>1 DEF InFlight
      <4>2. CASE x \in Range(results') \ Range(results)
        <5>1. PICK i \in DOMAIN results' : x = results'[i]
          BY <4>2 DEF Range
        <5>2. ~(i \in DOMAIN p /\ results'[i] = p[i])
          BY <1>2, <4>2, <5>1 DEF Range
        <5>3. PICK h \in 1..n : x = q[h]
          BY <1>8, <5>1, <5>2
        <5> QED BY <1>3, <1>4, <5>3 DEF Range
      <4> QED BY <1>1, <4>1, <4>2
    <3>2. Load' \subseteq S \cup Range(batch)
      BY <1>1, <1>4, <2>4, <3>1 DEF Load, Decoding
    <3>3. PICK T, U : T = Load' /\ U = S \cup Range(batch)
      OBVIOUS
    <3>4. T \subseteq U /\ IsFiniteSet(U)
      BY <2>2, <2>3, <2>4, <3>2, <3>3, FS_Union
    <3> QED BY <2>5, <3>3, <3>4, FS_Subset, FS_CardinalityType
  <2>7. n <= cap /\ cap \in Nat /\ MaxActive \in Nat /\ (MaxActive # 0 => l + cap <= MaxActive)
    BY <1>0, <1>1, <1>2, <2>3, PDAssumption DEF Room, Types
  <2>8. d <= l + cap
    BY <1>3, <2>2, <2>3, <2>5, <2>6, <2>7
  <2>9. MaxActive # 0 => d <= MaxActive
    BY <2>3, <2>6, <2>7, <2>8
  <2> QED BY <1>1, <2>6, <2>9 DEF Room
<1>15. Once'
  <2>1. \A i, j \in DOMAIN batch' : batch'[i] = batch'[j] => i = j
    BY <1>1
  <2>2. \A r \in Requests : /\ ~(Asked(r)' /\ Encoded(r)')
                            /\ ~(Asked(r)' /\ Waiting(r)')
                            /\ ~(Encoded(r)' /\ Waiting(r)')
    BY <1>0, <1>11 DEF Once, Waiting
  <2> QED BY <1>0, <1>1, <1>12, <2>1, <2>2 DEF Once
<1>16. Forward'
  <2>1. \A r : Before(r)' => Before(r)
    BY <1>11 DEF Before, Waiting
  <2>2. \A r \in Range(batch) : Before(r) /\ ~Before(r)'
    BY <1>0, <1>11, <1>12 DEF Before, Waiting, Once
  <2>3. \A r : After(r)' => After(r) \/ r \in Range(batch)
    BY <1>1, <1>4, <1>10 DEF After
  <2> QED BY <1>0, <1>1, <2>1, <2>2, <2>3 DEF Forward
<1>17. Handover'
  <2>1. (\A i, j \in DOMAIN results : results[i].rid = results[j].rid => i = j)'
    <3> SUFFICES ASSUME NEW i \in DOMAIN results', NEW j \in DOMAIN results',
                        results'[i].rid = results'[j].rid
                 PROVE  i = j
      OBVIOUS
    <3>1. \A k \in DOMAIN p, l \in 1..n : p[k].rid # q[l].rid
      BY <1>2, <1>4, <1>9 DEF After, Resulted
    <3>2. CASE /\ i \in DOMAIN p /\ results'[i] = p[i]
               /\ j \in DOMAIN p /\ results'[j] = p[j]
      BY <1>0, <1>2, <3>2 DEF Handover
    <3>3. CASE /\ \E k \in 1..n : i = m + k /\ results'[i] = q[k]
               /\ \E k \in 1..n : j = m + k /\ results'[j] = q[k]
      <4>1. PICK k \in 1..n : i = m + k /\ results'[i] = q[k]
        BY <3>3
      <4>2. PICK l \in 1..n : j = m + l /\ results'[j] = q[l]
        BY <3>3
      <4>3. batch[k] = batch[l]
        BY <1>4, <4>1, <4>2
      <4>4. k = l
        BY <1>0, <1>3, <4>3 DEF Once
      <4> QED BY <4>1, <4>2, <4>4
    <3> QED BY <1>8, <3>1, <3>2, <3>3
  <2>2. \A x : Bound(x) => Bound(x)'
    BY <1>1, <1>4 DEF Bound
  <2>3. (\A i \in DOMAIN results : Bound(results[i]))'
    <3>1. ASSUME NEW i \in DOMAIN results' PROVE \E x : x = results'[i] /\ Bound(x)'
      <4>1. CASE i \in DOMAIN p /\ results'[i] = p[i]
        BY <1>0, <1>2, <2>2, <4>1 DEF Handover
      <4>2. CASE \E k \in 1..n : i = m + k /\ results'[i] = q[k]
        <5>1. PICK k \in 1..n : results'[i] = q[k]
          BY <4>2
        <5>2. PICK x : x = q[k]
          OBVIOUS
        <5>3. ~x.fin => x.rid \in psess' /\ x.rid \notin copying' \cup Range(release')
          BY <1>1, <1>4, <1>9, <5>2 DEF After
        <5> QED BY <5>1, <5>2, <5>3 DEF Bound
      <4> QED BY <1>8, <4>1, <4>2
    <3> QED BY <3>1 DEF Bound
  <2>4. (\A x \in hand : ~Resulted(x.rid) /\ Bound(x))'
    <3>1. ASSUME NEW x \in hand PROVE ~Resulted(x.rid)' /\ Bound(x)'
      <4>1. Bound(x) /\ ~Resulted(x.rid) /\ After(x.rid)
        BY <1>0, <3>1 DEF Handover, After, Handled
      <4>2. x.rid \notin Range(batch)
        BY <1>3, <1>9, <4>1 DEF Range
      <4> QED BY <1>10, <2>2, <4>1, <4>2
    <3> QED BY <1>1, <3>1
  <2>5. CopySafe'
    BY <1>0, <1>1, <1>4 DEF Handover, CopySafe
  <2>6. copying' \cap Range(release') = {}
    BY <1>0, <1>1 DEF Handover
  <2> QED BY <2>1, <2>3, <2>4, <2>5, <2>6 DEF Handover
<1>18. Fewer
  BY <1>1, <1>11 DEF Fewer, Coming, Before, Waiting
<1> QED BY <1>13, <1>14, <1>15, <1>16, <1>17, <1>18 DEF IInv

-----------------------------------------------------------------------------
\* Every step keeps the invariant.
LEMMA NextInv == IInv /\ [Next]_vars => IInv' /\ Fewer
<1> SUFFICES ASSUME IInv, [Next]_vars PROVE IInv' /\ Fewer
  OBVIOUS
<1>1. ASSUME NEW r \in Requests, Submit(r) PROVE IInv' /\ Fewer
  BY <1>1, SubmitInv
<1>2. ASSUME NEW t \in Tokenizers, Tokenizer(t) PROVE IInv' /\ Fewer
  BY <1>2, TakeTaskInv, EncodeInv DEF Tokenizer
<1>3. CASE Prefiller
  BY <1>3, CountInv, TakeOneInv, PrefillInv DEF Prefiller
<1>4. CASE StartRound \/ Ingest \/ HandleResult
  BY <1>4, StartRoundInv, IngestInv, HandleResultInv
<1>5. CASE Close \/ CloseDiscards
  BY <1>5, CloseInv, CloseDiscardsInv
<1>6. CASE \/ \E r \in Requests : \/ Register(r) \/ AddRaises(r) \/ Open(r) \/ Read(r)
                                  \/ EndStream(r) \/ Abandon(r) \/ CopyEnds(r)
           \/ CountRaises \/ Step \/ Emit \/ DecodeRaises \/ UNCHANGED vars
  BY <1>6, QuietSteps
<1> QED BY <1>1, <1>2, <1>3, <1>4, <1>5, <1>6 DEF Next, Reader, Decoder

\* Every reachable state satisfies the invariant.
LEMMA Invariant == Spec => []IInv
BY InitInv, NextInv, PTL DEF Spec

\* While the manager runs, the prefill engine holds the blocks that the device is
\* copying into the pool of the decoder: _release_prefill never gets an id before
\* its copy event is complete, whatever clients, cancellations and the two
\* threads do.
THEOREM CopiesHeld == Spec => []CopySafe
<1>1. IInv => CopySafe
  BY DEF IInv, Handover
<1> QED BY <1>1, Invariant, PTL

\* The unfinished sessions of the two engines together are never more than
\* max_active_requests, although the prefill thread counts them without a lock
\* while the decode thread adopts and discards.
THEOREM LimitKept == Spec => []ActiveBounded
<1>1. IInv => ActiveBounded
  <2> SUFFICES ASSUME IInv, MaxActive # 0 PROVE Cardinality(psess \cup Decoding) <= MaxActive
    BY DEF ActiveBounded
  <2>1. psess \cup Decoding \subseteq Load /\ Types /\ Room
    BY DEF Load, IInv
  <2>2. PICK n \in Nat, m \in Nat : /\ n = Cardinality(psess \cup Decoding)
                                   /\ m = Cardinality(Load) /\ n <= m
    BY <2>1, Bounded
  <2>3. m <= MaxActive /\ MaxActive \in Nat
    BY <2>1, <2>2, PDAssumption DEF Room
  <2> QED BY <2>2, <2>3
<1> QED BY <1>1, Invariant, PTL

-----------------------------------------------------------------------------
(***************************************************************************)
(* The streams. A request has no tokens until it is prefilled, one while   *)
(* its result waits for the decoder, and one more after each step it takes *)
(* part in; the decoder delivers those of a step before it makes the next. *)
(***************************************************************************)
\* Results that the decoder has not handled.
Inbox == Range(results) \cup hand
Between(r) == \E x \in Inbox : x.rid = r

\* Requests the decoder serves: its sessions, and from a step until its tokens are
\* emitted those that took part in it, though close may have discarded some.
Busy == IF dpc = "emit" THEN step.fed ELSE dsess

\* How many tokens a request has where it is.
Counted ==
  /\ gen \in [Requests -> Nat]
  /\ \A r \in Requests : Coming(r) => gen[r] = 0
  /\ \A x \in Inbox : (x.err => x.fin) /\ gen[x.rid] = (IF x.err THEN 0 ELSE 1)
  /\ \A r \in Busy : gen[r] > 0 /\ ~Between(r)
  /\ dsess \subseteq Busy /\ Busy \subseteq Requests

\* Requests that may still get a token.
OnTheWay(r) == Coming(r) \/ Between(r) \/ r \in Busy

\* What is in the inbox is a result; a request before its prefill has none.
LEMMA InboxFacts ==
  ASSUME IInv, Counted
  PROVE  /\ Inbox \subseteq Results
         /\ \A r \in Requests : Between(r) <=> Resulted(r) \/ Handled(r)
         /\ \A r \in Requests : Coming(r) => ~Between(r) /\ r \notin Busy
         /\ \A x \in hand, y \in Inbox : x.rid = y.rid => x = y
         /\ dsess \subseteq Busy /\ Busy \subseteq Requests
<1>0. Types /\ Stages /\ Forward /\ Handover
  BY DEF IInv
<1>1. Inbox \subseteq Results /\ dsess \subseteq Busy /\ Busy \subseteq Requests
  <2>1. Range(results) \subseteq Results
    BY <1>0, SeqFacts DEF Types
  <2> QED BY <1>0, <2>1 DEF Inbox, Types, Counted
<1>2. \A r : Between(r) <=> Resulted(r) \/ Handled(r)
  <2>1. \A x : x \in Range(results) <=> \E i \in DOMAIN results : results[i] = x
    BY <1>0, SeqFacts DEF Types
  <2> QED BY <2>1 DEF Between, Inbox, Resulted, Handled
<1>3. \A r \in Requests : Coming(r) => ~Between(r) /\ r \notin Busy
  BY <1>0, <1>2 DEF Coming, Forward, After, Early, Counted
<1>4. \A x \in hand, y \in Inbox : x.rid = y.rid => x = y
  <2> SUFFICES ASSUME NEW x \in hand, NEW y \in Inbox, x.rid = y.rid PROVE x = y
    OBVIOUS
  <2>1. CASE y \in hand
    BY <1>0, <2>1 DEF Stages
  <2>2. CASE y \in Range(results)
    <3>1. Resulted(x.rid)
      BY <2>2 DEF Range, Resulted
    <3> QED BY <1>0, <3>1 DEF Handover
  <2> QED BY <2>1, <2>2 DEF Inbox
<1> QED BY <1>1, <1>2, <1>3, <1>4

\* Steps that neither generate nor move a result.
LEMMA CountedKept ==
  ASSUME Counted, Fewer, gen' = gen, Inbox' \subseteq Inbox, Busy' \subseteq Busy, dsess' \subseteq Busy'
  PROVE  Counted' /\ \A r \in Requests : OnTheWay(r)' => OnTheWay(r)
<1>1. \A r : Between(r)' => Between(r)
  BY DEF Between
<1>2. \A r \in Busy' : gen'[r] > 0 /\ ~Between(r)'
  BY <1>1 DEF Counted
<1>3. \A r \in Requests : Coming(r)' => gen'[r] = 0
  BY DEF Counted, Fewer
<1>4. \A x \in Inbox' : (x.err => x.fin) /\ gen'[x.rid] = (IF x.err THEN 0 ELSE 1)
  BY DEF Counted
<1>5. Counted'
  BY <1>2, <1>3, <1>4 DEF Counted
<1>6. \A r \in Requests : OnTheWay(r)' => OnTheWay(r)
  BY <1>1 DEF OnTheWay, Fewer
<1> QED BY <1>5, <1>6

\* A prefill gives each request of the batch its first token, or a result without
\* one.
LEMMA PrefillGives ==
  ASSUME IInv, Counted, Prefill
  PROVE  /\ gen' \in {gen, [r \in Requests |-> IF r \in Range(batch) THEN 1 ELSE gen[r]]}
         /\ UNCHANGED <<hand, dsess, dpc, step, Busy>>
         /\ \A r \in Range(batch) : r \in Requests /\ Before(r) /\ gen[r] = 0
         /\ \A x \in Inbox' : \/ x \in Inbox
                              \/ /\ x.rid \in Range(batch) /\ (x.err => x.fin)
                                 /\ gen'[x.rid] = IF x.err THEN 0 ELSE 1
<1>0. Types
  BY DEF IInv
<1>1. UNCHANGED <<hand, dsess, dpc, step, Busy>>
  BY DEF Prefill, decode, Busy
<1>2. PICK p, n : p = results /\ n = Len(batch)
  OBVIOUS
<1>3. /\ p \in Seq(Results) /\ n \in Nat /\ DOMAIN batch = 1..n
      /\ \A i \in 1..n : batch[i] \in Requests
  BY <1>0, <1>2 DEF Types
<1>4. \A r \in Range(batch) : r \in Requests /\ Before(r) /\ gen[r] = 0
  BY <1>3 DEF Range, Before, Waiting, Counted, Coming
<1>5. PICK q, err :
        /\ err \in BOOLEAN
        /\ gen' = IF err THEN gen ELSE [r \in Requests |-> IF r \in Range(batch) THEN 1 ELSE gen[r]]
        /\ results' = p \o q /\ DOMAIN q = 1..n
        /\ \A i \in 1..n : q[i].rid = batch[i] /\ q[i].err = err /\ (err => q[i].fin)
  <2>1. CASE \E eos \in SUBSET Range(batch) :
               LET fin == IF MaxNew = 1 THEN Range(batch) ELSE eos
               IN  /\ gen' = [r \in Requests |-> IF r \in Range(batch) THEN 1 ELSE gen[r]]
                   /\ results' = results \o
                        [i \in DOMAIN batch |-> Result(batch[i], batch[i] \in fin, FALSE)]
    <3>1. PICK fin : results' = p \o [i \in 1..n |-> Result(batch[i], batch[i] \in fin, FALSE)]
      BY <1>2, <1>3, <2>1
    <3>2. PICK q : q = [i \in 1..n |-> Result(batch[i], batch[i] \in fin, FALSE)]
      OBVIOUS
    <3>3. DOMAIN q = 1..n /\ \A i \in 1..n : q[i].rid = batch[i] /\ q[i].err = FALSE
      BY <3>2 DEF Result
    <3>4. PICK err \in BOOLEAN : err = FALSE
      OBVIOUS
    <3>5. gen' = IF err THEN gen ELSE [r \in Requests |-> IF r \in Range(batch) THEN 1 ELSE gen[r]]
      BY <2>1, <3>4
    <3> QED BY <3>1, <3>2, <3>3, <3>4, <3>5
  <2>2. CASE /\ results' = results \o [i \in DOMAIN batch |-> Result(batch[i], TRUE, TRUE)]
             /\ UNCHANGED gen
    <3>1. PICK q : q = [i \in 1..n |-> Result(batch[i], TRUE, TRUE)]
      OBVIOUS
    <3>2. DOMAIN q = 1..n /\ \A i \in 1..n : q[i].rid = batch[i] /\ q[i].err = TRUE /\ q[i].fin
      BY <3>1 DEF Result
    <3>3. PICK err \in BOOLEAN : err = TRUE
      OBVIOUS
    <3>4. results' = p \o q
      BY <1>2, <1>3, <2>2, <3>1
    <3> QED BY <2>2, <3>2, <3>3, <3>4
  <2> QED BY <2>1, <2>2 DEF Prefill
<1>6. gen' \in {gen, [r \in Requests |-> IF r \in Range(batch) THEN 1 ELSE gen[r]]}
  BY <1>5
<1>7. results' \in Seq(Results)
  <2>1. IInv'
    BY PrefillInv
  <2> QED BY <2>1 DEF IInv, Types
<1>8. \A x \in Range(results') : x \in Range(results) \/ \E i \in 1..n : x = q[i]
  <2> SUFFICES ASSUME NEW i \in DOMAIN results', i \notin DOMAIN p
               PROVE  \E j \in 1..n : results'[i] = q[j]
    <3>1. \A i \in DOMAIN p : results'[i] = p[i] /\ p[i] \in Range(results)
      BY <1>2, <1>3, <1>5 DEF Range
    <3> QED BY <3>1 DEF Range
  <2>1. PICK m \in Nat : m = Len(p)
    BY <1>3
  <2>2. PICK j : j = i - m
    OBVIOUS
  <2>3. j \in 1..n /\ i = m + j /\ results'[i] = q[j]
    BY <1>3, <1>5, <2>1, <2>2
  <2> QED BY <2>3
<1>9. ASSUME NEW x \in Inbox', x \notin Inbox
      PROVE  /\ x.rid \in Range(batch) /\ (x.err => x.fin)
             /\ gen'[x.rid] = IF x.err THEN 0 ELSE 1
  <2>1. PICK i \in 1..n : x = q[i]
    BY <1>1, <1>8, <1>9 DEF Inbox
  <2>2. x.rid \in Range(batch) /\ x.err = err /\ (err => x.fin)
    BY <1>3, <1>5, <2>1 DEF Range
  <2>3. CASE err
    <3>1. gen' = gen
      BY <1>5, <2>3
    <3>2. gen[x.rid] = 0
      BY <1>4, <2>2
    <3> QED BY <2>2, <2>3, <3>1, <3>2
  <2>4. CASE ~err
    <3>1. gen'[x.rid] = 1
      BY <1>4, <1>5, <2>2, <2>4
    <3> QED BY <2>2, <2>4, <3>1
  <2> QED BY <2>3, <2>4
<1> QED BY <1>1, <1>4, <1>6, <1>9

\* Counted holds at first, and every step keeps it.
LEMMA CountedInit == Init => Counted
<1> SUFFICES ASSUME Init PROVE Counted
  OBVIOUS
<1>1. /\ results = <<>> /\ hand = {} /\ dsess = {} /\ dpc = "top"
      /\ gen = [r \in Requests |-> 0]
  BY DEF Init
<1>2. Inbox = {}
  BY <1>1 DEF Inbox, Range
<1> QED BY <1>1, <1>2 DEF Counted, Busy

LEMMA CountedStep ==
  ASSUME IInv, Counted, [Next]_vars
  PROVE  Counted' /\ \A r \in Requests : OnTheWay(r)' => OnTheWay(r)
<1>0. Types /\ Stages /\ Fewer
  BY NextInv DEF IInv
<1>1. CASE Prefill
  <2>1. \A r \in Range(batch) : OnTheWay(r) /\ ~Between(r) /\ r \notin Busy
    BY <1>1, PrefillGives, InboxFacts DEF OnTheWay, Coming
  <2>2. \A r \in Requests : gen'[r] = gen[r] \/ (r \in Range(batch) /\ gen'[r] = 1)
    BY <1>1, PrefillGives
  <2>3. gen' \in [Requests -> Nat]
    BY <1>1, PrefillGives DEF Counted
  <2>4. \A r \in Range(batch) : ~Coming(r)'
    <3>1. batch' = <<>> /\ UNCHANGED <<tokQ, toker, pending, client>>
      BY <1>1 DEF Prefill, tokenize, clients
    <3>2. Range(batch') = {}
      BY <3>1 DEF Range
    <3>3. ASSUME NEW r \in Range(batch) PROVE ~Coming(r)'
      <4>1. r \in Requests /\ Waiting(r) /\ r \notin Range(pending) /\ client[r] \notin Early
        <5>1. r \in Requests /\ Before(r) /\ Waiting(r)
          BY <1>1, <3>3, PrefillGives DEF Waiting
        <5> QED BY <3>3, <5>1 DEF IInv, Once, Forward, Early
      <4>2. ~Asked(r) /\ ~Encoded(r)
        BY <4>1 DEF IInv, Once
      <4> QED BY <3>1, <3>2, <4>1, <4>2 DEF Coming, Before, Asked, Encoded, Waiting
    <3> QED BY <3>3
  <2>5. \A x \in Inbox' : x \in Inbox \/ x.rid \in Range(batch)
    BY <1>1, PrefillGives
  <2>6. \A r : Between(r)' => Between(r) \/ r \in Range(batch)
    BY <2>5 DEF Between
  <2>7. UNCHANGED <<dsess, Busy>>
    BY <1>1, PrefillGives
  <2>8. \A r \in Requests : Coming(r)' => gen'[r] = 0
    BY <1>0, <2>2, <2>4 DEF Counted, Fewer
  <2>9. \A x \in Inbox' : (x.err => x.fin) /\ gen'[x.rid] = (IF x.err THEN 0 ELSE 1)
    <3>1. ASSUME NEW x \in Inbox PROVE (x.err => x.fin) /\ gen'[x.rid] = (IF x.err THEN 0 ELSE 1)
      <4>1. x.rid \in Requests /\ x.rid \notin Range(batch)
        BY <2>1, <3>1, InboxFacts DEF Between, Results
      <4> QED BY <2>2, <3>1, <4>1 DEF Counted
    <3> QED BY <1>1, <3>1, PrefillGives
  <2>10. \A r \in Busy' : gen'[r] > 0 /\ ~Between(r)'
    <3> SUFFICES ASSUME NEW r \in Busy PROVE gen'[r] > 0 /\ ~Between(r)'
      BY <2>7
    <3>1. r \in Requests /\ r \notin Range(batch)
      BY <2>1, InboxFacts
    <3> QED BY <2>2, <2>6, <3>1 DEF Counted
  <2>11. Counted'
    BY <2>3, <2>7, <2>8, <2>9, <2>10 DEF Counted
  <2> QED BY <1>0, <2>1, <2>6, <2>7, <2>11 DEF OnTheWay, Fewer
<1>2. CASE Step
  <2>1. /\ UNCHANGED <<results, hand, dsess>> /\ dpc' = "emit"
        /\ gen' = [r \in Requests |-> IF r \in dsess THEN gen[r] + 1 ELSE gen[r]]
        /\ Busy = dsess /\ Busy' = dsess
    BY <1>2 DEF Step, Busy
  <2>2. Inbox' = Inbox
    BY <2>1 DEF Inbox
  <2>3. \A r : Between(r)' <=> Between(r)
    BY <2>2 DEF Between
  <2>4. gen' \in [Requests -> Nat]
    BY <2>1 DEF Counted
  <2>5. \A r \in Requests : Coming(r)' => gen'[r] = 0
    BY <1>0, <2>1, InboxFacts DEF Counted, Fewer
  <2>6. \A x \in Inbox' : (x.err => x.fin) /\ gen'[x.rid] = (IF x.err THEN 0 ELSE 1)
    <3> SUFFICES ASSUME NEW x \in Inbox PROVE (x.err => x.fin) /\ gen'[x.rid] = (IF x.err THEN 0 ELSE 1)
      BY <2>2
    <3>1. x.rid \in Requests /\ x.rid \notin dsess
      BY InboxFacts DEF Between, Results, Counted
    <3> QED BY <2>1, <3>1 DEF Counted
  <2>7. \A r \in Busy' : gen'[r] > 0 /\ ~Between(r)'
    <3> SUFFICES ASSUME NEW r \in dsess PROVE gen'[r] > 0 /\ ~Between(r)'
      BY <2>1
    <3>1. r \in Requests /\ gen[r] \in Nat /\ gen'[r] = gen[r] + 1
      BY <2>1, InboxFacts DEF Counted
    <3> QED BY <2>3, <3>1 DEF Counted
  <2>8. Counted'
    BY <2>1, <2>4, <2>5, <2>6, <2>7 DEF Counted
  <2> QED BY <1>0, <2>1, <2>3, <2>8 DEF OnTheWay, Fewer
<1>3. CASE HandleResult
  <2>1. PICK res \in hand : dsess' = dsess \cup Adopted(res)
    BY <1>3 DEF HandleResult
  <2>2. UNCHANGED <<results, gen>> /\ hand' = {} /\ dpc' = "ingest" /\ dpc = "handle"
    BY <1>3 DEF HandleResult
  <2>0. Busy = dsess /\ Busy' = dsess'
    BY <2>2 DEF Busy
  <2>3. PICK r : r = res.rid
    OBVIOUS
  <2>4. Adopted(res) \subseteq {r} /\ (Adopted(res) # {} => ~res.fin) /\ res \in Inbox /\ Between(r)
    BY <2>1, <2>3 DEF Adopted, Inbox, Between
  <2>5. ~Between(r)'
    <3>1. ~Resulted(r) /\ r \in Requests
      BY <1>0, <2>1, <2>3 DEF IInv, Handover, Types, Results
    <3>2. \A x \in Range(results) : x.rid # r
      BY <1>0, <3>1, SeqFacts DEF Types, Resulted
    <3> QED BY <2>2, <3>2 DEF Between, Inbox
  <2>6. Inbox' \subseteq Inbox
    BY <2>2 DEF Inbox
  <2>7. \A q : Between(q)' => Between(q)
    BY <2>6 DEF Between
  <2>8. \A q \in Busy' : gen'[q] > 0 /\ ~Between(q)'
    <3>1. ~res.fin => gen[r] = 1
      BY <2>3, <2>4 DEF Counted
    <3> QED BY <2>0, <2>1, <2>2, <2>4, <2>5, <2>7, <3>1 DEF Counted
  <2>9. \A q \in Requests : Coming(q)' => gen'[q] = 0
    BY <1>0, <2>2 DEF Counted, Fewer
  <2>10. \A x \in Inbox' : (x.err => x.fin) /\ gen'[x.rid] = (IF x.err THEN 0 ELSE 1)
    BY <2>2, <2>6 DEF Counted
  <2>11. Counted'
    <3>1. Busy' \subseteq Requests
      BY <1>0, <2>0, <2>1, <2>3, <2>4, InboxFacts DEF Results
    <3> QED BY <2>0, <2>2, <2>8, <2>9, <2>10, <3>1 DEF Counted
  <2> QED BY <1>0, <2>0, <2>1, <2>4, <2>7, <2>11 DEF OnTheWay, Fewer
<1>4. CASE Ingest
  <2>1. UNCHANGED <<gen, dsess, Busy>> /\ results # <<>>
        /\ results' = Tail(results) /\ hand' = {Head(results)}
    BY <1>4 DEF Ingest, Busy
  <2>2. Inbox' \subseteq Inbox
    <3>1. results \in Seq(Results)
      BY <1>0 DEF Types
    <3>2. /\ Head(results) = results[1] /\ 1 \in DOMAIN results
          /\ \A i \in DOMAIN results' : i + 1 \in DOMAIN results /\ results'[i] = results[i + 1]
      BY <2>1, <3>1, TailFacts
    <3>3. Head(results) \in Range(results) /\ Range(results') \subseteq Range(results)
      BY <3>2 DEF Range
    <3> QED BY <2>1, <3>3 DEF Inbox
  <2> QED BY <1>0, <2>1, <2>2, CountedKept DEF Counted
<1>5. CASE Emit \/ CloseDiscards
  <2>1. UNCHANGED <<gen, results, hand>> /\ dsess' \subseteq dsess
    BY <1>5 DEF Emit, CloseDiscards, Keeps, decode
  <2>2. (Busy' = dsess') \/ (Busy' = Busy)
    BY <1>5 DEF Emit, CloseDiscards, Busy, decode
  <2>3. Inbox' = Inbox
    BY <2>1 DEF Inbox
  <2>4. Busy' \subseteq Busy /\ dsess' \subseteq Busy'
    BY <2>1, <2>2 DEF Counted
  <2> QED BY <1>0, <2>1, <2>3, <2>4, CountedKept
<1>6. CASE \/ \E r \in Requests : \/ Register(r) \/ AddRaises(r) \/ Open(r) \/ Reader(r)
                                  \/ Abandon(r) \/ CopyEnds(r)
           \/ \E t \in Tokenizers : Tokenizer(t)
           \/ Count \/ TakeOne \/ CountRaises \/ StartRound \/ DecodeRaises \/ Close
           \/ UNCHANGED vars
  <2>1. /\ UNCHANGED <<gen, results, hand, dsess, step>>
        /\ dpc' = "emit" <=> dpc = "emit"
    <3>1. CASE \E r \in Requests : \/ Register(r) \/ AddRaises(r) \/ Open(r) \/ Reader(r)
                                   \/ Abandon(r) \/ CopyEnds(r)
      BY <3>1 DEF Register, AddRaises, Open, Reader, Submit, Read, EndStream, Abandon, Leave,
                  CopyEnds, decode
    <3>2. CASE \/ \E t \in Tokenizers : Tokenizer(t)
               \/ UNCHANGED vars
      BY <3>2 DEF Tokenizer, TakeTask, Encode, decode, vars
    <3>3. CASE Count \/ TakeOne \/ CountRaises \/ StartRound \/ DecodeRaises \/ Close
      BY <3>3 DEF Count, TakeOne, CountRaises, StartRound, DecodeRaises, StepRaises, CopyRaises,
                  Close, decode
    <3> QED BY <1>6, <3>1, <3>2, <3>3
  <2>2. Inbox' = Inbox /\ Busy' = Busy
    BY <2>1 DEF Inbox, Busy
  <2> QED BY <1>0, <2>1, <2>2, CountedKept DEF Counted
<1> QED BY <1>1, <1>2, <1>3, <1>4, <1>5, <1>6 DEF Next, Prefiller, Decoder

-----------------------------------------------------------------------------
\* Clients that read their stream, or will; clients that were told it ended.
Reading == {r \in Requests : client[r] \in {"adding", "added", "open", "read"}}
Over    == {r \in Requests : client[r] \in {"read", "done"}}

\* While the manager runs, a client's stream is registered as long as it reads
\* it, and None is for requests that get no more tokens.
Ended ==
  running => \A r \in Requests : /\ r \in Reading => r \in queues
                                 /\ ~NoNone(chan[r]) \/ r \in Over => ~OnTheWay(r)

\* What was put on a stream are all the tokens of its request but one that waits
\* with its result or is to be emitted, or that was discarded with the session.
\* A copy that fails leaves the buffers of its stream as they were.
Levels(r)   == IF running THEN {gen[r]} ELSE Nat
GivenOut(r) == IF dpc = "emit" THEN gen[r] - 1 ELSE gen[r]
Sent(r, s, d) ==
  /\ FlowOf(chan[r], got[r], s, d, Levels(r))
  /\ d <= gen[r]
  /\ dpc # "dead" => /\ s = stream[r]
                     /\ Between(r) => d = 0
                     /\ r \in Busy => d = GivenOut(r)
Flow(r) == \E s \in Buffers, d \in Nat : Sent(r, s, d)

StreamTypes == /\ chan \in [Requests -> Seq(Seq(Nat))]
               /\ got \in [Requests -> Seq(Nat)]
               /\ stream \in [Requests -> Buffers]

StreamInv == StreamTypes /\ Ended /\ \A r \in Requests : Flow(r)

\* A flow is one of the values that it is about.
LEMMA SentAt ==
  ASSUME NEW r, NEW s, NEW d, NEW q, NEW t, NEW S,
         q = chan'[r], t = got'[r], S = Levels(r)', FlowOf(q, t, s, d, S), d <= gen'[r],
         dpc' # "dead" => /\ s = stream'[r]
                          /\ Between(r)' => d = 0
                          /\ r \in Busy' => d = GivenOut(r)'
  PROVE  Sent(r, s, d)'
<1>1. FlowOf(chan[r], got[r], s, d, Levels(r))'
  BY DEF FlowOf, Pieced, Cuts
<1> QED BY <1>1 DEF Sent

\* A request gets no second end, and no new client is left without its stream.
LEMMA EndedKept ==
  ASSUME Ended, \A r \in Requests : OnTheWay(r)' => OnTheWay(r), running' => running,
         \A r \in Requests :
           running' =>
             /\ r \in Reading' => r \in queues' \/ (r \in Reading /\ (r \in queues => r \in queues'))
             /\ ~NoNone(chan'[r]) => ~NoNone(chan[r]) \/ ~OnTheWay(r)'
             /\ r \in Over' => r \in Over \/ ~NoNone(chan[r]) \/ ~OnTheWay(r)'
  PROVE  Ended'
<1> SUFFICES ASSUME running', NEW r \in Requests
             PROVE  /\ r \in Reading' => r \in queues'
                    /\ ~NoNone(chan'[r]) \/ r \in Over' => ~OnTheWay(r)'
  BY DEF Ended
<1>1. /\ r \in Reading => r \in queues
      /\ ~NoNone(chan[r]) \/ r \in Over => ~OnTheWay(r)
  BY DEF Ended
<1> QED BY <1>1

\* A step that leaves a stream alone: its flow stays, while the count may go up.
LEMMA FlowKept ==
  ASSUME StreamTypes, Counted, NEW r \in Requests, Flow(r),
         chan'[r] = chan[r], got'[r] = got[r], stream'[r] = stream[r],
         gen'[r] \in Nat, gen[r] <= gen'[r],
         running' => running /\ (gen'[r] = gen[r] \/ NoNone(chan[r])),
         dpc' # "dead" => /\ dpc # "dead"
                          /\ Between(r)' => Between(r) \/ gen[r] = 0
                          /\ r \in Busy' => r \in Busy /\ GivenOut(r)' = GivenOut(r)
  PROVE  Flow(r)'
<1>1. PICK s \in Buffers, d \in Nat : Sent(r, s, d)
  BY DEF Flow
<1>2. /\ FlowOf(chan[r], got[r], s, d, Levels(r))
      /\ d <= gen[r]
      /\ dpc # "dead" => /\ s = stream[r]
                         /\ Between(r) => d = 0
                         /\ r \in Busy => d = GivenOut(r)
  BY <1>1 DEF Sent
<1>3. Levels(r) \subseteq Levels(r)' \/ NoNone(chan[r])
  BY DEF Levels, Counted
<1>4. chan[r] \in Seq(Seq(Nat)) /\ got[r] \in Seq(Nat) /\ gen[r] \in Nat
  BY DEF StreamTypes, Counted
<1>5. FlowOf(chan[r], got[r], s, d, Levels(r)')
  BY <1>2, <1>3, <1>4, LevelsMono
<1>6. d <= gen'[r] /\ (gen[r] = 0 => d = 0)
  BY <1>2, <1>4
<1>7. Sent(r, s, d)'
  BY <1>2, <1>5, <1>6, SentAt
<1> QED BY <1>7 DEF Flow

\* Steps that touch no stream.
LEMMA QuietStream ==
  ASSUME IInv, Counted, StreamInv, Counted', \A r \in Requests : OnTheWay(r)' => OnTheWay(r),
         UNCHANGED <<chan, stream, got>>, running' => running,
         \A r \in Requests :
           running' => /\ r \in Reading' => r \in queues' \/ (r \in Reading /\ (r \in queues => r \in queues'))
                       /\ r \in Over' => r \in Over,
         \A r \in Requests : gen'[r] = gen[r] \/ (OnTheWay(r) /\ gen'[r] = gen[r] + 1),
         dpc' # "dead" =>
           \A r \in Requests : /\ dpc # "dead"
                               /\ Between(r)' => Between(r) \/ gen[r] = 0
                               /\ r \in Busy' => r \in Busy /\ GivenOut(r)' = GivenOut(r)
  PROVE  StreamInv'
<1> USE DEF StreamInv
<1>1. StreamTypes'
  BY DEF StreamTypes
<1>2. Ended'
  <2>1. \A r \in Requests : NoNone(chan'[r]) <=> NoNone(chan[r])
    OBVIOUS
  <2> QED BY <2>1, EndedKept
<1>3. ASSUME NEW r \in Requests PROVE Flow(r)'
  <2>1. gen[r] \in Nat /\ gen'[r] \in Nat /\ gen[r] <= gen'[r]
    BY DEF Counted
  <2>2. running /\ OnTheWay(r) => NoNone(chan[r])
    BY DEF Ended
  <2> QED BY <2>1, <2>2, FlowKept
<1> QED BY <1>1, <1>2, <1>3

\* Appending None to some streams, which is all that happens to them.
LEMMA NonesStream ==
  ASSUME Counted, StreamInv, Counted', NEW S \in SUBSET Requests,
         \A r \in Requests : chan'[r] = IF r \in S THEN Append(chan[r], <<>>) ELSE chan[r],
         DOMAIN chan' = Requests, chan' = [r \in Requests |-> chan'[r]],
         UNCHANGED <<stream, got, gen>>, running' => running,
         running' => \A r \in S : gen[r] = 0,
         dpc' # "dead" =>
           \A r \in Requests : /\ dpc # "dead"
                               /\ Between(r)' => Between(r)
                               /\ r \in Busy' => r \in Busy /\ GivenOut(r)' = GivenOut(r)
  PROVE  StreamTypes' /\ \A r \in Requests : Flow(r)'
<1> USE DEF StreamInv
<1>1. ASSUME NEW r \in Requests PROVE chan'[r] \in Seq(Seq(Nat)) /\ Flow(r)'
  <2>1. gen[r] \in Nat /\ gen'[r] = gen[r] /\ stream'[r] = stream[r] /\ got'[r] = got[r]
    BY DEF Counted
  <2>2. chan[r] \in Seq(Seq(Nat)) /\ got[r] \in Seq(Nat)
    BY DEF StreamTypes
  <2>3. CASE r \notin S
    <3>1. chan'[r] = chan[r] /\ gen[r] <= gen'[r]
      BY <2>1, <2>3
    <3>2. Flow(r)'
      BY <2>1, <3>1, FlowKept
    <3> QED BY <2>2, <3>1, <3>2
  <2>4. CASE r \in S
    <3>1. PICK s \in Buffers, d \in Nat : Sent(r, s, d)
      BY DEF Flow
    <3>2. /\ FlowOf(chan[r], got[r], s, d, Levels(r))
          /\ d <= gen[r]
          /\ dpc # "dead" => /\ s = stream[r]
                             /\ Between(r) => d = 0
                             /\ r \in Busy => d = GivenOut(r)
      BY <3>1 DEF Sent
    <3>3. Levels(r) \subseteq Levels(r)' /\ 0..d \subseteq Levels(r)'
      BY <2>1, <2>4, <3>2 DEF Levels
    <3>4. FlowOf(chan[r], got[r], s, d, Levels(r)')
      BY <2>2, <3>2, <3>3, LevelsMono
    <3>5. Append(chan[r], <<>>) \in Seq(Seq(Nat))
          /\ FlowOf(Append(chan[r], <<>>), got[r], s, d, Levels(r)')
      BY <2>2, <3>3, <3>4, FlowNone
    <3>6. chan'[r] = Append(chan[r], <<>>)
      BY <2>4
    <3>7. Sent(r, s, d)'
      BY <2>1, <3>2, <3>5, <3>6, SentAt
    <3> QED BY <3>5, <3>6, <3>7 DEF Flow
  <2> QED BY <2>3, <2>4
<1>2. StreamTypes'
  <2>1. chan' \in [Requests -> Seq(Seq(Nat))]
    BY <1>1
  <2> QED BY <2>1 DEF StreamTypes
<1> QED BY <1>1, <1>2

\* No token leaves a stream as it is; one is put into its text, and perhaps into
\* its queue.
LEMMA FedNone ==
  ASSUME NEW s, NEW holds
  PROVE  Fed(s, <<>>, holds) = [state |-> s, put |-> <<>>]
<1> DEFINE start == [state |-> s, put |-> <<>>]
           toks == <<>>
           body(f) == [k \in 0..Len(toks) |->
             IF k = 0 THEN [state |-> s, put |-> <<>>]
             ELSE LET t == OnToken(f[k - 1].state, toks[k], holds)
                  IN  [state |-> Given(t), put |-> f[k - 1].put \o Pieces(t)]]
           g == CHOOSE f : f = body(f)
<1>1. Fed(s, toks, holds) = g[Len(toks)]
  BY DEF Fed
<1>2. 0..Len(toks) = {0} /\ Len(toks) = 0
  OBVIOUS
<1>3. PICK h : h = [k \in {0} |-> start]
  OBVIOUS
<1>4. h = body(h)
  BY <1>2, <1>3
<1>5. g = body(g)
  BY <1>4
<1>6. g[0] = start
  <2> HIDE DEF g
  <2> QED BY <1>2, <1>5
<1> QED BY <1>1, <1>2, <1>6

LEMMA FedOne ==
  ASSUME NEW s, NEW i, NEW holds, NEW t, t = OnToken(s, i, holds)
  PROVE  Fed(s, <<i>>, holds) = [state |-> Given(t), put |-> <<>> \o Pieces(t)]
<1> DEFINE start == [state |-> s, put |-> <<>>]
           next == [state |-> Given(t), put |-> <<>> \o Pieces(t)]
           toks == <<i>>
           body(f) == [k \in 0..Len(toks) |->
             IF k = 0 THEN [state |-> s, put |-> <<>>]
             ELSE LET u == OnToken(f[k - 1].state, toks[k], holds)
                  IN  [state |-> Given(u), put |-> f[k - 1].put \o Pieces(u)]]
           g == CHOOSE f : f = body(f)
<1>1. Fed(s, toks, holds) = g[Len(toks)]
  BY DEF Fed
<1>2. 0..Len(toks) = {0, 1} /\ Len(toks) = 1 /\ toks[1] = i /\ 1 - 1 = 0
  OBVIOUS
<1>3. PICK h : h = [k \in {0, 1} |-> IF k = 0 THEN start ELSE next]
  OBVIOUS
<1>4. h = body(h)
  BY <1>2, <1>3
<1>5. g = body(g)
  BY <1>4
<1> HIDE DEF g
<1>6. g[0] = start
  BY <1>2, <1>5
<1>7. g[0].state = s /\ g[0].put = <<>>
  BY <1>6
<1>8. \A k \in {0, 1} : k # 0 =>
        g[k] = LET u == OnToken(g[k - 1].state, toks[k], holds)
               IN  [state |-> Given(u), put |-> g[k - 1].put \o Pieces(u)]
  BY <1>2, <1>5
<1>9. g[1] = next
  <2>1. PICK k \in {0, 1} : k = 1
    OBVIOUS
  <2>2. k # 0 /\ g[k - 1] = g[0] /\ toks[k] = i
    BY <1>2, <2>1
  <2>3. OnToken(g[k - 1].state, toks[k], holds) = t /\ g[k - 1].put = <<>>
    BY <1>7, <2>2
  <2> HIDE DEF toks
  <2> QED BY <1>8, <2>1, <2>2, <2>3
<1> QED BY <1>1, <1>2, <1>9

\* Three queues, one behind another.
LEMMA ThreeJoined ==
  ASSUME NEW S, NEW p \in Seq(S), NEW q \in Seq(S), NEW l \in Seq(S)
  PROVE  (p \o q) \o l = p \o (q \o l)
OBVIOUS

\* A stream whose text is sent.
LEMMA GivenIs ==
  ASSUME NEW u, Due(u)
  PROVE  Given(u) = [held |-> u.held, buf |-> <<>>, since |-> 0, sent |-> TRUE]
BY DEF Given, Fresh

\* A stream that is given its next token.
LEMMA FlowOnToken ==
  ASSUME NEW q \in Seq(Seq(Nat)), NEW t \in Seq(Nat), NEW s \in Buffers, NEW d \in Nat, NEW S,
         FlowOf(q, t, s, d, S), NEW i, i = d + 1, NEW holds \in BOOLEAN,
         NEW u, u = OnToken(s, i, holds)
  PROVE  u \in Buffers /\ FlowOf(q, t, u, i, S)
<1>1. u = IF holds THEN [s EXCEPT !.held = Append(@, i), !.since = @ + 1]
          ELSE [s EXCEPT !.buf = @ \o s.held \o <<i>>, !.held = <<>>, !.since = @ + 1]
  BY DEF OnToken
<1> QED BY <1>1, FlowToken

\* What was put on a stream, after what was in its queue already.
Delivered(q, t, f, d, S, ends) ==
  /\ f.state \in Buffers /\ q \o f.put \in Seq(Seq(Nat))
  /\ FlowOf(q \o f.put, t, f.state, d, S)
  /\ ends = FALSE /\ NoNone(q) => NoNone(q \o f.put)

\* The tokens a stream is given follow those it has, and its end follows them.
LEMMA FlowFed ==
  ASSUME NEW q \in Seq(Seq(Nat)), NEW t \in Seq(Nat), NEW s \in Buffers, NEW d \in Nat, NEW S,
         FlowOf(q, t, s, d, S), NEW toks, NEW e \in Nat,
         (toks = <<>> /\ e = d) \/ (toks = <<e>> /\ e = d + 1),
         NEW holds \in BOOLEAN, NEW ends \in BOOLEAN, ends = TRUE => e \in S,
         NEW f, f = FedTo(s, toks, holds, ends)
  PROVE  Delivered(q, t, f, e, S, ends)
<1>1. PICK p, g : Fed(s, toks, holds) = [state |-> g, put |-> p]
               /\ p \in Seq(Seq(Nat)) /\ q \o p \in Seq(Seq(Nat)) /\ g \in Buffers
               /\ FlowOf(q \o p, t, g, e, S) /\ (NoNone(q) => NoNone(q \o p))
  <2>1. CASE toks = <<>> /\ e = d
    <3>1. Fed(s, toks, holds) = [state |-> s, put |-> <<>>]
      BY <2>1, FedNone
    <3>2. <<>> \in Seq(Seq(Nat)) /\ q \o <<>> = q
      OBVIOUS
    <3> QED BY <2>1, <3>1, <3>2
  <2>2. CASE toks = <<e>> /\ e = d + 1
    <3>1. PICK u : u = OnToken(s, e, holds)
      OBVIOUS
    <3>2. Fed(s, toks, holds) = [state |-> Given(u), put |-> <<>> \o Pieces(u)]
      BY <2>2, <3>1, FedOne
    <3>3. u \in Buffers /\ FlowOf(q, t, u, e, S)
      BY <2>2, <3>1, FlowOnToken
    <3>4. CASE Due(u)
      <4>1. PICK g : g = [held |-> u.held, buf |-> <<>>, since |-> 0, sent |-> TRUE]
        OBVIOUS
      <4>2. Given(u) = g /\ Pieces(u) = <<u.buf>> /\ u.buf # <<>> /\ u.buf \in Seq(Nat)
        <5>1. Given(u) = g
          BY <3>4, <4>1, GivenIs
        <5>2. Pieces(u) = <<u.buf>> /\ u.buf # <<>>
          BY <3>4 DEF Pieces, Due
        <5>3. u.buf \in Seq(Nat)
          BY <3>3 DEF Buffers
        <5> QED BY <5>1, <5>2, <5>3
      <4>3. PICK p : p = <<u.buf>>
        OBVIOUS
      <4>4. p \in Seq(Seq(Nat)) /\ <<>> \o p = p
        BY <4>2, <4>3
      <4>5. /\ g \in Buffers /\ q \o p \in Seq(Seq(Nat))
            /\ FlowOf(q \o p, t, g, e, S) /\ (NoNone(q) => NoNone(q \o p))
        BY <3>3, <4>1, <4>2, <4>3, FlowSend
      <4> QED BY <3>2, <4>2, <4>3, <4>4, <4>5
    <3>5. CASE ~Due(u)
      <4>1. Given(u) = u /\ Pieces(u) = <<>>
        BY <3>5 DEF Given, Pieces
      <4>2. <<>> \in Seq(Seq(Nat)) /\ <<>> \o <<>> = <<>> /\ q \o <<>> = q
        OBVIOUS
      <4> QED BY <3>2, <3>3, <4>1, <4>2
    <3> QED BY <3>4, <3>5
  <2> QED BY <2>1, <2>2
<1>2. CASE ends = FALSE
  <2>1. f = [state |-> g, put |-> p]
    BY <1>1, <1>2 DEF FedTo
  <2> QED BY <1>1, <2>1 DEF Delivered
<1>3. CASE ends = TRUE
  <2>1. PICK l, h : l = LastPieces(g) /\ h = Fresh
    OBVIOUS
  <2>2. f = [state |-> h, put |-> p \o l]
    BY <1>1, <1>3, <2>1 DEF FedTo
  <2>3. l = (IF g.buf \o g.held = <<>> THEN <<(<<>>)>> ELSE <<g.buf \o g.held, <<>> >>)
        /\ h.buf = <<>> /\ h.held = <<>> /\ h \in Buffers
    BY <2>1 DEF LastPieces, None, Fresh, Buffers
  <2>4. l \in Seq(Seq(Nat))
    <3>1. PICK x, y : x = g.buf \o g.held /\ y = <<>>
      OBVIOUS
    <3>2. x \in Seq(Nat) /\ y \in Seq(Nat)
      BY <1>1, <3>1 DEF Buffers
    <3>3. l = IF x = y THEN <<y>> ELSE <<x, y>>
      BY <2>3, <3>1
    <3> QED BY <3>2, <3>3
  <2>5. PICK m : m = q \o p
    OBVIOUS
  <2>6. m \o l \in Seq(Seq(Nat)) /\ FlowOf(m \o l, t, h, e, S)
    <3>1. m \in Seq(Seq(Nat)) /\ FlowOf(m, t, g, e, S) /\ g \in Buffers /\ e \in S
      BY <1>1, <1>3, <2>5
    <3> QED BY ONLY <2>3, <3>1, e \in Nat, t \in Seq(Nat), FlowEnd
  <2>7. q \o (p \o l) = m \o l
    <3>1. p \in Seq(Seq(Nat))
      BY <1>1
    <3>2. (q \o p) \o l = q \o (p \o l)
      BY ONLY <2>4, <3>1, q \in Seq(Seq(Nat)), ThreeJoined
    <3> QED BY <2>5, <3>2
  <2>8. f.state = h /\ f.put = p \o l
    BY <2>2
  <2>9. q \o f.put = m \o l
    BY <2>7, <2>8
  <2> QED BY <1>3, <2>3, <2>6, <2>8, <2>9 DEF Delivered
<1> QED BY <1>2, <1>3

\* None at the end of some streams.
LEMMA NoneAppended ==
  ASSUME StreamTypes, NEW S,
         \/ Put(S, <<None>>)
         \/ chan' = [r \in Requests |-> IF r \in S THEN Append(chan[r], None) ELSE chan[r]]
  PROVE  /\ \A r \in Requests : chan'[r] = IF r \in S \cap Requests THEN Append(chan[r], <<>>) ELSE chan[r]
         /\ DOMAIN chan' = Requests /\ chan' = [r \in Requests |-> chan'[r]]
<1>1. PICK p : p = <<>>
  OBVIOUS
<1>2. ASSUME NEW r \in Requests PROVE chan[r] \o <<p>> = Append(chan[r], p)
  <2>1. p \in Seq(Nat) /\ chan[r] \in Seq(Seq(Nat))
    BY <1>1 DEF StreamTypes
  <2> QED BY <2>1, ConcatOne
<1>3. chan' = [r \in Requests |-> IF r \in S THEN Append(chan[r], p) ELSE chan[r]]
  <2>1. CASE Put(S, <<None>>)
    <3>1. chan' = [r \in Requests |-> IF r \in S THEN chan[r] \o <<p>> ELSE chan[r]]
      BY <1>1, <2>1 DEF Put, None
    <3> QED BY <1>2, <3>1
  <2>2. CASE chan' = [r \in Requests |-> IF r \in S THEN Append(chan[r], None) ELSE chan[r]]
    BY <1>1, <2>2 DEF None
  <2> QED BY <2>1, <2>2
<1> QED BY <1>1, <1>3

\* The client reads the next piece, or None.
LEMMA ReadStream ==
  ASSUME IInv, Counted, StreamInv, NEW r \in Requests, Read(r), Counted',
         \A q \in Requests : OnTheWay(q)' => OnTheWay(q)
  PROVE  StreamInv'
<1> USE DEF StreamInv
<1>1. /\ client[r] = "open" /\ chan[r] # <<>>
      /\ chan' = [chan EXCEPT ![r] = Tail(@)]
      /\ got' = [got EXCEPT ![r] = @ \o Head(chan[r])]
      /\ client' = [client EXCEPT ![r] = IF Head(chan[r]) = <<>> THEN "read" ELSE @]
      /\ UNCHANGED <<running, queues, stream, gen, Busy, dpc, results, hand>>
  BY DEF Read, None, decode, Busy
<1>2. client'[r] = (IF Head(chan[r]) = <<>> THEN "read" ELSE "open")
      /\ \A p \in Requests \ {r} : client'[p] = client[p]
  BY <1>1 DEF IInv, Types
<1>3. PICK q, t : q = chan[r] /\ t = got[r]
  OBVIOUS
<1>4. q \in Seq(Seq(Nat)) /\ t \in Seq(Nat) /\ q # <<>>
  BY <1>1, <1>3 DEF StreamTypes
<1>5. PICK s \in Buffers, d \in Nat : Sent(r, s, d)
  BY DEF Flow
<1>6. /\ FlowOf(q, t, s, d, Levels(r))
      /\ d <= gen[r]
      /\ dpc # "dead" => /\ s = stream[r]
                         /\ Between(r) => d = 0
                         /\ r \in Busy => d = GivenOut(r)
  BY <1>3, <1>5 DEF Sent
<1>7. /\ Tail(q) \in Seq(Seq(Nat)) /\ t \o Head(q) \in Seq(Nat)
      /\ FlowOf(Tail(q), t \o Head(q), s, d, Levels(r))
      /\ NoNone(q) => NoNone(Tail(q))
  BY ONLY <1>4, <1>6, s \in Buffers, d \in Nat, FlowGet
<1>8. chan' = [chan EXCEPT ![r] = Tail(q)] /\ got' = [got EXCEPT ![r] = t \o Head(q)]
  BY <1>1, <1>3
<1>9. StreamTypes'
  BY <1>1, <1>7, <1>8 DEF StreamTypes
<1>10. chan'[r] = Tail(q) /\ got'[r] = t \o Head(q)
       /\ \A p \in Requests \ {r} : chan'[p] = chan[p] /\ got'[p] = got[p]
  BY <1>8 DEF StreamTypes
<1>11. (\A p : Between(p)' <=> Between(p)) /\ (\A p \in Requests : GivenOut(p)' = GivenOut(p))
       /\ \A p \in Requests : Levels(p)' = Levels(p)
  BY <1>1 DEF Between, Inbox, GivenOut, Levels
<1>12. \A p \in Requests : Flow(p)'
  <2>1. Flow(r)'
    <3>1. Sent(r, s, d)'
      BY <1>1, <1>6, <1>7, <1>10, <1>11, SentAt
    <3> QED BY <3>1 DEF Flow
  <2>2. ASSUME NEW p \in Requests \ {r} PROVE Flow(p)'
    <3>1. gen[p] \in Nat /\ gen'[p] = gen[p] /\ gen[p] <= gen'[p]
      BY <1>1 DEF Counted
    <3> QED BY <1>1, <1>10, <1>11, <3>1, FlowKept
  <2> QED BY <2>1, <2>2
<1>13. Head(q) = <<>> => ~NoNone(q)
  BY <1>4, TailFacts DEF NoNone
<1>14. Ended'
  <2>1. /\ r \in Reading' => r \in Reading
        /\ r \in Over' => r \in Over \/ ~NoNone(chan[r])
    BY <1>1, <1>2, <1>3, <1>13 DEF Reading, Over
  <2>2. \A p \in Requests \ {r} : (p \in Reading' <=> p \in Reading) /\ (p \in Over' <=> p \in Over)
    BY <1>2 DEF Reading, Over
  <2>3. \A p \in Requests : ~NoNone(chan'[p]) => ~NoNone(chan[p])
    BY <1>3, <1>7, <1>10
  <2> QED BY <1>1, <2>1, <2>2, <2>3, EndedKept
<1> QED BY <1>9, <1>12, <1>14

\* The manager stops: every stream that is registered ends.
LEMMA StopStream ==
  ASSUME IInv, Counted, StreamInv, Counted',
         Close \/ CountRaises \/ (DecodeRaises /\ StepRaises)
  PROVE  StreamInv'
<1>1. /\ running' = FALSE /\ UNCHANGED <<stream, got, gen, Busy, results, hand>>
      /\ dpc' = dpc \/ dpc' = "dead"
      /\ \/ Put(queues, <<None>>)
         \/ chan' = [r \in Requests |-> IF r \in queues THEN Append(chan[r], None) ELSE chan[r]]
  BY DEF Close, CountRaises, DecodeRaises, StepRaises, NotifiedAll, clients, decode, Busy
<1>2. PICK S \in SUBSET Requests : S = queues \cap Requests
  OBVIOUS
<1>3. /\ \A r \in Requests : chan'[r] = IF r \in S THEN Append(chan[r], <<>>) ELSE chan[r]
      /\ DOMAIN chan' = Requests /\ chan' = [r \in Requests |-> chan'[r]]
  BY <1>1, <1>2, NoneAppended DEF StreamInv
<1>4. (\A p : Between(p)' <=> Between(p))
      /\ (dpc' # "dead" => \A p \in Requests : GivenOut(p)' = GivenOut(p))
  BY <1>1 DEF Between, Inbox, GivenOut
<1>5. StreamTypes' /\ \A r \in Requests : Flow(r)'
  BY <1>1, <1>3, <1>4, NonesStream
<1> QED BY <1>1, <1>5 DEF StreamInv, Ended

\* A prompt that cannot be tokenized: its stream ends with nothing.
LEMMA EncodeStream ==
  ASSUME IInv, Counted, StreamInv, Counted', \A q \in Requests : OnTheWay(q)' => OnTheWay(q),
         NEW t \in Tokenizers, Encode(t), Put(toker[t].on, <<None>>), UNCHANGED pending
  PROVE  StreamInv'
<1>0. Types /\ Once /\ Forward
  BY DEF IInv
<1>1. /\ UNCHANGED <<running, queues, stream, got, gen, Busy, results, hand, dpc, tokQ, batch, client>>
      /\ toker' = [toker EXCEPT ![t] = Idle]
  BY DEF Encode, decode, clients, prefill, Busy
<1>2. PICK on : on = toker[t].on
  OBVIOUS
<1>3. on \in SUBSET Requests
  <2>1. on \in Tasks
    BY <1>0, <1>2 DEF Types
  <2> QED BY <2>1 DEF Tasks
<1>4. /\ \A r \in Requests : chan'[r] = IF r \in on THEN Append(chan[r], <<>>) ELSE chan[r]
      /\ DOMAIN chan' = Requests /\ chan' = [r \in Requests |-> chan'[r]]
  BY <1>2, <1>3, NoneAppended DEF StreamInv
<1>5. \A r \in on : Encoded(r) /\ Coming(r) /\ gen[r] = 0
  BY <1>2, <1>3 DEF Encoded, Coming, Before, Counted
<1>6. (\A p : Between(p)' <=> Between(p)) /\ (\A p \in Requests : GivenOut(p)' = GivenOut(p))
  BY <1>1 DEF Between, Inbox, GivenOut
<1>7. StreamTypes' /\ \A r \in Requests : Flow(r)'
  BY <1>1, <1>3, <1>4, <1>5, <1>6, NonesStream
<1>8. \A r \in on : ~OnTheWay(r)'
  <2> SUFFICES ASSUME NEW r \in on PROVE ~OnTheWay(r)'
    OBVIOUS
  <2>1. r \in Requests /\ Encoded(r) /\ client[r] \notin Early /\ ~Between(r) /\ r \notin Busy
    BY <1>0, <1>3, <1>5, InboxFacts DEF Forward, Before, Early
  <2>2. ~Asked(r) /\ ~Waiting(r)
    BY <1>0, <2>1 DEF Once
  <2>3. ~Encoded(r)'
    <3>1. toker'[t].on = {} /\ \A u \in Tokenizers \ {t} : toker'[u] = toker[u]
      BY <1>0, <1>1 DEF Types, Idle
    <3>2. \A u \in Tokenizers : r \in toker[u].on => u = t
      BY <1>0, <1>2 DEF Once
    <3> QED BY <3>1, <3>2 DEF Encoded
  <2>4. ~Coming(r)'
    BY <1>1, <2>1, <2>2, <2>3 DEF Coming, Before, Asked, Waiting
  <2> QED BY <1>1, <1>6, <2>1, <2>4 DEF OnTheWay
<1>9. Ended'
  <2>1. Reading' = Reading /\ Over' = Over
    BY <1>1 DEF Reading, Over
  <2>2. \A r \in Requests : ~NoNone(chan'[r]) => ~NoNone(chan[r]) \/ ~OnTheWay(r)'
    BY <1>4, <1>8
  <2> QED BY <1>1, <2>1, <2>2, EndedKept DEF StreamInv
<1> QED BY <1>7, <1>9 DEF StreamInv

\* The stream of a result gets its first token, if it has one, and its end, if it
\* gets no more.
LEMMA ResultFed ==
  ASSUME IInv, Counted, StreamInv, dpc = "handle", NEW res \in hand, NEW holding,
         NEW r, r = res.rid, NEW S, Levels(r) \subseteq S,
         NEW f, f = FedByResult(res, holding)
  PROVE  Delivered(chan[r], got[r], f, gen[r], S, res.fin)
<1>1. r \in Requests /\ res.fin \in BOOLEAN /\ res.err \in BOOLEAN /\ res \in Inbox /\ Between(r)
  BY InboxFacts DEF Inbox, Results, Between
<1>2. PICK s \in Buffers, d \in Nat : Sent(r, s, d)
  BY <1>1 DEF StreamInv, Flow
<1>3. s = stream[r] /\ d = 0 /\ FlowOf(chan[r], got[r], s, d, Levels(r))
  BY <1>1, <1>2 DEF Sent
<1>4. PICK q, t : q = chan[r] /\ t = got[r]
  OBVIOUS
<1>5. q \in Seq(Seq(Nat)) /\ t \in Seq(Nat)
  BY <1>1, <1>4 DEF StreamInv, StreamTypes
<1>6. FlowOf(q, t, s, d, S)
  BY <1>3, <1>4, <1>5, LevelsMono
<1>7. PICK e, toks : /\ e = gen[r] /\ e \in Nat /\ toks = Initial(res)
                     /\ (toks = <<>> /\ e = d) \/ (toks = <<e>> /\ e = d + 1)
  <2>1. CASE res.err
    <3>1. gen[r] = 0 /\ Initial(res) = <<>>
      BY <1>1, <2>1 DEF Counted, Initial
    <3> QED BY <1>3, <3>1
  <2>2. CASE ~res.err
    <3>1. gen[r] = 1 /\ Initial(res) = <<1>>
      BY <1>1, <2>2 DEF Counted, Initial
    <3> QED BY <1>3, <3>1
  <2> QED BY <2>1, <2>2
<1>8. PICK holds, ends : holds = (holding # {}) /\ ends = res.fin
  OBVIOUS
<1>9. holds \in BOOLEAN /\ ends \in BOOLEAN /\ f = FedTo(s, toks, holds, ends)
  BY <1>1, <1>3, <1>7, <1>8 DEF FedByResult
<1>10. e \in S
  BY <1>1, <1>7 DEF Levels
<1>11. Delivered(q, t, f, e, S, ends)
  <2>1. e \in Nat /\ ((toks = <<>> /\ e = d) \/ (toks = <<e>> /\ e = d + 1))
    BY <1>7
  <2> QED BY ONLY <1>5, <1>6, <1>9, <1>10, <2>1, s \in Buffers, d \in Nat, FlowFed
<1> QED BY <1>4, <1>7, <1>8, <1>11

\* A result is handled.
LEMMA HandleStream ==
  ASSUME IInv, Counted, StreamInv, Counted', \A q \in Requests : OnTheWay(q)' => OnTheWay(q),
         HandleResult
  PROVE  StreamInv'
<1> USE DEF StreamInv
<1>0. Types /\ Stages /\ Forward /\ Handover
  BY DEF IInv
<1>1. PICK res, holding :
        /\ res \in hand
        /\ IF res.rid \in found
           THEN chan' = [chan EXCEPT ![res.rid] = @ \o FedByResult(res, holding).put]
                /\ stream' = [stream EXCEPT ![res.rid] = FedByResult(res, holding).state]
           ELSE UNCHANGED <<chan, stream>>
        /\ Busy' = Busy \cup Adopted(res)
  BY DEF HandleResult, Busy
<1>2. PICK r, f : r = res.rid /\ f = FedByResult(res, holding)
  OBVIOUS
<1>3. /\ UNCHANGED <<running, queues, results, gen, got, client>> /\ hand' = {}
      /\ dpc = "handle" /\ dpc' = "ingest"
  BY DEF HandleResult, clients
<1>4. r \in Requests /\ res \in Inbox /\ Between(r) /\ res.fin \in BOOLEAN
  BY <1>1, <1>2, InboxFacts DEF Inbox, Results, Between
<1>5. ~Between(r)' /\ r \notin Busy
  <2>1. \A x \in Range(results) : x.rid # r
    <3>1. ~Resulted(r)
      BY <1>0, <1>1, <1>2 DEF Handover
    <3> QED BY <1>0, <3>1, SeqFacts DEF Types, Resulted
  <2> QED BY <1>3, <1>4, <2>1 DEF Between, Inbox, Counted
<1>6. /\ \A p : Between(p)' => Between(p)
      /\ \A p \in Requests : GivenOut(p)' = gen[p] /\ GivenOut(p) = gen[p]
      /\ \A p \in Requests : Levels(p)' = Levels(p)
      /\ \A p \in Requests \ {r} : p \in Busy' => p \in Busy
      /\ r \in Busy' => r \in found /\ ~res.fin
  <2>1. \A p : Between(p)' => Between(p)
    BY <1>3 DEF Between, Inbox
  <2>2. \A p \in Requests : GivenOut(p)' = gen[p] /\ GivenOut(p) = gen[p] /\ Levels(p)' = Levels(p)
    BY <1>3 DEF GivenOut, Levels
  <2>3. /\ \A p \in Requests \ {r} : p \in Busy' => p \in Busy
        /\ r \in Busy' => r \in found /\ ~res.fin
    BY <1>1, <1>2, <1>5 DEF Adopted
  <2> QED BY <2>1, <2>2, <2>3
<1>7. /\ f.state \in Buffers /\ chan[r] \o f.put \in Seq(Seq(Nat))
      /\ FlowOf(chan[r] \o f.put, got[r], f.state, gen[r], Levels(r))
      /\ ~res.fin /\ NoNone(chan[r]) => NoNone(chan[r] \o f.put)
  <2>1. Delivered(chan[r], got[r], f, gen[r], Levels(r), res.fin)
    BY <1>1, <1>2, <1>3, ResultFed
  <2> QED BY <1>4, <2>1 DEF Delivered
<1>8. \/ UNCHANGED <<chan, stream>> /\ r \notin Busy'
      \/ /\ chan' = [chan EXCEPT ![r] = chan[r] \o f.put]
         /\ stream' = [stream EXCEPT ![r] = f.state]
  BY <1>1, <1>2, <1>6
<1>9. StreamTypes'
  BY <1>3, <1>7, <1>8 DEF StreamTypes
<1>10. \A p \in Requests \ {r} : chan'[p] = chan[p] /\ stream'[p] = stream[p]
  BY <1>8 DEF StreamTypes
<1>11. ASSUME NEW p \in Requests PROVE Flow(p)'
  <2>1. gen[p] \in Nat /\ gen'[p] = gen[p] /\ gen[p] <= gen'[p] /\ got'[p] = got[p]
    BY <1>3 DEF Counted
  <2>2. CASE p # r \/ (UNCHANGED <<chan, stream>> /\ r \notin Busy')
    <3>1. chan'[p] = chan[p] /\ stream'[p] = stream[p]
      BY <1>10, <2>2
    <3>2. dpc # "dead" /\ (p \in Busy' => p \in Busy)
      BY <1>3, <1>6, <2>2
    <3> QED BY <1>3, <1>6, <2>1, <3>1, <3>2, FlowKept
  <2>3. CASE p = r /\ chan' = [chan EXCEPT ![r] = chan[r] \o f.put]
                   /\ stream' = [stream EXCEPT ![r] = f.state]
    <3>1. chan'[r] = chan[r] \o f.put /\ stream'[r] = f.state
      BY <1>4, <2>3 DEF StreamTypes
    <3>2. Sent(r, f.state, gen[r])'
      BY <1>5, <1>6, <1>7, <2>1, <2>3, <3>1, SentAt
    <3> QED BY <1>7, <2>1, <2>3, <3>2 DEF Flow
  <2> QED BY <1>8, <2>2, <2>3
<1>12. Ended'
  <2>1. Reading' = Reading /\ Over' = Over
    BY <1>3 DEF Reading, Over
  <2>2. ASSUME ~NoNone(chan'[r]) PROVE ~NoNone(chan[r]) \/ ~OnTheWay(r)'
    <3>1. CASE UNCHANGED <<chan, stream>>
      BY <2>2, <3>1
    <3>2. CASE chan' = [chan EXCEPT ![r] = chan[r] \o f.put] /\ NoNone(chan[r])
      <4>1. chan'[r] = chan[r] \o f.put
        BY <1>4, <3>2 DEF StreamTypes
      <4>2. res.fin
        BY <1>4, <1>7, <2>2, <3>2, <4>1
      <4>3. ~Coming(r)'
        BY <1>4, NextInv, InboxFacts DEF Fewer, Next, Decoder
      <4> QED BY <1>5, <1>6, <4>2, <4>3 DEF OnTheWay
    <3> QED BY <1>8, <3>1, <3>2
  <2>3. \A p \in Requests : ~NoNone(chan'[p]) => ~NoNone(chan[p]) \/ ~OnTheWay(p)'
    BY <1>10, <2>2
  <2> QED BY <1>3, <2>1, <2>3, EndedKept
<1> QED BY <1>9, <1>11, <1>12

\* The copy into the decoder's pool fails after the first token was put; the
\* manager stops.
LEMMA CopyStream ==
  ASSUME IInv, Counted, StreamInv, Counted', DecodeRaises, CopyRaises
  PROVE  StreamInv'
<1> USE DEF StreamInv
<1>1. PICK res, holding :
        /\ res \in hand
        /\ chan' = NotifiedAll([chan EXCEPT ![res.rid] = @ \o FedByResult(res, holding).put])
  BY DEF CopyRaises
<1>2. PICK r, f : r = res.rid /\ f = FedByResult(res, holding)
  OBVIOUS
<1>3. /\ UNCHANGED <<gen, got, stream>> /\ running' = FALSE
      /\ dpc = "handle" /\ dpc' = "dead"
  BY DEF DecodeRaises, CopyRaises, clients
<1>4. r \in Requests
  BY <1>1, <1>2, InboxFacts DEF Inbox, Results
<1>5. PICK c : c = [chan EXCEPT ![r] = chan[r] \o f.put]
  OBVIOUS
<1>6. \A p \in Requests : chan'[p] = (IF p \in queues THEN Append(c[p], <<>>) ELSE c[p])
  BY <1>1, <1>2, <1>5 DEF NotifiedAll, None
<1>7. /\ f.state \in Buffers /\ chan[r] \o f.put \in Seq(Seq(Nat))
      /\ FlowOf(chan[r] \o f.put, got[r], f.state, gen[r], Nat)
  <2>1. Levels(r) \subseteq Nat
    BY <1>4 DEF Levels, Counted
  <2>2. Delivered(chan[r], got[r], f, gen[r], Nat, res.fin)
    BY <1>1, <1>2, <1>3, <2>1, ResultFed
  <2> QED BY <2>2 DEF Delivered
<1>8. ASSUME NEW p \in Requests
      PROVE  c[p] \in Seq(Seq(Nat)) /\ \E s \in Buffers, d \in Nat : FlowOf(c[p], got[p], s, d, Nat) /\ d <= gen[p]
  <2>1. gen[p] \in Nat /\ gen[p] <= gen[p]
    BY DEF Counted
  <2>2. CASE p = r
    <3>1. c[p] = chan[r] \o f.put
      BY <1>4, <1>5, <2>2 DEF StreamTypes
    <3> QED BY <1>7, <2>1, <2>2, <3>1
  <2>3. CASE p # r
    <3>1. c[p] = chan[p] /\ chan[p] \in Seq(Seq(Nat)) /\ got[p] \in Seq(Nat)
      BY <1>5, <2>3 DEF StreamTypes
    <3>2. PICK s \in Buffers, d \in Nat : FlowOf(chan[p], got[p], s, d, Levels(p)) /\ d <= gen[p]
      BY DEF Flow, Sent
    <3>3. Levels(p) \subseteq Nat
      BY <2>1 DEF Levels
    <3>4. FlowOf(chan[p], got[p], s, d, Nat)
      BY <3>1, <3>2, <3>3, LevelsMono
    <3> QED BY <3>1, <3>2, <3>4
  <2> QED BY <2>2, <2>3
<1>9. ASSUME NEW p \in Requests PROVE chan'[p] \in Seq(Seq(Nat)) /\ Flow(p)'
  <2>1. PICK q, t : q = c[p] /\ t = got[p]
    OBVIOUS
  <2>2. q \in Seq(Seq(Nat)) /\ t \in Seq(Nat)
    BY <1>8, <2>1 DEF StreamTypes
  <2>3. PICK s \in Buffers, d \in Nat : FlowOf(q, t, s, d, Nat) /\ d <= gen[p]
    BY <1>8, <2>1
  <2>4. Append(q, <<>>) \in Seq(Seq(Nat)) /\ FlowOf(Append(q, <<>>), t, s, d, Nat)
    <3>1. 0..d \subseteq Nat
      OBVIOUS
    <3> QED BY <2>2, <2>3, <3>1, FlowNone
  <2>5. chan'[p] \in Seq(Seq(Nat)) /\ FlowOf(chan'[p], t, s, d, Nat)
    BY <1>6, <2>1, <2>2, <2>3, <2>4
  <2>6. Levels(p)' = Nat /\ got'[p] = t /\ d <= gen'[p]
    BY <1>3, <2>1, <2>3 DEF Levels
  <2>7. Sent(p, s, d)'
    BY <1>3, <2>5, <2>6, SentAt
  <2> QED BY <2>5, <2>7 DEF Flow
<1>10. StreamTypes'
  <2>1. chan' = [p \in Requests |-> chan'[p]]
    BY <1>1 DEF NotifiedAll
  <2>2. chan' \in [Requests -> Seq(Seq(Nat))]
    BY <1>9, <2>1
  <2> QED BY <1>3, <2>2 DEF StreamTypes
<1> QED BY <1>3, <1>9, <1>10 DEF Ended

\* What Emit gives the stream of a request.
Emitted(r, holding) == FedTo(stream[r], <<gen[r]>>, r \in holding, r \in step.fin)

\* A request of the last step gets its token, and its end, if it gets no more.
LEMMA StepFed ==
  ASSUME IInv, Counted, StreamInv, dpc = "emit", NEW r \in Busy, NEW holding,
         NEW holds, holds = (r \in holding), NEW ends, ends = (r \in step.fin),
         NEW f, f = FedTo(stream[r], <<gen[r]>>, holds, ends)
  PROVE  Delivered(chan[r], got[r], f, gen[r], Levels(r), ends)
<1>1. r \in Requests /\ gen[r] \in Nat /\ gen[r] > 0
  BY InboxFacts DEF Counted
<1>2. PICK s \in Buffers, d \in Nat : Sent(r, s, d)
  BY <1>1 DEF StreamInv, Flow
<1>3. s = stream[r] /\ d = gen[r] - 1 /\ FlowOf(chan[r], got[r], s, d, Levels(r))
  BY <1>2 DEF Sent, GivenOut
<1>4. PICK q, t, S : q = chan[r] /\ t = got[r] /\ S = Levels(r)
  OBVIOUS
<1>5. q \in Seq(Seq(Nat)) /\ t \in Seq(Nat) /\ FlowOf(q, t, s, d, S)
  BY <1>1, <1>3, <1>4 DEF StreamInv, StreamTypes
<1>6. PICK e, toks : e = gen[r] /\ toks = <<e>>
  OBVIOUS
<1>7. e \in Nat /\ e = d + 1 /\ e \in S
  BY <1>1, <1>3, <1>4, <1>6 DEF Levels
<1>8. holds \in BOOLEAN /\ ends \in BOOLEAN /\ f = FedTo(s, toks, holds, ends)
  BY <1>3, <1>6
<1>9. Delivered(q, t, f, e, S, ends)
  BY ONLY <1>5, <1>6, <1>7, <1>8, s \in Buffers, d \in Nat, FlowFed
<1> QED BY <1>4, <1>6, <1>9

\* The tokens of a step are emitted, and the sessions it finished are discarded.
LEMMA EmitStream ==
  ASSUME IInv, Counted, StreamInv, Counted', \A q \in Requests : OnTheWay(q)' => OnTheWay(q),
         Emit
  PROVE  StreamInv'
<1> USE DEF StreamInv
<1>1. PICK to, holding :
        /\ to = step.fed \cap found
        /\ chan' = [r \in Requests |-> IF r \in to THEN chan[r] \o Emitted(r, holding).put ELSE chan[r]]
        /\ stream' = [r \in Requests |-> IF r \in to THEN Emitted(r, holding).state ELSE stream[r]]
  <2>1. PICK holding :
          LET to == step.fed \cap found
              fed(r) == FedTo(stream[r], <<gen[r]>>, r \in holding, r \in step.fin)
          IN  /\ chan' = [r \in Requests |-> IF r \in to THEN chan[r] \o fed(r).put ELSE chan[r]]
              /\ stream' = [r \in Requests |-> IF r \in to THEN fed(r).state ELSE stream[r]]
    BY Zenon DEF Emit
  <2>2. PICK to : to = step.fed \cap found
    OBVIOUS
  <2>3. /\ chan' = [r \in Requests |-> IF r \in to THEN chan[r] \o Emitted(r, holding).put ELSE chan[r]]
        /\ stream' = [r \in Requests |-> IF r \in to THEN Emitted(r, holding).state ELSE stream[r]]
    BY Zenon, <2>1, <2>2 DEF Emitted
  <2> QED BY <2>2, <2>3
<1>2. /\ UNCHANGED <<running, queues, results, hand, gen, got, client>>
      /\ dpc = "emit" /\ dpc' = "top"
      /\ to \subseteq Busy /\ Busy' \subseteq to \ step.fin
  <2>1. /\ UNCHANGED <<running, queues, results, hand, gen, got, client>>
        /\ dpc = "emit" /\ dpc' = "top" /\ dsess' = Keeps
    BY DEF Emit, clients
  <2>2. Busy = step.fed /\ Busy' = dsess' /\ dsess \subseteq Busy
    BY <2>1 DEF Busy, Counted
  <2> QED BY <1>1, <2>1, <2>2 DEF Keeps
<1>3. /\ \A p : Between(p)' <=> Between(p)
      /\ \A p \in Requests : Levels(p)' = Levels(p) /\ GivenOut(p)' = gen[p]
  BY <1>2 DEF Between, Inbox, Levels, GivenOut
<1>4. ASSUME NEW p \in Requests
      PROVE  /\ chan'[p] \in Seq(Seq(Nat)) /\ stream'[p] \in Buffers /\ Flow(p)'
             /\ NoNone(chan[p]) => NoNone(chan'[p]) \/ ~OnTheWay(p)'
  <2>1. gen[p] \in Nat /\ gen'[p] = gen[p] /\ gen[p] <= gen'[p] /\ got'[p] = got[p]
        /\ chan[p] \in Seq(Seq(Nat)) /\ stream[p] \in Buffers
    BY <1>2 DEF Counted, StreamTypes
  <2>2. CASE p \notin to
    <3>1. chan'[p] = chan[p] /\ stream'[p] = stream[p] /\ p \notin Busy'
      BY <1>1, <1>2, <2>2
    <3>2. Flow(p)'
      BY <1>2, <1>3, <2>1, <3>1, FlowKept
    <3> QED BY <2>1, <3>1, <3>2
  <2>3. CASE p \in to
    <3>1. PICK holds, ends : holds = (p \in holding) /\ ends = (p \in step.fin)
      OBVIOUS
    <3>2. PICK f : f = FedTo(stream[p], <<gen[p]>>, holds, ends)
      OBVIOUS
    <3>3. chan'[p] = chan[p] \o f.put /\ stream'[p] = f.state
      <4>1. f = Emitted(p, holding)
        BY <3>1, <3>2 DEF Emitted
      <4> QED BY <1>1, <2>3, <4>1
    <3>4. Delivered(chan[p], got[p], f, gen[p], Levels(p), ends)
      <4>1. p \in Busy
        BY <1>2, <2>3
      <4> QED BY <1>2, <3>1, <3>2, <4>1, StepFed
    <3>5. /\ f.state \in Buffers /\ chan[p] \o f.put \in Seq(Seq(Nat))
          /\ FlowOf(chan[p] \o f.put, got[p], f.state, gen[p], Levels(p))
          /\ ends = FALSE /\ NoNone(chan[p]) => NoNone(chan[p] \o f.put)
      BY <3>4 DEF Delivered
    <3>6. ~Between(p)' /\ ~Coming(p)'
      <4>1. p \in Busy /\ ~Between(p)
        BY <1>2, <2>3 DEF Counted
      <4>2. Fewer /\ ~Coming(p)
        BY <4>1, NextInv, InboxFacts DEF Next, Decoder
      <4> QED BY <1>3, <4>1, <4>2 DEF Fewer
    <3>7. Sent(p, f.state, gen[p])'
      BY <1>3, <2>1, <3>3, <3>5, <3>6, SentAt
    <3>8. NoNone(chan[p]) => NoNone(chan'[p]) \/ ~OnTheWay(p)'
      <4>1. CASE p \in step.fin
        BY <1>2, <3>6, <4>1 DEF OnTheWay
      <4>2. CASE p \notin step.fin
        <5>1. (p \in step.fin) = FALSE
          BY <4>2
        <5>2. ends = FALSE
          BY Zenon, <3>1, <5>1
        <5> QED BY <3>3, <3>5, <5>2
      <4> QED BY <4>1, <4>2
    <3> QED BY <2>1, <3>3, <3>5, <3>7, <3>8 DEF Flow
  <2> QED BY <2>2, <2>3
<1>5. StreamTypes'
  <2>1. chan' \in [Requests -> Seq(Seq(Nat))] /\ stream' \in [Requests -> Buffers]
    BY <1>1, <1>4
  <2> QED BY <1>2, <2>1 DEF StreamTypes
<1>6. Ended'
  <2>1. Reading' = Reading /\ Over' = Over
    BY <1>2 DEF Reading, Over
  <2> QED BY <1>2, <1>4, <2>1, EndedKept
<1> QED BY <1>4, <1>5, <1>6

\* The steps of a client that reads nothing.
LEMMA ClientStream ==
  ASSUME IInv, Counted, StreamInv, Counted', \A q \in Requests : OnTheWay(q)' => OnTheWay(q),
         NEW r \in Requests,
         Register(r) \/ AddRaises(r) \/ Open(r) \/ Submit(r) \/ EndStream(r) \/ Abandon(r)
  PROVE  StreamInv'
<1>1. UNCHANGED <<running, chan, stream, got, gen, Busy, results, hand, dpc>>
  BY DEF Register, AddRaises, Open, Submit, EndStream, Abandon, Leave, decode, streams, Busy
<1>2. client \in [Requests -> {"idle", "adding", "raised", "added", "open", "read", "done", "gone"}]
  BY DEF IInv, Types
<1>3. /\ \A q \in Requests \ {r} : client'[q] = client[q] /\ (q \in queues => q \in queues')
      /\ running => /\ r \in Reading' => r \in queues' \/ (r \in Reading /\ queues' = queues)
                    /\ r \in Over' => r \in Over
  <2>1. CASE Register(r)
    BY <1>2, <2>1 DEF Register, Reading, Over
  <2>2. CASE AddRaises(r) \/ Submit(r)
    BY <1>2, <2>2 DEF AddRaises, Submit, Reading, Over, streams
  <2>3. CASE Open(r)
    <3>1. running => r \in queues
      BY <2>3 DEF Open, StreamInv, Ended, Reading
    <3> QED BY <1>2, <2>3, <3>1 DEF Open, Reading, Over, streams
  <2>4. CASE EndStream(r) \/ Abandon(r)
    BY <1>2, <2>4 DEF EndStream, Abandon, Leave, Reading, Over
  <2> QED BY <2>1, <2>2, <2>3, <2>4
<1>4. \A q \in Requests :
        running => /\ q \in Reading' => q \in queues' \/ (q \in Reading /\ (q \in queues => q \in queues'))
                   /\ q \in Over' => q \in Over
  <2>1. \A q \in Requests \ {r} : (q \in Reading' <=> q \in Reading) /\ (q \in Over' <=> q \in Over)
    BY <1>3 DEF Reading, Over
  <2> QED BY <1>3, <2>1
<1>5. \A q \in Requests : (Between(q)' <=> Between(q)) /\ GivenOut(q)' = GivenOut(q)
  BY <1>1 DEF Between, Inbox, GivenOut
<1> QED BY <1>1, <1>4, <1>5, QuietStream

\* The steps of the threads that touch no stream.
LEMMA ThreadStream ==
  ASSUME IInv, Counted, StreamInv, Counted', \A q \in Requests : OnTheWay(q)' => OnTheWay(q),
         UNCHANGED <<running, chan, stream, got, queues, client>>,
         \A r \in Requests : gen'[r] = gen[r] \/ (OnTheWay(r) /\ gen'[r] = gen[r] + 1),
         dpc' # "dead" =>
           \A r \in Requests : /\ dpc # "dead"
                               /\ Between(r)' => Between(r) \/ gen[r] = 0
                               /\ r \in Busy' => r \in Busy /\ GivenOut(r)' = GivenOut(r)
  PROVE  StreamInv'
<1>1. Reading' = Reading /\ Over' = Over
  BY DEF Reading, Over
<1> QED BY <1>1, QuietStream

\* Every step keeps the streams in order.
LEMMA StreamStep ==
  ASSUME IInv, Counted, StreamInv, [Next]_vars
  PROVE  StreamInv'
<1>0. /\ Counted' /\ \A q \in Requests : OnTheWay(q)' => OnTheWay(q)
      /\ Types /\ Stages
  BY CountedStep DEF IInv
<1>1. CASE \E r \in Requests : Register(r) \/ AddRaises(r) \/ Open(r) \/ Reader(r) \/ Abandon(r)
  BY <1>0, <1>1, ClientStream, ReadStream DEF Reader
<1>2. CASE \/ \E r \in Requests : CopyEnds(r)
           \/ \E t \in Tokenizers : TakeTask(t)
           \/ Count \/ TakeOne \/ StartRound \/ CloseDiscards \/ UNCHANGED vars
  <2>1. /\ UNCHANGED <<running, chan, stream, got, queues, client, gen, results, hand>>
        /\ Busy' \subseteq Busy
        /\ dpc' # "dead" => dpc # "dead" /\ (dpc' = dpc \/ {dpc, dpc'} \subseteq {"top", "ingest"})
    <3>1. CASE (\E r \in Requests : CopyEnds(r)) \/ \E t \in Tokenizers : TakeTask(t)
      BY <3>1 DEF CopyEnds, TakeTask, streams, clients, decode, Busy
    <3>2. CASE Count \/ TakeOne \/ UNCHANGED vars
      BY <3>2 DEF Count, TakeOne, vars, streams, clients, decode, Busy
    <3>3. CASE StartRound
      BY <3>3 DEF StartRound, streams, clients, Busy
    <3>4. CASE CloseDiscards
      BY <3>4 DEF CloseDiscards, streams, clients, decode, Busy
    <3> QED BY <1>2, <3>1, <3>2, <3>3, <3>4
  <2>2. dpc' # "dead" =>
          \A r \in Requests : /\ dpc # "dead"
                              /\ Between(r)' => Between(r) \/ gen[r] = 0
                              /\ r \in Busy' => r \in Busy /\ GivenOut(r)' = GivenOut(r)
    BY <2>1 DEF Between, Inbox, GivenOut
  <2> QED BY <1>0, <2>1, <2>2, ThreadStream
<1>3. ASSUME NEW t \in Tokenizers, Encode(t)
      PROVE  StreamInv'
  <2>1. CASE UNCHANGED chan
    <3>1. UNCHANGED <<running, chan, stream, got, queues, client, gen, Busy, results, hand, dpc>>
      BY <1>3, <2>1 DEF Encode, clients, decode, Busy
    <3>2. dpc' # "dead" =>
            \A r \in Requests : /\ dpc # "dead"
                                /\ Between(r)' => Between(r) \/ gen[r] = 0
                                /\ r \in Busy' => r \in Busy /\ GivenOut(r)' = GivenOut(r)
      <4>1. dpc # "dead" \/ dpc' = "dead"
        BY <3>1
      <4> QED BY <3>1, <4>1 DEF Between, Inbox, GivenOut
    <3> QED BY <1>0, <3>1, <3>2, ThreadStream
  <2>2. CASE Put(toker[t].on, <<None>>) /\ UNCHANGED pending
    BY <1>0, <1>3, <2>2, EncodeStream
  <2> QED BY <1>3, <2>1, <2>2 DEF Encode
<1>4. CASE Prefill
  <2>1. UNCHANGED <<running, chan, stream, got, queues, client, Busy, hand, dpc>>
    BY <1>4 DEF Prefill, streams, clients, decode, Busy
  <2>2. \A r \in Range(batch) : gen[r] = 0 /\ OnTheWay(r)
    BY <1>0, <1>4, PrefillGives DEF OnTheWay, Coming
  <2>3. \A r \in Requests : gen'[r] = gen[r] \/ (OnTheWay(r) /\ r \in Range(batch) /\ gen'[r] = gen[r] + 1)
    BY <1>0, <1>4, <2>2, PrefillGives
  <2>4. \A r : Between(r)' => Between(r) \/ r \in Range(batch)
    BY <1>0, <1>4, PrefillGives DEF Between
  <2>5. \A r \in Requests : r \in Busy => gen[r] > 0
    BY DEF Counted
  <2>6. ASSUME dpc' # "dead", NEW r \in Requests
        PROVE  /\ dpc # "dead"
               /\ Between(r)' => Between(r) \/ gen[r] = 0
               /\ r \in Busy' => r \in Busy /\ GivenOut(r)' = GivenOut(r)
    <3>1. r \in Busy => gen'[r] = gen[r]
      BY <2>2, <2>3, <2>5
    <3> QED BY <2>1, <2>2, <2>4, <2>6, <3>1 DEF GivenOut
  <2> QED BY <1>0, <2>1, <2>3, <2>6, ThreadStream
<1>5. CASE Ingest
  <2>1. UNCHANGED <<running, chan, stream, got, queues, client, gen, Busy>>
        /\ dpc = "ingest" /\ dpc' = "handle" /\ results # <<>>
        /\ results' = Tail(results) /\ hand' = {Head(results)}
    BY <1>5 DEF Ingest, streams, clients, Busy
  <2>2. Inbox' \subseteq Inbox
    <3>1. results \in Seq(Results)
      BY <1>0 DEF Types
    <3>2. /\ Head(results) = results[1] /\ 1 \in DOMAIN results
          /\ \A i \in DOMAIN results' : i + 1 \in DOMAIN results /\ results'[i] = results[i + 1]
      BY <2>1, <3>1, TailFacts
    <3>3. Head(results) \in Range(results) /\ Range(results') \subseteq Range(results)
      BY <3>2 DEF Range
    <3> QED BY <2>1, <3>3 DEF Inbox
  <2>3. \A r \in Requests : (Between(r)' => Between(r)) /\ GivenOut(r)' = GivenOut(r)
    BY <2>1, <2>2 DEF Between, GivenOut
  <2> QED BY <1>0, <2>1, <2>3, ThreadStream
<1>6. CASE Step
  <2>1. /\ UNCHANGED <<running, chan, stream, got, queues, client, results, hand, Busy>>
        /\ dpc = "ingest" /\ dpc' = "emit"
        /\ gen' = [r \in Requests |-> IF r \in Busy THEN gen[r] + 1 ELSE gen[r]]
    BY <1>6 DEF Step, streams, clients, Busy
  <2>2. \A r \in Requests : gen'[r] = gen[r] \/ (OnTheWay(r) /\ gen'[r] = gen[r] + 1)
    BY <2>1 DEF OnTheWay
  <2>3. ASSUME NEW r \in Requests
        PROVE  /\ Between(r)' => Between(r)
               /\ r \in Busy' => r \in Busy /\ GivenOut(r)' = GivenOut(r)
    <3>1. gen[r] \in Nat /\ (r \in Busy => gen'[r] = gen[r] + 1)
      BY <2>1 DEF Counted
    <3> QED BY <2>1, <3>1 DEF Between, Inbox, GivenOut
  <2> QED BY <1>0, <2>1, <2>2, <2>3, ThreadStream
<1>7. CASE Close \/ CountRaises \/ DecodeRaises
  BY <1>0, <1>7, StopStream, CopyStream DEF DecodeRaises
<1>8. CASE HandleResult \/ Emit
  BY <1>0, <1>8, HandleStream, EmitStream
<1> QED BY <1>1, <1>2, <1>3, <1>4, <1>5, <1>6, <1>7, <1>8 DEF Next, Tokenizer, Prefiller, Decoder

\* At the start the streams are empty.
LEMMA StreamInit == Init => StreamInv
<1> SUFFICES ASSUME Init PROVE StreamInv
  OBVIOUS
<1>1. <<>> \in Seq(Nat) /\ <<>> \in Seq(Seq(Nat)) /\ Len(<<>>) = 0
  OBVIOUS
<1>2. Fresh \in Buffers /\ Fresh.buf = <<>> /\ Fresh.held = <<>>
  BY <1>1 DEF Fresh, Buffers
<1>3. StreamTypes
  BY <1>1, <1>2 DEF Init, StreamTypes
<1>4. Ended
  <2>1. \A r \in Requests : r \notin Over /\ r \notin Reading /\ NoNone(chan[r])
    BY DEF Init, Over, Reading, NoNone
  <2> QED BY <2>1 DEF Ended
<1>5. ASSUME NEW r \in Requests PROVE Flow(r)
  <2>1. chan[r] = <<>> /\ got[r] = <<>> /\ stream[r] = Fresh /\ gen[r] = 0
        /\ Busy = {} /\ dpc = "top"
    BY DEF Init, Busy
  <2>2. Run(0, 0) = <<>> /\ 0 <= 0
    <3>1. 0 \in Nat /\ 0 <= 0
      OBVIOUS
    <3> QED BY <3>1, RunFacts
  <2>3. Pieced(<<>>, 0, 0, Levels(r))
    BY PiecedEmpty
  <2>4. FlowOf(<<>>, <<>>, Fresh, 0, Levels(r))
    BY <1>1, <1>2, <2>2, <2>3 DEF FlowOf
  <2>5. Sent(r, Fresh, 0)
    BY <2>1, <2>4 DEF Sent
  <2> QED BY <1>2, <2>5 DEF Flow
<1> QED BY <1>3, <1>4, <1>5 DEF StreamInv

-----------------------------------------------------------------------------
(***************************************************************************)
(* A step of a client is a step of StreamContract, as is generating; what  *)
(* the threads do in between stutters.                                     *)
(***************************************************************************)
Final == {r \in Requests : gen[r] > 0 /\ r \notin dsess \cup InFlight}

AbstractStep ==
  \/ /\ \A r \in Requests : \/ gen'[r] = gen[r]
                            \/ (~running \/ r \notin Final \cup Over) /\ gen'[r] = gen[r] + 1
     /\ DOMAIN gen' = Requests
     /\ Final \subseteq Final'
     /\ UNCHANGED <<got, Over, running>>
  \/ \E r \in Requests \ Over :
       /\ \E n \in (Len(got[r]) + 1)..gen[r] : got' = [got EXCEPT ![r] = [i \in 1..n |-> i]]
       /\ UNCHANGED <<gen, Final, Over, running>>
  \/ \E r \in Requests \ Over :
       /\ ~running \/ gen[r] = 0 \/ (r \in Final /\ Len(got[r]) = gen[r])
       /\ Over' = Over \cup {r}
       /\ UNCHANGED <<gen, Final, got, running>>
  \/ ~running' /\ UNCHANGED <<gen, Final, got, Over>>

\* AbstractStep is a step of StreamContract under the refinement mapping.
LEMMA AbstractIs == AbstractStep => Contract!SNext
<1>1. Final = {r \in Requests : gen[r] > 0 /\ r \notin dsess \cup InFlight}
      /\ Final' = {r \in Requests : gen'[r] > 0 /\ r \notin dsess' \cup InFlight'}
  BY DEF Final
<1>2. Over = {r \in Requests : client[r] \in {"read", "done"}}
      /\ Over' = {r \in Requests : client'[r] \in {"read", "done"}}
  BY DEF Over
<1>3. Final \subseteq Requests /\ Final' \subseteq Requests /\ Over \subseteq Requests
  BY <1>1, <1>2
<1>4. CASE /\ \A r \in Requests : \/ gen'[r] = gen[r]
                                  \/ (~running \/ r \notin Final \cup Over) /\ gen'[r] = gen[r] + 1
           /\ DOMAIN gen' = Requests
           /\ Final \subseteq Final'
           /\ UNCHANGED <<got, Over, running>>
  <2>1. Contract!Generate
    BY <1>1, <1>2, <1>3, <1>4 DEF Contract!Generate, Contract!MayGrow
  <2> QED BY <2>1 DEF Contract!SNext
<1>5. ASSUME NEW r \in Requests \ Over,
             \E n \in (Len(got[r]) + 1)..gen[r] : got' = [got EXCEPT ![r] = [i \in 1..n |-> i]],
             UNCHANGED <<gen, Final, Over, running>>
      PROVE  Contract!SNext
  <2>1. Contract!Receive(r)
    BY <1>1, <1>2, <1>5 DEF Contract!Receive
  <2> QED BY <2>1 DEF Contract!SNext
<1>6. ASSUME NEW r \in Requests \ Over,
             ~running \/ gen[r] = 0 \/ (r \in Final /\ Len(got[r]) = gen[r]),
             Over' = Over \cup {r},
             UNCHANGED <<gen, Final, got, running>>
      PROVE  Contract!SNext
  <2>1. Contract!End(r)
    BY <1>1, <1>2, <1>6 DEF Contract!End
  <2> QED BY <2>1 DEF Contract!SNext
<1>7. CASE ~running' /\ UNCHANGED <<gen, Final, got, Over>>
  <2>1. Contract!Stop
    BY <1>1, <1>2, <1>7 DEF Contract!Stop
  <2> QED BY <2>1 DEF Contract!SNext
<1> QED BY <1>4, <1>5, <1>6, <1>7 DEF AbstractStep

\* What StreamContract does not see.
Unseen == UNCHANGED <<gen, dsess, results, hand, got, Over, running>>
LEMMA StutterIs == Unseen => UNCHANGED Contract!svars
<1> SUFFICES ASSUME Unseen PROVE UNCHANGED Contract!svars
  OBVIOUS
<1>1. InFlight' = InFlight
  BY DEF Unseen, InFlight
<1> QED BY <1>1 DEF Unseen, Contract!svars, Over

\* A request in flight has a result in the inbox.
LEMMA FlightFacts ==
  /\ \A r : r \in InFlight => Between(r)
  /\ Inbox' \subseteq Inbox => InFlight' \subseteq InFlight
BY DEF InFlight, Inbox, Between

\* Steps of the threads that do not stop the manager.
LEMMA GrowIs ==
  ASSUME StreamInv, UNCHANGED <<got, client, running>>, DOMAIN gen' = Requests,
         \A r \in Requests : \/ gen'[r] = gen[r]
                             \/ OnTheWay(r) /\ r \notin Final /\ gen'[r] = gen[r] + 1,
         \A r \in Requests :
           gen[r] > 0 /\ r \notin dsess \cup InFlight => r \notin dsess' \cup InFlight'
  PROVE  AbstractStep
<1>1. UNCHANGED Over
  BY DEF Over
<1>2. Final \subseteq Final'
  <2>1. ASSUME NEW r \in Final PROVE r \in Final'
    <3>1. r \in Requests /\ gen[r] > 0 /\ r \notin dsess \cup InFlight /\ gen'[r] = gen[r]
      BY DEF Final
    <3> QED BY <3>1 DEF Final
  <2> QED BY <2>1
<1>3. ASSUME NEW r \in Requests, gen'[r] # gen[r]
      PROVE  (~running \/ r \notin Final \cup Over) /\ gen'[r] = gen[r] + 1
  <2>1. running => r \notin Over
    BY <1>3 DEF StreamInv, Ended
  <2> QED BY <1>3, <2>1
<1> QED BY <1>1, <1>2, <1>3 DEF AbstractStep

\* A client reads the next tokens, or the end.
LEMMA ReadIs == ASSUME IInv, Counted, StreamInv, NEW r \in Requests, Read(r) PROVE AbstractStep
<1>1. /\ client[r] = "open" /\ chan[r] # <<>>
      /\ got' = [got EXCEPT ![r] = got[r] \o Head(chan[r])]
      /\ client' = [client EXCEPT ![r] = IF Head(chan[r]) = <<>> THEN "read" ELSE client[r]]
      /\ UNCHANGED <<gen, dsess, results, hand, running>>
  BY DEF Read, None, decode
<1>2. client'[r] = (IF Head(chan[r]) = <<>> THEN "read" ELSE "open")
      /\ \A p \in Requests \ {r} : client'[p] = client[p]
  BY <1>1 DEF IInv, Types
<1>3. Final' = Final /\ r \notin Over
  <2>1. InFlight' = InFlight
    BY <1>1 DEF InFlight
  <2> QED BY <1>1, <2>1 DEF Final, Over
<1>4. PICK q, t, g : q = chan[r] /\ t = got[r] /\ g = gen[r]
  OBVIOUS
<1>5. q \in Seq(Seq(Nat)) /\ t \in Seq(Nat) /\ q # <<>> /\ g \in Nat /\ got \in [Requests -> Seq(Nat)]
  BY <1>1, <1>4 DEF StreamInv, StreamTypes, Counted
<1>6. PICK s \in Buffers, d \in Nat : FlowOf(q, t, s, d, Levels(r)) /\ d <= g
  BY <1>4 DEF StreamInv, Flow, Sent
<1>7. PICK m \in Nat : /\ m <= d /\ t \o Head(q) = Run(0, m) /\ t = Run(0, Len(t)) /\ Len(t) <= m
                       /\ Head(q) = <<>> <=> Len(t) = m
                       /\ Len(t) = m => m \in Levels(r)
  BY ONLY <1>5, <1>6, FlowGet
<1>8. CASE Head(q) = <<>>
  <2>1. Len(t) = m /\ t \o Head(q) = t
    BY <1>7, <1>8
  <2>2. got' = got
    BY <1>1, <1>4, <1>5, <2>1
  <2>3. Over' = Over \cup {r}
    BY <1>2, <1>4, <1>8 DEF Over
  <2>4. running => m = g
    BY <1>4, <1>7, <2>1 DEF Levels
  <2>5. ~NoNone(q)
    BY <1>5, <1>8, TailFacts DEF NoNone
  <2>6. running => r \notin dsess \cup InFlight
    BY <1>4, <2>5, FlightFacts DEF StreamInv, Ended, OnTheWay, Counted
  <2>7. ~running \/ gen[r] = 0 \/ (r \in Final /\ Len(got[r]) = gen[r])
    BY <1>4, <1>5, <2>1, <2>4, <2>6 DEF Final
  <2> QED BY <1>1, <1>3, <2>2, <2>3, <2>7 DEF AbstractStep
<1>9. CASE Head(q) # <<>>
  <2>1. UNCHANGED Over
    BY <1>1, <1>2, <1>4, <1>9 DEF Over
  <2>2. m \in (Len(t) + 1)..g
    BY <1>5, <1>6, <1>7, <1>9
  <2>3. Run(0, m) = [i \in 1..m |-> i]
    <3>1. m - 0 = m /\ \A i \in 1..m : 0 + i = i
      OBVIOUS
    <3> QED BY <3>1 DEF Run
  <2>4. got' = [got EXCEPT ![r] = [i \in 1..m |-> i]]
    BY ONLY <1>1, <1>4, <1>7, <2>3
  <2>5. \E n \in (Len(got[r]) + 1)..gen[r] : got' = [got EXCEPT ![r] = [i \in 1..n |-> i]]
    BY ONLY <1>4, <2>2, <2>4
  <2> QED BY <1>1, <1>3, <2>1, <2>5 DEF AbstractStep
<1> QED BY <1>8, <1>9

\* The other steps of a client.
LEMMA ClientIs ==
  ASSUME IInv, StreamInv, NEW r \in Requests,
         Register(r) \/ AddRaises(r) \/ Open(r) \/ Submit(r) \/ EndStream(r) \/ Abandon(r)
  PROVE  AbstractStep \/ Unseen
<1>1. UNCHANGED <<gen, dsess, results, hand, got, running>>
  BY DEF Register, AddRaises, Open, Submit, EndStream, Abandon, Leave, decode
<1>2. client \in [Requests -> {"idle", "adding", "raised", "added", "open", "read", "done", "gone"}]
  BY DEF IInv, Types
<1>3. CASE Open(r) /\ r \notin queues
  <2>1. client[r] = "added" /\ client' = [client EXCEPT ![r] = "done"]
    BY <1>3 DEF Open
  <2>2. r \notin Over /\ Over' = Over \cup {r}
    BY <1>2, <2>1 DEF Over
  <2>3. ~running
    BY <1>3, <2>1 DEF StreamInv, Ended, Reading
  <2>4. Final' = Final
    <3>1. InFlight' = InFlight
      BY <1>1 DEF InFlight
    <3> QED BY <1>1, <3>1 DEF Final
  <2> QED BY <1>1, <2>2, <2>3, <2>4 DEF AbstractStep
<1>4. CASE ~(Open(r) /\ r \notin queues)
  <2>1. /\ \A q \in Requests \ {r} : client'[q] = client[q]
        /\ client[r] \in {"read", "done"} <=> client'[r] \in {"read", "done"}
    <3>1. CASE Register(r) \/ AddRaises(r) \/ Submit(r)
      BY <1>2, <3>1 DEF Register, AddRaises, Submit
    <3>2. CASE Open(r)
      BY <1>2, <1>4, <3>2 DEF Open
    <3>3. CASE EndStream(r) \/ Abandon(r)
      BY <1>2, <3>3 DEF EndStream, Abandon, Leave
    <3> QED BY <3>1, <3>2, <3>3
  <2>2. Over' = Over
    BY <2>1 DEF Over
  <2> QED BY <1>1, <2>2 DEF Unseen
<1> QED BY <1>3, <1>4

\* The steps of the threads generate, stop the manager, or are not seen.
LEMMA ThreadIs ==
  ASSUME IInv, Counted, StreamInv,
         \/ \E r \in Requests : CopyEnds(r)
         \/ \E t \in Tokenizers : Tokenizer(t)
         \/ Prefiller \/ CountRaises \/ Decoder \/ DecodeRaises \/ Close \/ CloseDiscards
  PROVE  AbstractStep \/ Unseen
<1>1. CASE \/ \E r \in Requests : CopyEnds(r)
           \/ \E t \in Tokenizers : Tokenizer(t)
           \/ Count \/ TakeOne \/ StartRound
  <2>1. UNCHANGED <<gen, dsess, results, hand, got, client, running>>
    <3>1. CASE (\E r \in Requests : CopyEnds(r)) \/ \E t \in Tokenizers : Tokenizer(t)
      BY <3>1 DEF CopyEnds, Tokenizer, TakeTask, Encode, clients, decode
    <3>2. CASE Count \/ TakeOne \/ StartRound
      BY <3>2 DEF Count, TakeOne, StartRound, clients, decode
    <3> QED BY <1>1, <3>1, <3>2
  <2> QED BY <2>1 DEF Unseen, Over
<1>2. CASE CountRaises \/ DecodeRaises \/ Close
  <2>1. UNCHANGED <<gen, dsess, results, hand, got, client>> /\ ~running'
    BY <1>2 DEF CountRaises, DecodeRaises, Close, clients, decode
  <2>2. InFlight' = InFlight
    BY <2>1 DEF InFlight
  <2> QED BY <2>1, <2>2 DEF AbstractStep, Final, Over
<1>3. CASE Emit \/ CloseDiscards
  <2>1. UNCHANGED <<gen, results, hand, got, client, running>> /\ dsess' \subseteq dsess
    BY <1>3 DEF Emit, CloseDiscards, Keeps, clients, decode
  <2>2. InFlight' = InFlight
    BY <2>1 DEF InFlight
  <2> QED BY <2>1, <2>2, GrowIs DEF Counted
<1>4. CASE HandleResult
  <2>1. PICK res \in hand : dsess' = dsess \cup Adopted(res)
    BY <1>4 DEF HandleResult
  <2>2. UNCHANGED <<results, gen, got, client, running>> /\ hand' = {}
    BY <1>4 DEF HandleResult, clients
  <2>3. Adopted(res) \subseteq InFlight
    BY <2>1 DEF Adopted, InFlight
  <2>4. InFlight' \subseteq InFlight
    BY <2>2, FlightFacts DEF Inbox
  <2> QED BY <2>1, <2>2, <2>3, <2>4, GrowIs DEF Counted
<1>5. CASE Ingest
  <2>1. UNCHANGED <<gen, got, client, running, dsess>> /\ results # <<>>
        /\ results' = Tail(results) /\ hand' = {Head(results)}
    BY <1>5 DEF Ingest, clients
  <2>2. Inbox' \subseteq Inbox
    <3>1. results \in Seq(Results)
      BY DEF IInv, Types
    <3>2. /\ Head(results) = results[1] /\ 1 \in DOMAIN results
          /\ \A i \in DOMAIN results' : i + 1 \in DOMAIN results /\ results'[i] = results[i + 1]
      BY <2>1, <3>1, TailFacts
    <3>3. Head(results) \in Range(results) /\ Range(results') \subseteq Range(results)
      BY <3>2 DEF Range
    <3> QED BY <2>1, <3>3 DEF Inbox
  <2>3. InFlight' \subseteq InFlight
    BY <2>2, FlightFacts
  <2> QED BY <2>1, <2>3, GrowIs DEF Counted
<1>6. CASE Prefill
  <2>1. UNCHANGED <<got, client, running, dsess>>
    BY <1>6 DEF Prefill, clients
  <2>2. \A r \in Range(batch) : r \in Requests /\ gen[r] = 0 /\ OnTheWay(r) /\ r \notin Final
    BY <1>6, PrefillGives DEF OnTheWay, Coming, Final
  <2>3. \A r \in Requests : \/ gen'[r] = gen[r]
                            \/ OnTheWay(r) /\ r \notin Final /\ gen'[r] = gen[r] + 1
    BY <1>6, <2>2, PrefillGives
  <2>4. \A r \in InFlight' : r \in InFlight \/ r \in Range(batch)
    <3>1. InFlight' = {x.rid : x \in {y \in Inbox' : ~y.fin}}
          /\ InFlight = {x.rid : x \in {y \in Inbox : ~y.fin}}
      BY DEF InFlight, Inbox
    <3>2. \A x \in Inbox' : x \in Inbox \/ x.rid \in Range(batch)
      BY <1>6, PrefillGives
    <3> QED BY <3>1, <3>2
  <2>5. DOMAIN gen' = Requests
    BY <1>6, PrefillGives DEF Counted
  <2> QED BY <2>1, <2>2, <2>3, <2>4, <2>5, GrowIs
<1>7. CASE Step
  <2>1. /\ UNCHANGED <<got, client, running, results, hand, dsess>>
        /\ gen' = [r \in Requests |-> IF r \in dsess THEN gen[r] + 1 ELSE gen[r]]
    BY <1>7 DEF Step, clients
  <2>2. InFlight' = InFlight
    BY <2>1 DEF InFlight
  <2>3. \A r \in Requests : \/ gen'[r] = gen[r]
                            \/ OnTheWay(r) /\ r \notin Final /\ gen'[r] = gen[r] + 1
    BY <2>1 DEF OnTheWay, Final, Counted
  <2> QED BY <2>1, <2>2, <2>3, GrowIs
<1> QED BY <1>1, <1>2, <1>3, <1>4, <1>5, <1>6, <1>7 DEF Prefiller, Decoder

\* Every step is a step of StreamContract or a stutter.
LEMMA NextIs ==
  ASSUME IInv, Counted, StreamInv, [Next]_vars
  PROVE  [Contract!SNext]_(Contract!svars)
<1>1. CASE UNCHANGED vars
  BY <1>1, StutterIs DEF vars, clients, decode, Over, Unseen
<1>2. CASE \E r \in Requests : Read(r)
  BY <1>2, ReadIs, AbstractIs
<1>3. CASE \E r \in Requests : \/ Register(r) \/ AddRaises(r) \/ Open(r) \/ Submit(r)
                               \/ EndStream(r) \/ Abandon(r)
  BY <1>3, ClientIs, AbstractIs, StutterIs
<1>4. CASE \/ \E r \in Requests : CopyEnds(r)
           \/ \E t \in Tokenizers : Tokenizer(t)
           \/ Prefiller \/ CountRaises \/ Decoder \/ DecodeRaises \/ Close \/ CloseDiscards
  BY <1>4, ThreadIs, AbstractIs, StutterIs
<1> QED BY <1>1, <1>2, <1>3, <1>4 DEF Next, Reader

\* The initial states are initial states of StreamContract.
LEMMA InitIs == Init => Contract!SInit
BY DEF Init, Contract!SInit

\* Every behaviour of the manager is one of StreamContract: although a request
\* moves from one engine to another, each client sees its tokens in order, without
\* gaps or repetitions, and one end, after the last of them unless the manager
\* stopped or could not tokenize or prefill its prompt.
THEOREM StreamsInOrder == Spec => ImplementsStreams
<1>1. Init => IInv /\ Counted /\ StreamInv
  BY InitInv, CountedInit, StreamInit
<1>2. IInv /\ Counted /\ StreamInv /\ [Next]_vars => (IInv /\ Counted /\ StreamInv)'
  BY NextInv, CountedStep, StreamStep
<1>3. IInv /\ Counted /\ StreamInv /\ [Next]_vars => [Contract!SNext]_(Contract!svars)
  BY NextIs
<1> QED BY <1>1, <1>2, <1>3, InitIs, PTL DEF Spec, ImplementsStreams, Contract!SSpec
=============================================================================
