----------------------- MODULE SchedulerManagerProofs ------------------------
(***************************************************************************)
(* TypeOK, NoLostWakeup and WithinLimits, for every number of requests and *)
(* tokenizer threads and every setting of the limits.                      *)
(*                                                                         *)
(* NoLostWakeup is not inductive: the worker may only sleep if _pending    *)
(* was empty when it last looked, and that was an admission, some decoding *)
(* and several lock acquisitions ago.  Watched says for each place of the  *)
(* worker why a request that nobody is about to announce will still be     *)
(* seen, and BatchUsed what `took' says of the batch, on which that        *)
(* depends.  Likewise max_active_requests holds because what was taken at  *)
(* admission is counted until it has become sessions (Admitted).           *)
(***************************************************************************)
EXTENDS SchedulerManager, QueueLemmas

\* A request that is not finished has had its first token and has some left.
TokensLeft == \A r \in active : gen[r] \in 1..(MaxNew - 1)

BatchUsed ==
  /\ pc \in {"top", "admit", "step", "lookup", "deliver", "park", "wait", "clear"}
       => batch = <<>>
  /\ pc \in {"filter", "first"} /\ ~took => batch = <<>>
  /\ pc = "filter" /\ ~took => taken = <<>>
  /\ pc = "give" => took

\* Under decode_first, unfinished sessions have had their step before admission.
SteppedFirst == DecodeFirst /\ pc = "admit" /\ active # {} => decoded

Watches == \/ pc \in {"clear", "top", "admit", "handler", "notify", "dead"}
           \/ decoded /\ pc \in {"step", "lookup", "deliver"}
           \/ took /\ pc \in {"filter", "first", "give", "step", "lookup", "deliver",
                              "park"}
           \/ decoded /\ active # {} /\ pc \in {"filter", "first", "park"}

Watched == MaxActive = 0 \/ DecodeFirst => (pending # <<>> => WakeComing \/ Watches)

\* What a step does to the worker's own state and to what it watches is
\* considered apart from the types.
TypeInv == TypeOK /\ TokensLeft
WakeInv == BatchUsed /\ SteppedFirst /\ Watched

ClientStep(r)  == Register(r) \/ Adder(r) \/ Open(r) \/ Reader(r) \/ Abandon(r)
Others == \/ \E r \in Requests : ClientStep(r)
          \/ \E t \in Tokenizers : Tokenizer(t)
          \/ Close \/ Joined \/ JoinTimesOut

USE DEF None, Put

LEMMA NextSplit == Next <=> Others \/ Worker
BY DEF Next, Others, ClientStep

-----------------------------------------------------------------------------
LEMMA AppendType ==
  ASSUME NEW S, NEW q \in Seq(S), NEW x \in S
  PROVE  Append(q, x) \in Seq(S)
OBVIOUS

LEMMA TailType ==
  ASSUME NEW S, NEW q \in Seq(S), q # <<>>
  PROVE  Head(q) \in S /\ Tail(q) \in Seq(S)
OBVIOUS

LEMMA RangeType ==
  ASSUME NEW S, NEW q \in Seq(S)
  PROVE  Range(q) \subseteq S
BY DEF Range

\* Clients keep the types.
LEMMA ClientTypes ==
  ASSUME TypeInv, NEW r \in Requests, ClientStep(r)
  PROVE  TypeInv'
<1> USE DEF TypeInv, TypeOK, TokensLeft, ClientAt, threads, worker, sched, streams
<1>1. CASE Register(r)
  BY <1>1 DEF Register
<1>2. CASE Enqueue(r)
  <2>1. Append(tasks, r) \in Seq(Requests) /\ Append(pending, r) \in Seq(Requests)
    BY AppendType
  <2>2. tasks' \in Seq(Requests) /\ pending' \in Seq(Requests)
    BY <1>2, <2>1 DEF Enqueue
  <2> QED BY <1>2, <2>2 DEF Enqueue
<1>3. CASE AddRaises(r)
  BY <1>3 DEF AddRaises
<1>4. CASE Wake(r)
  BY <1>4 DEF Wake
<1>5. CASE Open(r)
  BY <1>5 DEF Open
<1>6. CASE Get(r)
  BY <1>6 DEF Get
<1>7. CASE EndStream(r) \/ Abandon(r)
  BY <1>7 DEF EndStream, Abandon, Leave
<1> QED BY <1>1, <1>2, <1>3, <1>4, <1>5, <1>6, <1>7 DEF ClientStep, Adder, Reader

\* So do the tokenizer threads.
LEMMA TokenizerTypes ==
  ASSUME TypeInv, NEW t \in Tokenizers, Tokenizer(t)
  PROVE  TypeInv'
<1> USE DEF TypeInv, TypeOK, TokensLeft, TokAt, threads, worker, sched, streams
<1>1. CASE TakeTask(t)
  BY <1>1 DEF TakeTask
<1>2. CASE Tokenized(t)
  <2>1. PICK r \in tok[t].on : pending' = Append(pending, r)
    BY <1>2 DEF Tokenized
  <2>2. tok[t] \in TokAt /\ r \in Requests
    BY Zenon DEF TokAt
  <2>3. pending' \in Seq(Requests)
    BY <2>1, <2>2, AppendType
  <2>4. tok' \in [Tokenizers -> TokAt]
    BY <1>2, <2>2 DEF Tokenized
  <2> QED BY <1>2, <2>3, <2>4 DEF Tokenized
<1>3. CASE TokenizeFails(t)
  BY <1>3 DEF TokenizeFails
<1>4. CASE TokenizerWakes(t)
  BY <1>4 DEF TokenizerWakes
<1> QED BY <1>1, <1>2, <1>3, <1>4 DEF Tokenizer

\* And closing.
LEMMA CloseTypes ==
  ASSUME TypeInv, Close \/ Joined \/ JoinTimesOut
  PROVE  TypeInv'
<1> USE DEF TypeInv, TypeOK, TokensLeft, threads, worker, sched, streams
<1>1. CASE Close
  BY <1>1 DEF Close
<1>2. CASE Joined
  BY <1>2 DEF Joined
<1>3. CASE JoinTimesOut
  BY <1>3 DEF JoinTimesOut
<1> QED BY <1>1, <1>2, <1>3

LEMMA Counting == ASSUME TypeOK PROVE /\ IsFiniteSet(active) /\ NumUnfinished \in Nat
                                       /\ IsFiniteSet(queues) /\ Cardinality(queues) \in Nat
BY ConstantsAssumption, FS_Subset, FS_CardinalityType DEF TypeOK, NumUnfinished

LEMMA CapType == ASSUME TypeOK PROVE AdmitCap \in Nat
BY Counting, ConstantsAssumption DEF AdmitCap

\* The worker keeps the types.
LEMMA WorkerTypes ==
  ASSUME TypeInv, Worker
  PROVE  TypeInv'
<1> USE DEF TypeInv, TypeOK, TokensLeft, Shared, threads, sched, streams
<1>1. CASE Admit
  <2> DEFINE n == IF Len(pending) < AdmitCap THEN Len(pending) ELSE AdmitCap
  <2>1. n \in 0..Len(pending)
    BY CapType
  <2>2. /\ SubSeq(pending, 1, n) \in Seq(Requests)
        /\ SubSeq(pending, n + 1, Len(pending)) \in Seq(Requests)
    BY <2>1
  <2>3. (n > 0) \in BOOLEAN
    OBVIOUS
  <2> QED BY <1>1, <2>2, <2>3 DEF Admit
<1>2. CASE FilterOne
  <2>1. taken # <<>>
    BY <1>2 DEF FilterOne
  <2>2. Head(taken) \in Requests /\ Tail(taken) \in Seq(Requests)
    BY <2>1, TailType
  <2>3. Append(batch, Head(taken)) \in Seq(Requests) /\ <<>> \in Seq(Requests)
    BY <2>2, AppendType
  <2>4. taken' \in Seq(Requests) /\ batch' \in Seq(Requests)
    BY <1>2, <2>2, <2>3 DEF FilterOne
  <2> QED BY <1>2, <2>4 DEF FilterOne
<1>3. CASE Prefill
  <2>1. Range(batch) \subseteq Requests
    BY RangeType
  <2>2. 1 \in 0..MaxNew
    BY ConstantsAssumption
  <2>3. PICK fin :
          /\ MaxNew = 1 => fin = Range(batch)
          /\ sessions' = sessions \cup Range(batch)
          /\ active' = active \cup (Range(batch) \ fin)
          /\ gen' = [r \in Requests |-> IF r \in Range(batch) THEN 1 ELSE gen[r]]
    BY <1>3 DEF Prefill
  <2>4. /\ gen' \in [Requests -> 0..MaxNew]
        /\ active' \subseteq Requests /\ sessions' \subseteq Requests
    BY <2>1, <2>2, <2>3
  <2>5. ASSUME NEW r \in active' PROVE gen'[r] \in 1..(MaxNew - 1)
    <3>1. CASE r \in Range(batch)
      <4>1. gen'[r] = 1 /\ (MaxNew = 1 => r \in active)
        BY <2>1, <2>3, <2>5, <3>1
      <4> QED BY <4>1, ConstantsAssumption
    <3>2. CASE r \notin Range(batch)
      BY <2>3, <2>5, <3>2
    <3> QED BY <3>1, <3>2
  <2> QED BY <1>3, <2>4, <2>5 DEF Prefill
<1>4. CASE Step
  <2>1. PICK chosen \in SUBSET active :
          /\ stepped' = chosen
          /\ ending' \subseteq chosen /\ {r \in chosen : Exhausted(r)} \subseteq ending'
          /\ active' = active \ ending'
          /\ gen' = [r \in Requests |-> IF r \in chosen THEN gen[r] + 1 ELSE gen[r]]
    BY <1>4 DEF Step
  <2>2. \A r \in chosen : /\ gen[r] + 1 \in 0..MaxNew
                          /\ r \notin ending' => gen[r] + 1 \in 1..(MaxNew - 1)
    <3>1. \A r \in chosen : gen[r] \in 1..(MaxNew - 1)
      OBVIOUS
    <3>2. MaxNew \in Nat
      BY ConstantsAssumption
    <3>3. \A r \in chosen : r \notin ending' => gen[r] + 1 # MaxNew
      BY ONLY <2>1 DEF Exhausted
    <3> QED BY ONLY <3>1, <3>2, <3>3
  <2>3. ASSUME NEW r \in Requests
        PROVE  (IF r \in chosen THEN gen[r] + 1 ELSE gen[r]) \in 0..MaxNew
    <3>1. gen[r] \in 0..MaxNew
      OBVIOUS
    <3>2. r \in chosen => gen[r] + 1 \in 0..MaxNew
      BY ONLY <2>2, Zenon
    <3> QED BY ONLY <3>1, <3>2
  <2>4. gen' \in [Requests -> 0..MaxNew]
    BY ONLY <2>1, <2>3
  <2>6. ASSUME NEW r \in active' PROVE gen'[r] \in 1..(MaxNew - 1)
    <3>1. r \in Requests /\ r \in active /\ r \notin ending'
      BY <2>1
    <3>2. gen'[r] = IF r \in chosen THEN gen[r] + 1 ELSE gen[r]
      BY ONLY <3>1, <2>1
    <3>3. gen[r] \in 1..(MaxNew - 1)
      BY <3>1
    <3>4. r \in chosen => gen[r] + 1 \in 1..(MaxNew - 1)
      BY ONLY <2>2, <3>1, Zenon
    <3> QED BY ONLY <3>2, <3>3, <3>4
  <2>5. active' \subseteq Requests /\ stepped' \subseteq Requests /\ ending' \subseteq Requests
    BY <2>1
  <2> QED BY <1>4, <2>4, <2>5, <2>6 DEF Step
<1>5. CASE FirstLookup
  BY <1>5 DEF FirstLookup, Discarded
<1>6. CASE GiveFirst
  BY <1>6 DEF GiveFirst, Discarded
<1>7. CASE DeliverStep
  BY <1>7 DEF DeliverStep, Discarded
<1>8. CASE Top
  BY <1>8, ConstantsAssumption DEF Top
<1>9. CASE PrefillRaises \/ FirstDone \/ StepRaises \/ Park \/ WakeUp
  BY <1>9 DEF PrefillRaises, FirstDone, StepRaises, Park, WakeUp
<1>10. CASE Lookup
  BY <1>10 DEF Lookup
<1>11. CASE ClearWakeup
  BY <1>11 DEF ClearWakeup
<1>12. CASE Handler \/ Notify
  BY <1>12 DEF Handler, Notify
<1> QED BY <1>1, <1>2, <1>3, <1>4, <1>5, <1>6, <1>7, <1>8, <1>9, <1>10, <1>11, <1>12
        DEF Worker

LEMMA TypeStep == TypeInv /\ [Next]_vars => TypeInv'
<1>1. ASSUME TypeInv, UNCHANGED vars PROVE TypeInv'
  BY <1>1 DEF TypeInv, TypeOK, TokensLeft, vars, threads, worker, sched, streams
<1> QED BY <1>1, ClientTypes, TokenizerTypes, CloseTypes, WorkerTypes, NextSplit DEF Others

LEMMA TypeInit == Init => TypeInv
<1> SUFFICES ASSUME Init PROVE TypeInv
  OBVIOUS
<1>1. 0 \in 0..MaxNew
  BY ConstantsAssumption
<1>2. [at |-> "idle", on |-> {}] \in TokAt
  BY DEF TokAt
<1>3. gen \in [Requests -> 0..MaxNew]
  BY <1>1 DEF Init
<1>4. client \in [Requests -> ClientAt]
  BY DEF Init, ClientAt
<1>5. tok \in [Tokenizers -> TokAt]
  BY <1>2 DEF Init
<1>6. <<>> \in Seq(Requests)
  OBVIOUS
<1>7. tasks \in Seq(Requests) /\ pending \in Seq(Requests)
      /\ taken \in Seq(Requests) /\ batch \in Seq(Requests)
  BY <1>6 DEF Init
<1>8. TokensLeft
  BY DEF Init, TokensLeft
<1> QED BY <1>3, <1>4, <1>5, <1>7, <1>8 DEF Init, TypeInv, TypeOK

\* Every reachable state is well typed; no request is given more than
\* max_new_tokens tokens.
THEOREM TypeCorrect == Spec => []TypeOK
<1>1. Init => TypeInv
  BY TypeInit
<1>2. TypeInv => TypeOK
  BY DEF TypeInv
<1> QED BY <1>1, <1>2, TypeStep, PTL DEF Spec

-----------------------------------------------------------------------------
\* An announcement is not taken back by another thread, and no thread adds to
\* _pending without one.
LEMMA OthersAnnounce ==
  ASSUME TypeOK, Others
  PROVE  /\ WakeComing => WakeComing'
         /\ pending' = pending \/ WakeComing'
<1> USE DEF TypeOK, ClientAt, TokAt, WakeComing
<1>1. ASSUME NEW r \in Requests, ClientStep(r)
      PROVE  /\ WakeComing => WakeComing'
             /\ pending' = pending \/ WakeComing'
  BY <1>1 DEF ClientStep, Register, Adder, Enqueue, AddRaises, Wake, Open, Reader, Get,
              EndStream, Abandon, Leave
<1>2. ASSUME NEW t \in Tokenizers, Tokenizer(t)
      PROVE  /\ WakeComing => WakeComing'
             /\ pending' = pending \/ WakeComing'
  <2>1. CASE TakeTask(t)
    BY <2>1 DEF TakeTask
  <2>2. CASE Tokenized(t)
    BY <2>2 DEF Tokenized
  <2>3. CASE TokenizeFails(t) \/ TokenizerWakes(t)
    BY <2>3 DEF TokenizeFails, TokenizerWakes
  <2> QED BY <1>2, <2>1, <2>2, <2>3 DEF Tokenizer
<1>3. CASE Close \/ Joined \/ JoinTimesOut
  BY <1>3 DEF Close, Joined, JoinTimesOut
<1> QED BY <1>1, <1>2, <1>3 DEF Others

LEMMA OthersLeave ==
  ASSUME Others
  PROVE  /\ UNCHANGED <<pc, decoded, took, taken, batch>>
         /\ pc = "dead" \/ active' = active
BY DEF Others, ClientStep, Register, Adder, Enqueue, AddRaises, Wake, Open, Reader, Get,
       EndStream, Abandon, Leave, Tokenizer, TakeTask, Tokenized, TokenizeFails,
       TokenizerWakes, Close, Joined, JoinTimesOut, worker, sched

\* The other threads leave alone what the worker's watch depends on.
LEMMA OthersWake ==
  ASSUME TypeOK, WakeInv, Others
  PROVE  WakeInv'
<1>1. Watches => Watches'
  BY OthersLeave DEF Watches
<1>2. BatchUsed' /\ SteppedFirst'
  BY OthersLeave DEF WakeInv, BatchUsed, SteppedFirst
<1>3. Watched'
  BY OthersAnnounce, <1>1 DEF WakeInv, Watched
<1> QED BY <1>2, <1>3 DEF WakeInv

\* The worker takes no announcement back but where it clears the event.
LEMMA WorkerAnnounces ==
  ASSUME Worker, ~ClearWakeup
  PROVE  WakeComing => WakeComing'
BY DEF WakeComing, Worker, Top, Admit, FilterOne, Prefill, PrefillRaises, FirstLookup,
       FirstDone, GiveFirst, Step, StepRaises, Lookup, DeliverStep, Park, WakeUp,
       Handler, Notify, Shared, threads

\* With an admission that takes nothing, either nothing was pending or there is
\* an active request and it has had its step.
LEMMA AdmitTakesNone ==
  ASSUME TypeOK, WakeInv, Admit, ~took'
  PROVE  /\ taken' = <<>>
         /\ MaxActive = 0 \/ DecodeFirst => pending' = <<>> \/ (decoded /\ active # {})
<1> DEFINE n == IF Len(pending) < AdmitCap THEN Len(pending) ELSE AdmitCap
<1>1. pending \in Seq(Requests) /\ Len(pending) \in Nat /\ AdmitCap \in Nat
  BY CapType DEF TypeOK
<1>2. /\ took' = (n > 0)
      /\ taken' = SubSeq(pending, 1, n) /\ pending' = SubSeq(pending, n + 1, Len(pending))
  BY DEF Admit
<1>0. n = 0
  <2>1. n \in Nat /\ ~(n > 0)
    BY <1>1, <1>2
  <2> QED BY ONLY <2>1
<1>3. taken' = <<>>
  BY <1>0, <1>1, <1>2
<1>4. ASSUME MaxActive = 0 \/ DecodeFirst, pending' # <<>>
      PROVE  decoded /\ active # {}
  <2>1. pending # <<>>
    <3>1. SUFFICES ASSUME pending = <<>> PROVE pending' = <<>>
      BY <1>4
    <3>2. Len(pending) = 0
      BY <3>1
    <3>3. pending' = SubSeq(pending, 1, 0)
      BY ONLY <1>0, <1>2, <3>2
    <3> QED BY ONLY <3>3, <1>1
  <2>2. AdmitCap = 0
    BY <1>0, <1>1, <2>1
  <2>3. MaxActive # 0 /\ MaxActive <= NumUnfinished
    BY <2>2, ConstantsAssumption, Counting DEF AdmitCap
  <2>4. active # {}
    BY <2>3, FS_EmptySet, ConstantsAssumption DEF NumUnfinished
  <2> QED BY <1>4, <2>3, <2>4 DEF WakeInv, SteppedFirst, Admit
<1> QED BY <1>3, <1>4

\* The worker keeps its watch.
LEMMA WorkerWake ==
  ASSUME TypeOK, WakeInv, Worker
  PROVE  WakeInv'
<1> USE DEF WakeInv, BatchUsed, SteppedFirst, Watched, Watches
<1>1. CASE Admit
  <2>1. BatchUsed' /\ SteppedFirst'
    BY <1>1, AdmitTakesNone DEF Admit
  <2>2. Watched'
    BY <1>1, AdmitTakesNone DEF Admit, sched
  <2> QED BY <2>1, <2>2
<1>2. CASE ClearWakeup
  BY <1>2 DEF ClearWakeup, sched
<1>3. CASE Top
  BY <1>3, WorkerAnnounces DEF Top, ClearWakeup, Shared, sched, HasUnfinished
<1>4. CASE FilterOne \/ Prefill \/ PrefillRaises
  BY <1>4, WorkerAnnounces DEF FilterOne, Prefill, PrefillRaises, ClearWakeup, Shared, sched
<1>5. CASE FirstLookup \/ FirstDone \/ GiveFirst
  BY <1>5, WorkerAnnounces DEF FirstLookup, FirstDone, GiveFirst, ClearWakeup, Shared, sched,
                               HasUnfinished
<1>6. CASE Step \/ StepRaises \/ Lookup \/ DeliverStep
  BY <1>6, WorkerAnnounces DEF Step, StepRaises, Lookup, DeliverStep, ClearWakeup, Shared, sched
<1>7. CASE Park \/ WakeUp
  BY <1>7, WorkerAnnounces DEF Park, WakeUp, ClearWakeup, Shared, sched, HasUnfinished, Idle
<1>8. CASE Handler \/ Notify
  BY <1>8 DEF Handler, Notify
<1> QED BY <1>1, <1>2, <1>3, <1>4, <1>5, <1>6, <1>7, <1>8 DEF Worker

LEMMA WakeStep == TypeOK /\ WakeInv /\ [Next]_vars => WakeInv'
<1>1. ASSUME WakeInv, UNCHANGED vars PROVE WakeInv'
  BY <1>1 DEF WakeInv, BatchUsed, SteppedFirst, Watched, Watches, WakeComing, vars, threads,
              worker, sched
<1> QED BY <1>1, OthersWake, WorkerWake, NextSplit

LEMMA WakeInit == Init => WakeInv
BY DEF Init, WakeInv, BatchUsed, SteppedFirst, Watched

\* The worker never sleeps on a request, provided max_active_requests is not set
\* or decode_first is.
THEOREM WorkerStaysAwake == Spec => []NoLostWakeup
<1>1. Init => WakeInv
  BY WakeInit
<1>2. WakeInv => NoLostWakeup
  BY DEF WakeInv, Watched, Watches, NoLostWakeup
<1> QED BY <1>1, <1>2, WakeStep, TypeCorrect, PTL DEF Spec

-----------------------------------------------------------------------------
\* What the limits rest on: requests taken count as active until they are.
Admitted ==
  MaxActive > 0 =>
    /\ NumUnfinished <= MaxActive
    /\ pc = "filter" => NumUnfinished + Len(taken) + Len(batch) <= MaxActive

Accepted == MaxInflight > 0 => Cardinality(queues) <= MaxInflight

LEMMA RangeCount ==
  ASSUME NEW S, NEW q \in Seq(S)
  PROVE  IsFiniteSet(Range(q)) /\ Cardinality(Range(q)) <= Len(q)
<1>1. q \in Surjection(1..Len(q), Range(q))
  BY DEF Surjection, Range
<1>2. IsFiniteSet(1..Len(q)) /\ Cardinality(1..Len(q)) = Len(q)
  <2>1. Len(q) \in Nat
    OBVIOUS
  <2>2. 1 \in Int /\ Len(q) \in Int
    BY <2>1
  <2>3. /\ IsFiniteSet(1..Len(q))
        /\ Cardinality(1..Len(q)) = IF 1 > Len(q) THEN 0 ELSE Len(q) - 1 + 1
    BY ONLY <2>2, FS_Interval, Zenon
  <2> QED BY <2>1, <2>3
<1> QED BY <1>1, <1>2, FS_Surjection

\* Clients register one stream at a time, and only below the limit.
LEMMA AcceptedStep == TypeOK /\ Accepted /\ [Next]_vars => Accepted'
<1> SUFFICES ASSUME TypeOK, Accepted, [Next]_vars PROVE Accepted'
  OBVIOUS
<1>1. ASSUME queues' \subseteq queues PROVE Accepted'
  <2>1. Cardinality(queues') <= Cardinality(queues) /\ Cardinality(queues') \in Nat
    BY <1>1, Counting, FS_Subset, FS_CardinalityType
  <2> QED BY <2>1, Counting, ConstantsAssumption DEF Accepted
<1>2. ASSUME NEW r \in Requests, Register(r) PROVE Accepted'
  <2>1. queues' = queues \cup {r} /\ InflightFree
    BY <1>2 DEF Register
  <2>2. /\ Cardinality(queues') \in Nat
        /\ Cardinality(queues') <= Cardinality(queues) + 1
    <3>1. IsFiniteSet(queues)
      BY Counting
    <3>2. /\ IsFiniteSet(queues')
          /\ \/ Cardinality(queues') = Cardinality(queues)
             \/ Cardinality(queues') = Cardinality(queues) + 1
      BY <2>1, <3>1, FS_AddElement
    <3>3. Cardinality(queues) \in Nat /\ Cardinality(queues') \in Nat
      BY <3>1, <3>2, FS_CardinalityType
    <3> QED BY <3>2, <3>3
  <2> QED BY <2>1, <2>2, Counting, ConstantsAssumption DEF Accepted, InflightFree
<1>3. ASSUME NEW r \in Requests, ClientStep(r), ~Register(r) PROVE queues' \subseteq queues
  BY <1>3 DEF ClientStep, Adder, Enqueue, AddRaises, Wake, Open, Reader, Get, EndStream,
              Abandon, Leave
<1>4. ASSUME NEW t \in Tokenizers, Tokenizer(t) PROVE queues' \subseteq queues
  BY <1>4 DEF Tokenizer, TakeTask, Tokenized, TokenizeFails, TokenizerWakes
<1>5. Close \/ Joined \/ JoinTimesOut => queues' \subseteq queues
  BY DEF Close, Joined, JoinTimesOut
<1>6. Worker => queues' \subseteq queues
  BY DEF Worker, Top, Admit, FilterOne, Prefill, PrefillRaises, FirstLookup, FirstDone,
         GiveFirst, Step, StepRaises, Lookup, DeliverStep, Park, WakeUp, ClearWakeup,
         Handler, Notify, Shared
<1>7. UNCHANGED vars => queues' \subseteq queues
  BY DEF vars
<1> QED BY <1>1, <1>2, <1>3, <1>4, <1>5, <1>6, <1>7, NextSplit DEF Others

\* A step that starts no session and takes no request.
LEMMA FewerActive ==
  ASSUME TypeOK, Admitted, active' \subseteq active,
         pc' = "filter" => pc = "filter" /\ UNCHANGED <<active, taken, batch>>
  PROVE  Admitted'
<1>1. /\ Cardinality(active') \in Nat /\ Cardinality(active) \in Nat
      /\ Cardinality(active') <= Cardinality(active)
  BY Counting, FS_Subset, FS_CardinalityType
<1> QED BY <1>1, ConstantsAssumption DEF Admitted, NumUnfinished

\* The worker admits no more than the limit leaves free.
LEMMA AdmittedStep == TypeInv /\ WakeInv /\ Admitted /\ [Next]_vars => Admitted'
<1> SUFFICES ASSUME TypeInv, WakeInv, Admitted, [Next]_vars PROVE Admitted'
  OBVIOUS
<1> DEFINE N == NumUnfinished
<1>0. TypeOK /\ N \in Nat /\ MaxActive \in Nat /\ Len(taken) \in Nat /\ Len(batch) \in Nat
  BY Counting, ConstantsAssumption DEF TypeInv, TypeOK
<1>1. CASE Admit
  <2> DEFINE n == IF Len(pending) < AdmitCap THEN Len(pending) ELSE AdmitCap
  <2>1. n \in Nat /\ n <= AdmitCap /\ n <= Len(pending) /\ Len(pending) \in Nat
    BY <1>0, CapType DEF TypeOK
  <2>2. Len(taken') = n
    <3>1. taken' = SubSeq(pending, 1, n)
      BY <1>1 DEF Admit
    <3> QED BY <1>0, <2>1, <3>1 DEF TypeOK
  <2>3. Len(batch') = 0 /\ N' = N
    BY <1>1 DEF Admit, WakeInv, BatchUsed, sched, NumUnfinished
  <2>4. MaxActive > 0 /\ N <= MaxActive => N + AdmitCap <= MaxActive
    BY <1>0, ConstantsAssumption DEF AdmitCap
  <2>5. AdmitCap \in Nat
    BY <1>0, CapType
  <2> HIDE DEF n, N
  <2>6. MaxActive > 0 => N <= MaxActive
    BY DEF Admitted, N
  <2>7. MaxActive > 0 => N + Len(taken') + Len(batch') <= MaxActive
    BY ONLY <1>0, <2>1, <2>2, <2>3, <2>4, <2>5, <2>6
  <2> QED BY <2>3, <2>6, <2>7 DEF Admitted, N
<1>2. CASE FilterOne
  <2>1. N' = N /\ pc = "filter" /\ taken # <<>>
    BY <1>2 DEF FilterOne, sched, NumUnfinished
  <2>2. Len(taken') + Len(batch') <= Len(taken) + Len(batch)
        /\ Len(taken') \in Nat /\ Len(batch') \in Nat
    <3>1. taken \in Seq(Requests) /\ batch \in Seq(Requests)
      BY <1>0 DEF TypeOK
    <3>2. Len(Tail(taken)) = Len(taken) - 1 /\ Len(taken) > 0
      BY <2>1, <3>1
    <3>3. Len(Append(batch, Head(taken))) = Len(batch) + 1
      <4>1. Head(taken) \in Requests
        BY <2>1, <3>1, TailType
      <4> QED BY <3>1, <4>1
    <3>4. \/ taken' = Tail(taken) /\ batch' \in {Append(batch, Head(taken)), batch}
          \/ taken' = <<>> /\ batch' = batch
      BY <1>2 DEF FilterOne
    <3>5. Len(<<>>) = 0
      OBVIOUS
    <3>6. CASE taken' = Tail(taken) /\ batch' \in {Append(batch, Head(taken)), batch}
      BY ONLY <1>0, <3>2, <3>3, <3>6
    <3>7. CASE taken' = <<>> /\ batch' = batch
      BY ONLY <1>0, <3>5, <3>7
    <3> QED BY <3>4, <3>6, <3>7
  <2> HIDE DEF N
  <2>3. MaxActive > 0 => N <= MaxActive /\ N + Len(taken) + Len(batch) <= MaxActive
    BY <2>1 DEF Admitted, N
  <2>4. MaxActive > 0 => N' <= MaxActive /\ N' + Len(taken') + Len(batch') <= MaxActive
    BY ONLY <1>0, <2>1, <2>2, <2>3
  <2> QED BY <2>4 DEF Admitted, N
<1>3. CASE Prefill
  <2>1. /\ pc = "filter" /\ pc' = "first"
        /\ active' \subseteq active \cup Range(batch)
    BY <1>3 DEF Prefill
  <2>2. /\ IsFiniteSet(Range(batch)) /\ Cardinality(Range(batch)) <= Len(batch)
        /\ Cardinality(Range(batch)) \in Nat
    BY <1>0, RangeCount, FS_CardinalityType DEF TypeOK
  <2>3. /\ IsFiniteSet(active \cup Range(batch))
        /\ Cardinality(active \cup Range(batch)) <= N + Cardinality(Range(batch))
        /\ Cardinality(active \cup Range(batch)) \in Nat
    <3>1. IsFiniteSet(active)
      BY <1>0, Counting
    <3>2. IsFiniteSet(active \cap Range(batch))
      BY <3>1, FS_Subset
    <3>3. Cardinality(active \cap Range(batch)) \in Nat
      BY <3>2, FS_CardinalityType
    <3>4. IsFiniteSet(active \cup Range(batch))
          /\ Cardinality(active \cup Range(batch))
               = N + Cardinality(Range(batch)) - Cardinality(active \cap Range(batch))
      BY <2>2, <3>1, FS_Union DEF NumUnfinished
    <3>5. Cardinality(active \cup Range(batch)) \in Nat
      BY <3>4, FS_CardinalityType
    <3> HIDE DEF N
    <3> QED BY <1>0, <2>2, <3>3, <3>4, <3>5
  <2>4. N' <= Cardinality(active \cup Range(batch)) /\ N' \in Nat
    BY <2>1, <2>3, FS_Subset, FS_CardinalityType DEF NumUnfinished
  <2>5. MaxActive > 0 => N + Len(taken) + Len(batch) <= MaxActive
    BY <2>1 DEF Admitted
  <2> HIDE DEF N
  <2>6. MaxActive > 0 => N' <= MaxActive
    BY ONLY <1>0, <2>2, <2>3, <2>4, <2>5
  <2> QED BY <2>1, <2>6 DEF Admitted, N
<1>4. CASE \/ Top \/ PrefillRaises \/ FirstLookup \/ FirstDone \/ GiveFirst \/ Step
           \/ StepRaises \/ Lookup \/ DeliverStep
  <2>1. active' \subseteq active /\ pc' # "filter"
    BY <1>4 DEF Top, PrefillRaises, FirstLookup, FirstDone, GiveFirst, Step, StepRaises,
                Lookup, DeliverStep, Discarded, sched
  <2> QED BY <1>0, <2>1, FewerActive
<1>5. CASE Park \/ WakeUp \/ ClearWakeup \/ Handler \/ Notify
  <2>1. active' \subseteq active /\ pc' # "filter"
    BY <1>5 DEF Park, WakeUp, ClearWakeup, Handler, Notify, sched
  <2> QED BY <1>0, <2>1, FewerActive
<1>6. CASE Others
  <2>1. active' \subseteq active
    BY <1>6 DEF Others, ClientStep, Register, Adder, Enqueue, AddRaises, Wake, Open, Reader,
                Get, EndStream, Abandon, Leave, Tokenizer, TakeTask, Tokenized,
                TokenizeFails, TokenizerWakes, Close, Joined, JoinTimesOut, sched
  <2> QED BY <1>0, <1>6, <2>1, OthersLeave, FewerActive
<1>7. CASE UNCHANGED vars
  BY <1>7 DEF vars, worker, sched, Admitted, NumUnfinished
<1> QED BY <1>1, <1>2, <1>3, <1>4, <1>5, <1>6, <1>7, NextSplit DEF Worker

\* max_inflight_requests and max_active_requests are never exceeded.
THEOREM LimitsHold == Spec => []WithinLimits
<1>1. Init => TypeInv
  BY TypeInit
<1>2. Init => WakeInv
  BY WakeInit
<1>3. Init => Admitted /\ Accepted
  BY ConstantsAssumption, FS_EmptySet DEF Init, Admitted, Accepted, NumUnfinished
<1>4. Admitted /\ Accepted => WithinLimits
  BY DEF Admitted, Accepted, WithinLimits
<1>5. TypeInv => TypeOK
  BY DEF TypeInv
<1> QED BY <1>1, <1>2, <1>3, <1>4, <1>5, TypeStep, WakeStep, AcceptedStep, AdmittedStep,
           PTL DEF Spec

-----------------------------------------------------------------------------
(***************************************************************************)
(* SchedulerManager implements StreamContract: each client reads exactly   *)
(* the tokens generated for its request, in order, without gaps or         *)
(* repetitions, and then one end. The argument follows a request through   *)
(* the threads. Until it has had its first token it is in one place only,  *)
(* of a client, a tokenizer thread, _pending and the worker (Queued), and  *)
(* has no tokens (Counted), so its prefill is the only one it gets; each   *)
(* later token is delivered before the next one is computed (Served). What *)
(* it was sent is cut into pieces, and those its client has read, those in *)
(* its queue, the one in the flush buffer and the one the detokenizer      *)
(* holds back follow one another without a gap (Flow). None is put only    *)
(* where no token can follow, unless the server stops (Ended).             *)
(***************************************************************************)

\* Where a request is until the engine has it: with the tokenizer threads, in
\* _pending, or with the worker before it is prefilled.
Encoding == {r \in Requests : \E t \in Tokenizers : tok[t].at = "encode" /\ r \in tok[t].on}
Waiting  == Range(tasks) \cup Encoding \cup Range(pending) \cup Range(taken)
New      == {r \in Requests : client[r] \in {"idle", "adding"}}

\* The requests of `batch' have had their prefill.
Prefilled == pc \in {"first", "give"}

\* A request is in one place at a time, and once.
Queued ==
  /\ IsInjective(tasks) /\ IsInjective(pending) /\ IsInjective(taken) /\ IsInjective(batch)
  /\ \A t \in Tokenizers : tok[t].at = "encode" => \E r \in Requests : tok[t].on = {r}
  /\ \A t, u \in Tokenizers : tok[t].at = "encode" /\ tok[u].at = "encode" /\ t # u
        => tok[t].on \cap tok[u].on = {}
  /\ Range(tasks) \cap Encoding = {}
  /\ (Range(tasks) \cup Encoding) \cap Range(pending) = {}
  /\ (Range(tasks) \cup Encoding \cup Range(pending)) \cap Range(taken) = {}
  /\ Waiting \cap Range(batch) = {}

\* Before its prefill a request has no tokens, after it one.
Counted ==
  /\ \A r \in Waiting : gen[r] = 0
  /\ \A r \in Range(batch) : gen[r] = IF Prefilled THEN 1 ELSE 0
  /\ \A r \in New : gen[r] = 0 /\ r \notin Waiting \cup Range(batch)

\* The requests a token is to be delivered for.
Served ==
  /\ \A r \in stepped : gen[r] > 0 /\ (pc = "give" => gen[r] = 1)
  /\ stepped \cap Range(batch) = {}
  /\ pc \notin {"give", "lookup", "deliver"} => stepped = {} /\ ending = {}
  /\ ending \subseteq stepped /\ ending \cap active = {}
  /\ pc = "deliver" => seen \subseteq stepped
  /\ pc \in {"lookup", "deliver"} => batch = <<>>
  /\ pc = "notify" => ~running

InPlace == Queued /\ Counted /\ Served

\* Requests that may still get a token.
OnTheWay == active \cup stepped \cup New \cup Waiting \cup Range(batch)

\* The queues of the front end hold requests.
LEMMA QueueTypes ==
  ASSUME TypeInv
  PROVE  /\ tasks \in Seq(Requests) /\ pending \in Seq(Requests)
         /\ taken \in Seq(Requests) /\ batch \in Seq(Requests)
         /\ Range(tasks) \subseteq Requests /\ Range(pending) \subseteq Requests
         /\ Range(taken) \subseteq Requests /\ Range(batch) \subseteq Requests
<1>1. /\ tasks \in Seq(Requests) /\ pending \in Seq(Requests)
      /\ taken \in Seq(Requests) /\ batch \in Seq(Requests)
  BY DEF TypeInv, TypeOK
<1> QED BY <1>1, SeqFacts

\* A step that takes requests away at most.
LEMMA CountedKept ==
  ASSUME Counted, Served, Waiting' \subseteq Waiting,
         UNCHANGED <<gen, batch, pc, stepped, ending, seen>>,
         active' \subseteq active, New' \subseteq New, running' => running
  PROVE  Counted' /\ Served' /\ OnTheWay' \subseteq OnTheWay
<1>1. Counted'
  BY DEF Counted, Prefilled
<1>2. Served'
  BY DEF Served
<1>3. OnTheWay' \subseteq OnTheWay
  BY DEF OnTheWay
<1> QED BY <1>1, <1>2, <1>3

\* A step that changes none of the queues.
LEMMA QueuedKept ==
  ASSUME Queued, UNCHANGED <<tasks, pending, taken, batch, tok>>
  PROVE  Queued' /\ Waiting' = Waiting
<1>1. Encoding' = Encoding
  BY DEF Encoding
<1>2. Waiting' = Waiting
  BY <1>1 DEF Waiting
<1> QED BY <1>1, <1>2 DEF Queued

\* Clients.
LEMMA ClientInPlace ==
  ASSUME TypeInv, InPlace, NEW r \in Requests, ClientStep(r)
  PROVE  InPlace' /\ OnTheWay' \subseteq OnTheWay
<1> USE DEF InPlace
<1>0. client \in [Requests -> ClientAt]
  BY DEF TypeInv, TypeOK
<1>1. CASE Enqueue(r)
  <2>1. /\ UNCHANGED <<taken, batch, tok, gen, pc, stepped, ending, seen, active, running>>
        /\ client[r] = "adding" /\ client' = [client EXCEPT ![r] = "waking"]
        /\ \/ tasks' = Append(tasks, r) /\ pending' = pending
           \/ pending' = Append(pending, r) /\ tasks' = tasks
    BY <1>1 DEF Enqueue, worker, sched
  <2>2. r \in New /\ New' = New \ {r}
    BY <1>0, <2>1 DEF New
  <2>3. gen[r] = 0 /\ r \notin Waiting \cup Range(batch)
    BY <2>2 DEF Counted
  <2>4. /\ r \notin Range(tasks) /\ r \notin Range(pending)
        /\ r \notin Encoding /\ r \notin Range(taken)
    BY <2>3 DEF Waiting
  <2>5. Encoding' = Encoding
    BY <2>1 DEF Encoding
  <2>6. \/ /\ IsInjective(tasks') /\ Range(tasks') = Range(tasks) \cup {r} /\ pending' = pending
        \/ /\ IsInjective(pending') /\ Range(pending') = Range(pending) \cup {r} /\ tasks' = tasks
    <3>1. IsInjective(tasks) /\ IsInjective(pending)
      BY DEF Queued
    <3>2. IsInjective(Append(tasks, r)) /\ Range(Append(tasks, r)) = Range(tasks) \cup {r}
      BY <2>4, <3>1, QueueTypes, AppendQueue
    <3>3. IsInjective(Append(pending, r)) /\ Range(Append(pending, r)) = Range(pending) \cup {r}
      BY <2>4, <3>1, QueueTypes, AppendQueue
    <3> QED BY <2>1, <3>2, <3>3
  <2>7. Waiting' = Waiting \cup {r}
    BY <2>1, <2>5, <2>6 DEF Waiting
  <2>8. Queued'
    BY <2>1, <2>3, <2>4, <2>5, <2>6, <2>7 DEF Queued
  <2>9. Counted'
    BY <2>1, <2>2, <2>3, <2>7 DEF Counted, Prefilled
  <2>10. Served'
    BY <2>1 DEF Served
  <2>11. OnTheWay' \subseteq OnTheWay
    BY <2>1, <2>2, <2>7 DEF OnTheWay
  <2> QED BY <2>8, <2>9, <2>10, <2>11
<1>2. CASE ~Enqueue(r)
  <2>1. /\ UNCHANGED <<tasks, pending, taken, batch, tok, gen, pc, stepped, ending, seen, active,
                        running>>
        /\ New' \subseteq New
    <3>1. CASE Register(r)
      BY <1>0, <3>1 DEF Register, worker, sched, New
    <3>2. CASE AddRaises(r) \/ Wake(r) \/ Open(r)
      BY <1>0, <3>2 DEF AddRaises, Wake, Open, worker, sched, New
    <3>3. CASE Get(r) \/ EndStream(r) \/ Abandon(r)
      BY <1>0, <3>3 DEF Get, EndStream, Abandon, Leave, worker, sched, New
    <3> QED BY <1>2, <3>1, <3>2, <3>3 DEF ClientStep, Adder, Reader
  <2> QED BY <2>1, QueuedKept, CountedKept
<1> QED BY <1>1, <1>2

\* Tokenizer threads pass requests on.
LEMMA TokenizerInPlace ==
  ASSUME TypeInv, InPlace, NEW t \in Tokenizers, Tokenizer(t)
  PROVE  InPlace' /\ OnTheWay' \subseteq OnTheWay
<1> USE DEF InPlace
<1>0. tok \in [Tokenizers -> TokAt]
  BY DEF TypeInv, TypeOK
<1>1. UNCHANGED <<taken, batch, gen, pc, stepped, ending, seen, active, client, running>>
  BY DEF Tokenizer, TakeTask, Tokenized, TokenizeFails, TokenizerWakes, worker, sched
<1>2. New' = New
  BY <1>1 DEF New
<1>3. \A u \in Tokenizers : u # t => tok'[u] = tok[u]
  <2>1. CASE TakeTask(t)
    BY <1>0, <2>1 DEF TakeTask
  <2>2. CASE Tokenized(t) \/ TokenizeFails(t) \/ TokenizerWakes(t)
    BY <1>0, <2>2 DEF Tokenized, TokenizeFails, TokenizerWakes
  <2> QED BY <2>1, <2>2 DEF Tokenizer
<1>4. \A u \in Tokenizers : tok[u].on \subseteq Requests
  BY <1>0 DEF TokAt
<1>5. CASE TakeTask(t)
  <2>1. PICK h : h = Head(tasks)
    OBVIOUS
  <2>2. tasks # <<>> /\ tasks' = Tail(tasks) /\ pending' = pending /\ tok[t].at = "idle"
    BY <1>5 DEF TakeTask
  <2>3. \/ tok'[t].at # "encode"
        \/ tok'[t].at = "encode" /\ tok'[t].on = {h}
    BY <1>0, <1>5, <2>1 DEF TakeTask
  <2>4. /\ IsInjective(tasks') /\ h \in Requests /\ h \notin Range(tasks')
        /\ Range(tasks) = {h} \cup Range(tasks')
    <3>1. IsInjective(tasks)
      BY DEF Queued
    <3> QED BY <2>1, <2>2, <3>1, QueueTypes, TailQueue
  <2>5. Encoding' \subseteq Encoding \cup {h}
    BY <1>3, <2>3 DEF Encoding
  <2>6. Waiting' \subseteq Waiting
    BY <1>1, <2>2, <2>4, <2>5 DEF Waiting
  <2>7. h \notin Encoding
    BY <2>4 DEF Queued
  <2>8. /\ \A u \in Tokenizers : tok'[u].at = "encode" => \E r \in Requests : tok'[u].on = {r}
        /\ \A u, w \in Tokenizers : tok'[u].at = "encode" /\ tok'[w].at = "encode" /\ u # w
              => tok'[u].on \cap tok'[w].on = {}
    <3>1. \A u \in Tokenizers : u # t /\ tok[u].at = "encode" => h \notin tok[u].on
      BY <1>4, <2>4, <2>7 DEF Encoding
    <3> QED BY <1>3, <2>3, <2>4, <3>1 DEF Queued
  <2>9. Queued'
    BY <1>1, <2>2, <2>4, <2>5, <2>6, <2>8 DEF Queued
  <2> QED BY <1>1, <1>2, <2>6, <2>9, CountedKept
<1>6. CASE Tokenized(t) \/ TokenizeFails(t)
  <2>1. tok[t].at = "encode" /\ tok'[t].at # "encode" /\ tasks' = tasks
    BY <1>0, <1>6 DEF Tokenized, TokenizeFails, TokAt
  <2>2. PICK r \in Requests : tok[t].on = {r}
    BY <2>1 DEF Queued
  <2>3. r \in Encoding /\ Encoding' = Encoding \ {r}
    BY <1>3, <2>1, <2>2 DEF Encoding, Queued
  <2>4. pending' = Append(pending, r) \/ pending' = pending
    BY <1>6, <2>2 DEF Tokenized, TokenizeFails
  <2>5. r \notin Range(pending) /\ r \notin Range(tasks) /\ r \notin Range(taken) /\ r \notin Range(batch)
    BY <2>3 DEF Queued, Waiting
  <2>6. /\ IsInjective(pending') /\ Range(pending') \subseteq Range(pending) \cup {r}
    <3>1. IsInjective(pending)
      BY DEF Queued
    <3>2. IsInjective(Append(pending, r)) /\ Range(Append(pending, r)) = Range(pending) \cup {r}
      BY <2>5, <3>1, QueueTypes, AppendQueue
    <3> QED BY <2>4, <3>1, <3>2
  <2>7. Waiting' \subseteq Waiting
    BY <1>1, <2>1, <2>3, <2>6 DEF Waiting
  <2>8. /\ \A u \in Tokenizers : tok'[u].at = "encode" => \E q \in Requests : tok'[u].on = {q}
        /\ \A u, w \in Tokenizers : tok'[u].at = "encode" /\ tok'[w].at = "encode" /\ u # w
              => tok'[u].on \cap tok'[w].on = {}
    BY <1>3, <2>1 DEF Queued
  <2>9. Queued'
    BY <1>1, <2>1, <2>3, <2>5, <2>6, <2>7, <2>8 DEF Queued
  <2> QED BY <1>1, <1>2, <2>7, <2>9, CountedKept
<1>7. CASE TokenizerWakes(t)
  <2>1. tok[t].at # "encode" /\ tok'[t].at # "encode" /\ tasks' = tasks /\ pending' = pending
    BY <1>0, <1>7 DEF TokenizerWakes
  <2>2. Encoding' = Encoding
    BY <1>3, <2>1 DEF Encoding
  <2>3. Waiting' = Waiting
    BY <1>1, <2>1, <2>2 DEF Waiting
  <2>4. /\ \A u \in Tokenizers : tok'[u].at = "encode" => \E q \in Requests : tok'[u].on = {q}
        /\ \A u, w \in Tokenizers : tok'[u].at = "encode" /\ tok'[w].at = "encode" /\ u # w
              => tok'[u].on \cap tok'[w].on = {}
    BY <1>3, <2>1 DEF Queued
  <2>5. Queued'
    BY <1>1, <2>1, <2>2, <2>3, <2>4 DEF Queued
  <2> QED BY <1>1, <1>2, <2>3, <2>5, CountedKept
<1> QED BY <1>5, <1>6, <1>7 DEF Tokenizer

\* Closing the server changes none of the queues.
LEMMA CloseInPlace ==
  ASSUME TypeInv, InPlace, Close \/ Joined \/ JoinTimesOut
  PROVE  InPlace' /\ OnTheWay' \subseteq OnTheWay
<1>1. /\ UNCHANGED <<tasks, pending, taken, batch, tok, gen, pc, stepped, ending, seen, client>>
      /\ active' \subseteq active /\ (running' => running)
  BY DEF Close, Joined, JoinTimesOut, worker, sched
<1>2. New' = New
  BY <1>1 DEF New
<1> QED BY <1>1, <1>2, QueuedKept, CountedKept DEF InPlace

\* Queued and Counted when only the worker's own queues change.
LEMMA QueuesMoved ==
  ASSUME Queued, UNCHANGED <<tasks, tok>>,
         IsInjective(pending'), IsInjective(taken'), IsInjective(batch'),
         Range(pending') \subseteq Range(pending),
         Range(taken') \subseteq Range(taken) \cup Range(pending),
         Range(batch') \subseteq Range(batch) \cup Range(taken),
         Range(pending') \cap Range(taken') = {}, Range(taken') \cap Range(batch') = {},
         Range(pending') \cap Range(batch') = {}
  PROVE  Queued' /\ Waiting' \subseteq Waiting
<1>1. Encoding' = Encoding
  BY DEF Encoding
<1>2. Waiting' \subseteq Waiting
  BY <1>1 DEF Waiting
<1>3. /\ IsInjective(tasks')
      /\ \A t \in Tokenizers : tok'[t].at = "encode" => \E r \in Requests : tok'[t].on = {r}
      /\ \A t, u \in Tokenizers : tok'[t].at = "encode" /\ tok'[u].at = "encode" /\ t # u
            => tok'[t].on \cap tok'[u].on = {}
  BY DEF Queued
<1>4. /\ Range(tasks) \cap Encoding = {}
      /\ (Range(tasks) \cup Encoding) \cap Range(pending) = {}
      /\ (Range(tasks) \cup Encoding \cup Range(pending)) \cap Range(taken) = {}
      /\ (Range(tasks) \cup Encoding \cup Range(pending) \cup Range(taken)) \cap Range(batch) = {}
  BY DEF Queued, Waiting
<1>5. /\ Range(tasks') \cap Encoding' = {}
      /\ (Range(tasks') \cup Encoding') \cap Range(pending') = {}
      /\ (Range(tasks') \cup Encoding' \cup Range(pending')) \cap Range(taken') = {}
      /\ (Range(tasks') \cup Encoding' \cup Range(pending') \cup Range(taken')) \cap Range(batch') = {}
  BY <1>1, <1>4
<1>6. Queued'
  BY <1>3, <1>5 DEF Queued, Waiting
<1> QED BY <1>2, <1>6

\* A request of the batch is nowhere else.
LEMMA BatchNew ==
  ASSUME TypeInv, InPlace
  PROVE  \A r \in Range(batch) : r \notin New /\ r \notin Waiting /\ r \notin stepped
BY DEF InPlace, Queued, Counted, Served

\* Taking and filtering.
LEMMA AdmitInPlace ==
  ASSUME TypeInv, WakeInv, InPlace, Admit
  PROVE  InPlace' /\ OnTheWay' \subseteq OnTheWay
<1> USE DEF InPlace
<1>1. UNCHANGED <<batch, gen, tasks, tok, client, stepped, ending, seen, active, running>>
      /\ pc = "admit" /\ pc' = "filter"
  BY DEF Admit, sched, threads
<1>2. batch = <<>>
  BY <1>1 DEF WakeInv, BatchUsed
<1>3. Range(batch) = {} /\ New' = New
  BY <1>1, <1>2 DEF Range, New
<1>4. PICK n \in 0..Len(pending) : /\ taken' = SubSeq(pending, 1, n)
                                   /\ pending' = SubSeq(pending, n + 1, Len(pending))
  <2>1. (IF Len(pending) < AdmitCap THEN Len(pending) ELSE AdmitCap) \in 0..Len(pending)
    <3>1. AdmitCap \in Nat /\ Len(pending) \in Nat
      BY CapType, QueueTypes DEF TypeInv
    <3> QED BY <3>1
  <2> QED BY <2>1 DEF Admit
<1>5. /\ IsInjective(taken') /\ IsInjective(pending')
      /\ Range(taken') \cup Range(pending') = Range(pending)
      /\ Range(taken') \cap Range(pending') = {}
  <2>1. IsInjective(pending)
    BY DEF Queued
  <2> QED BY <1>4, <2>1, QueueTypes, Suffix
<1>6. Queued' /\ Waiting' \subseteq Waiting
  <2>1. IsInjective(batch')
    BY <1>1 DEF Queued
  <2>2. Range(batch') = {}
    BY <1>1, <1>3
  <2> QED BY <1>1, <1>5, <2>1, <2>2, QueuesMoved
<1>7. Counted'
  BY <1>1, <1>3, <1>6 DEF Counted, Prefilled
<1>8. Served'
  BY <1>1 DEF Served
<1>9. OnTheWay' \subseteq OnTheWay
  BY <1>1, <1>3, <1>6 DEF OnTheWay
<1> QED BY <1>6, <1>7, <1>8, <1>9

\* A canceled request is dropped, another one goes into the batch.
LEMMA FilterInPlace ==
  ASSUME TypeInv, InPlace, FilterOne
  PROVE  InPlace' /\ OnTheWay' \subseteq OnTheWay
<1> USE DEF InPlace
<1>1. UNCHANGED <<gen, tasks, pending, tok, client, stepped, ending, seen, active, running, pc>>
      /\ pc = "filter" /\ taken # <<>>
  BY DEF FilterOne, sched, threads, Shared
<1>2. PICK h : h = Head(taken)
  OBVIOUS
<1>3. IsInjective(taken) /\ IsInjective(batch)
  BY DEF Queued
<1>4. /\ IsInjective(Tail(taken)) /\ h \in Requests /\ h \notin Range(Tail(taken))
      /\ Range(taken) = {h} \cup Range(Tail(taken))
  BY <1>1, <1>2, <1>3, QueueTypes, TailQueue
<1>5. /\ h \notin Range(batch) /\ h \notin Range(pending)
      /\ Range(pending) \cap Range(taken) = {} /\ Range(pending) \cap Range(batch) = {}
      /\ Range(taken) \cap Range(batch) = {}
  BY <1>4 DEF Queued, Waiting
<1>6. IsInjective(Append(batch, h)) /\ Range(Append(batch, h)) = Range(batch) \cup {h}
  BY <1>3, <1>4, <1>5, QueueTypes, AppendQueue
<1>7. IsInjective(<<>>) /\ Range(<<>>) = {}
  BY DEF IsInjective, Range
<1>8. \/ taken' = Tail(taken) /\ (batch' = Append(batch, h) \/ batch' = batch)
      \/ taken' = <<>> /\ batch' = batch
  BY <1>2 DEF FilterOne
<1>9. /\ IsInjective(taken') /\ IsInjective(batch')
      /\ Range(taken') \subseteq Range(taken) /\ Range(batch') \subseteq Range(batch) \cup {h}
      /\ Range(taken') \cap Range(batch') = {}
  <2>1. CASE taken' = Tail(taken) /\ batch' = Append(batch, h)
    BY <1>4, <1>5, <1>6, <2>1
  <2>2. CASE taken' = Tail(taken) /\ batch' = batch
    BY <1>3, <1>4, <1>5, <2>2
  <2>3. CASE taken' = <<>> /\ batch' = batch
    BY <1>3, <1>7, <2>3
  <2> QED BY <1>8, <2>1, <2>2, <2>3
<1>10. Queued' /\ Waiting' \subseteq Waiting
  <2>1. IsInjective(pending')
    BY <1>1 DEF Queued
  <2>2. /\ Range(pending') \cap Range(taken') = {} /\ Range(pending') \cap Range(batch') = {}
        /\ Range(batch') \subseteq Range(batch) \cup Range(taken)
    BY <1>1, <1>4, <1>5, <1>9
  <2> QED BY <1>1, <1>9, <2>1, <2>2, QueuesMoved
<1>11. h \in Waiting /\ gen[h] = 0
  BY <1>4 DEF Waiting, Counted
<1>12. h \notin New /\ New' = New
  BY <1>1, <1>11 DEF Counted, New
<1>13. Counted'
  BY <1>1, <1>9, <1>10, <1>11, <1>12 DEF Counted, Prefilled
<1>14. Served'
  BY <1>1 DEF Served
<1>15. OnTheWay' \subseteq OnTheWay
  BY <1>1, <1>9, <1>10, <1>11, <1>12 DEF OnTheWay
<1> QED BY <1>10, <1>13, <1>14, <1>15

\* The worker's steps that leave its queues alone, but for `batch'.
LEMMA PrefillInPlace ==
  ASSUME TypeInv, InPlace, Prefill
  PROVE  InPlace' /\ OnTheWay' \subseteq OnTheWay
<1> USE DEF InPlace
<1>1. UNCHANGED <<tasks, pending, taken, batch, tok, client, stepped, ending, seen, running>>
      /\ pc = "filter" /\ pc' = "first"
  BY DEF Prefill, threads, Shared
<1>2. Queued' /\ Waiting' = Waiting
  BY <1>1, QueuedKept
<1>3. gen' = [r \in Requests |-> IF r \in Range(batch) THEN 1 ELSE gen[r]]
  BY DEF Prefill
<1>4. New' = New /\ New \subseteq Requests /\ Waiting \subseteq Requests
  BY <1>1, QueueTypes DEF New, Waiting, Encoding
<1>5. Counted'
  BY <1>1, <1>2, <1>3, <1>4, QueueTypes DEF Counted, Prefilled, Queued
<1>6. Served'
  BY <1>1 DEF Served
<1>7. active' \subseteq active \cup Range(batch)
  BY DEF Prefill
<1>8. OnTheWay' \subseteq OnTheWay
  BY <1>1, <1>2, <1>4, <1>7 DEF OnTheWay
<1> QED BY <1>2, <1>5, <1>6, <1>8

\* The batch was prefilled; its first tokens are to be delivered next.
LEMMA FirstLookupInPlace ==
  ASSUME TypeInv, InPlace, FirstLookup
  PROVE  InPlace' /\ OnTheWay' \subseteq OnTheWay
<1> USE DEF InPlace
<1>1. UNCHANGED <<tasks, pending, taken, tok, client, seen, gen, running>>
      /\ pc = "first" /\ batch # <<>> /\ batch' = Tail(batch) /\ stepped = {} /\ ending = {}
  BY DEF FirstLookup, threads, Shared, sched, Discarded, Served
<1>2. PICK h : h = Head(batch)
  OBVIOUS
<1>3. /\ IsInjective(batch') /\ h \in Requests /\ h \notin Range(batch')
      /\ Range(batch) = {h} \cup Range(batch')
  BY <1>1, <1>2, QueueTypes, TailQueue DEF Queued
<1>4. Queued' /\ Waiting' = Waiting
  <2>1. Encoding' = Encoding
    BY <1>1 DEF Encoding
  <2>2. Waiting' = Waiting
    BY <1>1, <2>1 DEF Waiting
  <2> QED BY <1>1, <1>3, <2>1, <2>2 DEF Queued
<1>5. \/ pc' = "give" /\ stepped' = {h} /\ ending' = {h} \ active /\ active' = active
      \/ pc' = "first" /\ stepped' = {} /\ ending' = {} /\ active' = active \ {h}
  BY <1>1, <1>2 DEF FirstLookup, Discarded, sched
<1>6. New' = New
  BY <1>1 DEF New
<1>7. Counted'
  BY <1>1, <1>3, <1>4, <1>5, <1>6 DEF Counted, Prefilled
<1>8. gen[h] = 1
  BY <1>1, <1>3 DEF Counted, Prefilled
<1>9. Served'
  BY <1>1, <1>3, <1>5, <1>8 DEF Served
<1>10. OnTheWay' \subseteq OnTheWay
  BY <1>3, <1>4, <1>5, <1>6 DEF OnTheWay
<1> QED BY <1>4, <1>7, <1>9, <1>10

\* A decode step makes one token for each session it chose.
LEMMA StepInPlace ==
  ASSUME TypeInv, WakeInv, InPlace, Step
  PROVE  InPlace' /\ OnTheWay' \subseteq OnTheWay
<1> USE DEF InPlace
<1>1. UNCHANGED <<tasks, pending, taken, batch, tok, client, seen, running>>
      /\ pc = "step" /\ pc' = "lookup"
  BY DEF Step, threads, Shared
<1>2. Queued' /\ Waiting' = Waiting
  BY <1>1, QueuedKept
<1>3. PICK chosen \in SUBSET active :
          /\ stepped' = chosen
          /\ ending' \subseteq chosen
          /\ active' = active \ ending'
          /\ gen' = [r \in Requests |-> IF r \in chosen THEN gen[r] + 1 ELSE gen[r]]
  BY DEF Step
<1>4. batch = <<>> /\ Range(batch) = {}
  <2>1. batch = <<>>
    BY <1>1 DEF WakeInv, BatchUsed
  <2> QED BY <2>1 DEF Range
<1>5. \A r \in active : r \in Requests /\ gen[r] \in Nat /\ gen[r] > 0
  BY ConstantsAssumption DEF TypeInv, TypeOK, TokensLeft
<1>6. \A r \in Waiting \cup New : r \in Requests /\ gen[r] = 0 /\ r \notin chosen
  <2>1. \A r \in Waiting \cup New : r \in Requests /\ gen[r] = 0
    BY QueueTypes DEF Counted, Waiting, Encoding, New
  <2>2. \A r \in active : gen[r] # 0
    BY <1>5
  <2> QED BY <2>1, <2>2
<1>7. New' = New
  BY <1>1 DEF New
<1>8. Counted'
  <2>1. \A r \in Waiting \cup New : gen'[r] = 0
    BY <1>3, <1>6
  <2>2. \A r \in New : r \notin Waiting
    BY DEF Counted
  <2> QED BY <1>1, <1>2, <1>4, <1>7, <2>1, <2>2 DEF Counted
<1>9. \A r \in chosen : gen'[r] > 0
  BY <1>3, <1>5
<1>10. Served'
  BY <1>1, <1>3, <1>4, <1>9 DEF Served
<1>11. OnTheWay' \subseteq OnTheWay
  BY <1>1, <1>2, <1>3, <1>7 DEF OnTheWay
<1> QED BY <1>2, <1>8, <1>10, <1>11

\* The other steps of the worker change none of the queues.
LEMMA WorkerInPlace ==
  ASSUME TypeInv, WakeInv, InPlace, Worker
  PROVE  InPlace' /\ OnTheWay' \subseteq OnTheWay
<1> USE DEF InPlace
<1>1. ASSUME UNCHANGED <<tasks, pending, taken, batch, tok, client, gen>>,
             Prefilled' = Prefilled \/ batch = <<>>,
             active' \subseteq active, stepped' \subseteq stepped
      PROVE  Queued' /\ Counted' /\ OnTheWay' \subseteq OnTheWay
  <2>1. Queued' /\ Waiting' = Waiting
    BY <1>1, QueuedKept
  <2>2. New' = New
    BY <1>1 DEF New
  <2>3. Range(<<>>) = {}
    BY DEF Range
  <2>4. Counted'
    BY <1>1, <2>1, <2>2, <2>3 DEF Counted
  <2>5. OnTheWay' \subseteq OnTheWay
    BY <1>1, <2>1, <2>2 DEF OnTheWay
  <2> QED BY <2>1, <2>4, <2>5
<1>2. CASE Top \/ PrefillRaises \/ StepRaises \/ Park \/ WakeUp \/ ClearWakeup \/ Handler \/ Notify
  <2>1. UNCHANGED <<tasks, pending, taken, batch, tok, client, gen, stepped, ending, active>>
    BY <1>2 DEF Top, PrefillRaises, StepRaises, Park, WakeUp, ClearWakeup, Handler, Notify, Shared,
                threads, sched
  <2>2. pc \in {"top", "filter", "step", "park", "wait", "clear", "handler", "notify"}
    BY <1>2 DEF Top, PrefillRaises, StepRaises, Park, WakeUp, ClearWakeup, Handler, Notify
  <2>3. /\ pc' \in {"top", "dead", "step", "admit", "handler", "wait", "clear", "notify"}
        /\ pc' = "notify" => ~running'
    BY <1>2 DEF Top, PrefillRaises, StepRaises, Park, WakeUp, ClearWakeup, Handler, Notify
  <2>4. Served'
    BY <2>1, <2>2, <2>3 DEF Served
  <2>5. Prefilled' = Prefilled
    BY <2>2, <2>3 DEF Prefilled
  <2> QED BY <1>1, <2>1, <2>4, <2>5
<1>3. CASE FirstDone
  <2>1. UNCHANGED <<tasks, pending, taken, batch, tok, client, gen, stepped, ending, active>>
        /\ batch = <<>> /\ pc = "first" /\ pc' \in {"park", "step"}
    BY <1>3 DEF FirstDone, Shared, threads, sched
  <2>2. Served'
    BY <2>1 DEF Served
  <2> QED BY <1>1, <2>1, <2>2
<1>4. CASE GiveFirst
  <2>1. UNCHANGED <<tasks, pending, taken, batch, tok, client, gen>>
        /\ pc = "give" /\ pc' = "first" /\ stepped' = {} /\ ending' = {}
        /\ active' \subseteq active
    BY <1>4 DEF GiveFirst, Shared, threads, Discarded
  <2>2. Served'
    BY <2>1 DEF Served
  <2>3. Prefilled' = Prefilled
    BY <2>1 DEF Prefilled
  <2> QED BY <1>1, <2>1, <2>2, <2>3
<1>5. CASE Lookup
  <2>1. UNCHANGED <<tasks, pending, taken, batch, tok, client, gen, stepped, ending, active>>
        /\ pc = "lookup" /\ pc' = "deliver" /\ seen' \subseteq stepped
    BY <1>5 DEF Lookup, Shared, threads, sched
  <2>2. Served'
    BY <2>1 DEF Served
  <2>3. Prefilled' = Prefilled
    BY <2>1 DEF Prefilled
  <2> QED BY <1>1, <2>1, <2>2, <2>3
<1>6. CASE DeliverStep
  <2>1. UNCHANGED <<tasks, pending, taken, batch, tok, client, gen>>
        /\ pc = "deliver" /\ pc' \in {"admit", "park"} /\ stepped' = {} /\ ending' = {}
        /\ active' \subseteq active
    BY <1>6 DEF DeliverStep, Shared, threads, Discarded
  <2>2. Served'
    BY <2>1 DEF Served
  <2>3. Prefilled' = Prefilled
    BY <2>1 DEF Prefilled
  <2> QED BY <1>1, <2>1, <2>2, <2>3
<1> QED BY <1>2, <1>3, <1>4, <1>5, <1>6, AdmitInPlace, FilterInPlace, PrefillInPlace,
           FirstLookupInPlace, StepInPlace DEF Worker

\* No step puts a request in a second place.
LEMMA InPlaceStep ==
  TypeInv /\ WakeInv /\ InPlace /\ [Next]_vars => InPlace' /\ OnTheWay' \subseteq OnTheWay
<1>1. ASSUME InPlace, UNCHANGED vars PROVE InPlace' /\ OnTheWay' \subseteq OnTheWay
  <2>1. UNCHANGED <<tasks, pending, taken, batch, tok, client, gen, pc, stepped, ending, seen, active, running>>
    BY <1>1 DEF vars, threads, worker, sched
  <2>2. New' = New
    BY <2>1 DEF New
  <2> QED BY <1>1, <2>1, <2>2, QueuedKept, CountedKept DEF InPlace
<1> QED BY <1>1, ClientInPlace, TokenizerInPlace, CloseInPlace, WorkerInPlace, NextSplit DEF Others

\* At the start all the places are empty.
LEMMA InPlaceInit == Init => InPlace
<1> SUFFICES ASSUME Init PROVE InPlace
  OBVIOUS
<1>1. IsInjective(<<>>) /\ Range(<<>>) = {}
  BY DEF IsInjective, Range
<1>2. Encoding = {} /\ Waiting = {} /\ Range(batch) = {}
  BY <1>1 DEF Init, Encoding, Waiting
<1>3. Queued
  BY <1>1, <1>2 DEF Init, Queued
<1>4. Counted /\ Served
  BY <1>2 DEF Init, Counted, Served, New
<1> QED BY <1>3, <1>4 DEF InPlace

-----------------------------------------------------------------------------
\* Clients that read their stream, or will; clients that were told it ended.
Reading == {r \in Requests : client[r] \in {"adding", "waking", "added", "open", "read"}}
Over    == {r \in Requests : client[r] \in {"read", "done"}}

\* While the server runs, a client's stream is registered as long as it reads
\* it, and None is for requests that get no more tokens.
Ended ==
  running => \A r \in Requests : /\ r \in Reading => r \in queues
                                 /\ ~NoNone(chan[r]) \/ r \in Over => r \notin OnTheWay

\* Those are all its tokens but one that is about to be delivered, or that were
\* dropped with the session.
Undelivered == stepped \cup (IF Prefilled THEN Range(batch) ELSE {})
Levels(r)   == IF running THEN {gen[r]} ELSE Nat
Flow(r) ==
  \E d \in Nat : /\ FlowOf(chan[r], got[r], stream[r], d, Levels(r))
                 /\ d <= gen[r]
                 /\ r \in Undelivered => d + 1 = gen[r]
                 /\ r \in active \ Undelivered => d = gen[r]

StreamTypes == /\ chan \in [Requests -> Seq(Seq(Nat))]
               /\ got \in [Requests -> Seq(Nat)]
               /\ stream \in [Requests -> Buffers]

StreamInv == StreamTypes /\ Ended /\ \A r \in Requests : Flow(r)

\* Requests have a number of tokens.
LEMMA GenNat == ASSUME TypeInv PROVE \A r \in Requests : gen[r] \in Nat
BY ConstantsAssumption DEF TypeInv, TypeOK

\* The next token is given to a stream, with the end of the stream if it is the last.
LEMMA FlowGive ==
  ASSUME NEW q \in Seq(Seq(Nat)), NEW t \in Seq(Nat), NEW s \in Buffers, NEW d \in Nat, NEW S,
         FlowOf(q, t, s, d, S), NEW i, i = d + 1, NEW holds \in BOOLEAN,
         NEW f, f = OnToken(s, i, holds)
  PROVE  /\ Given(f) \in Buffers /\ q \o Pieces(f) \in Seq(Seq(Nat))
         /\ NoNone(q) => NoNone(q \o Pieces(f))
         /\ FlowOf(q \o Pieces(f), t, Given(f), i, S)
         /\ i \in S => /\ q \o Pieces(f) \o LastPieces(Given(f)) \in Seq(Seq(Nat))
                       /\ FlowOf(q \o Pieces(f) \o LastPieces(Given(f)), t, Fresh, i, S)
<1>1. f \in Buffers /\ FlowOf(q, t, f, i, S) /\ i \in Nat
  <2>1. f = IF holds THEN [s EXCEPT !.held = Append(@, i), !.since = @ + 1]
            ELSE [s EXCEPT !.buf = @ \o s.held \o <<i>>, !.held = <<>>, !.since = @ + 1]
    BY DEF OnToken
  <2>2. f \in Buffers /\ FlowOf(q, t, f, i, S)
    BY <2>1, FlowToken
  <2> QED BY <2>2
<1>2. PICK g, p : g = Given(f) /\ p = q \o Pieces(f)
  OBVIOUS
<1>3. g \in Buffers /\ p \in Seq(Seq(Nat)) /\ (NoNone(q) => NoNone(p)) /\ FlowOf(p, t, g, i, S)
  <2>1. CASE Due(f)
    <3>1. /\ g = [held |-> f.held, buf |-> <<>>, since |-> 0, sent |-> TRUE]
          /\ p = q \o <<f.buf>> /\ f.buf # <<>>
      BY <1>2, <2>1 DEF Given, Pieces, Due, Fresh
    <3> QED BY <1>1, <3>1, FlowSend
  <2>2. CASE ~Due(f)
    <3>1. g = f /\ p = q
      BY <1>2, <2>2 DEF Given, Pieces
    <3> QED BY <1>1, <3>1
  <2> QED BY <2>1, <2>2
<1>4. ASSUME i \in S
      PROVE  p \o LastPieces(g) \in Seq(Seq(Nat)) /\ FlowOf(p \o LastPieces(g), t, Fresh, i, S)
  <2>1. PICK l, h : l = LastPieces(g) /\ h = Fresh
    OBVIOUS
  <2>2. l = (IF g.buf \o g.held = <<>> THEN <<(<<>>)>> ELSE <<g.buf \o g.held, <<>> >>)
        /\ h.buf = <<>> /\ h.held = <<>>
    BY <2>1 DEF LastPieces, None, Fresh
  <2>3. p \o l \in Seq(Seq(Nat)) /\ FlowOf(p \o l, t, h, i, S)
    BY ONLY <1>1, <1>3, <1>4, <2>2, t \in Seq(Nat), FlowEnd
  <2> QED BY <2>1, <2>3
<1> QED BY <1>2, <1>3, <1>4

\* A request gets no second end, and no new client is left without its stream.
LEMMA EndedKept ==
  ASSUME Ended, OnTheWay' \subseteq OnTheWay, running' => running,
         \A r \in Requests :
           running' =>
             /\ r \in Reading' => r \in queues' \/ (r \in Reading /\ (r \in queues => r \in queues'))
             /\ ~NoNone(chan'[r]) => ~NoNone(chan[r]) \/ r \notin OnTheWay'
             /\ r \in Over' => r \in Over \/ ~NoNone(chan[r]) \/ r \notin OnTheWay'
  PROVE  Ended'
<1> SUFFICES ASSUME running', NEW r \in Requests
             PROVE  /\ r \in Reading' => r \in queues'
                    /\ ~NoNone(chan'[r]) \/ r \in Over' => r \notin OnTheWay'
  BY DEF Ended
<1>1. /\ r \in Reading => r \in queues
      /\ ~NoNone(chan[r]) \/ r \in Over => r \notin OnTheWay
  BY DEF Ended
<1> QED BY <1>1

\* A step that leaves a stream alone: its flow stays, while the count may go up.
LEMMA FlowKept ==
  ASSUME StreamTypes, NEW r \in Requests, Flow(r),
         chan'[r] = chan[r], got'[r] = got[r], stream'[r] = stream[r],
         gen[r] \in Nat, gen'[r] \in Nat, gen[r] <= gen'[r],
         running' => running /\ (gen'[r] = gen[r] \/ NoNone(chan[r])),
         r \in Undelivered' => \/ r \in Undelivered /\ gen'[r] = gen[r]
                               \/ gen'[r] = gen[r] + 1 /\ (r \in active \ Undelivered \/ gen[r] = 0),
         r \in active' \ Undelivered' => r \in active \ Undelivered /\ gen'[r] = gen[r]
  PROVE  Flow(r)'
<1>1. PICK d \in Nat : /\ FlowOf(chan[r], got[r], stream[r], d, Levels(r))
                       /\ d <= gen[r]
                       /\ r \in Undelivered => d + 1 = gen[r]
                       /\ r \in active \ Undelivered => d = gen[r]
  BY DEF Flow
<1>2. Levels(r) \subseteq Levels(r)' \/ NoNone(chan[r])
  BY DEF Levels
<1>3. chan[r] \in Seq(Seq(Nat)) /\ got[r] \in Seq(Nat)
  BY DEF StreamTypes
<1>4. FlowOf(chan[r], got[r], stream[r], d, Levels(r)')
  BY <1>1, <1>2, <1>3, LevelsMono
<1>5. d <= gen'[r]
  BY <1>1
<1>6. (r \in Undelivered' => d + 1 = gen'[r]) /\ (r \in active' \ Undelivered' => d = gen'[r])
  BY <1>1
<1>7. FlowOf(chan'[r], got'[r], stream'[r], d, Levels(r)')
  BY <1>4
<1> QED BY <1>5, <1>6, <1>7 DEF Flow, FlowOf, Pieced, Cuts

\* Clients.
LEMMA ClientStream ==
  ASSUME TypeInv, WakeInv, InPlace, StreamInv, NEW r \in Requests, ClientStep(r)
  PROVE  StreamInv'
<1> USE DEF StreamInv
<1>0. client \in [Requests -> ClientAt]
  BY DEF TypeInv, TypeOK
<1>1. /\ UNCHANGED <<stream, gen, running, active, stepped, batch, pc>>
      /\ OnTheWay' \subseteq OnTheWay /\ Undelivered' = Undelivered
      /\ \A q \in Requests : Levels(q)' = Levels(q)
  <2>1. UNCHANGED <<stream, gen, running, active, stepped, batch, pc>>
    BY DEF ClientStep, Register, Adder, Enqueue, AddRaises, Wake, Open, Reader, Get, EndStream,
           Abandon, Leave, worker, sched, streams
  <2>2. OnTheWay' \subseteq OnTheWay
    BY ClientInPlace
  <2> QED BY <2>1, <2>2 DEF Undelivered, Prefilled, Levels
<1>2. \A q \in Requests \ {r} : client'[q] = client[q]
  BY <1>0 DEF ClientStep, Register, Adder, Enqueue, AddRaises, Wake, Open, Reader, Get, EndStream,
              Abandon, Leave
<1>3. /\ \A q \in Requests \ {r} : (q \in Reading' <=> q \in Reading) /\ (q \in Over' <=> q \in Over)
      /\ \A q \in Requests \ {r} : q \in queues => q \in queues'
  <2>1. \A q \in Requests \ {r} : q \in queues => q \in queues'
    BY DEF ClientStep, Register, Adder, Enqueue, AddRaises, Wake, Open, Reader, Get, EndStream,
           Abandon, Leave
  <2> QED BY <1>2, <2>1 DEF Reading, Over
<1>4. CASE Get(r)
  <2>1. /\ client[r] = "open" /\ chan[r] # <<>>
        /\ chan' = [chan EXCEPT ![r] = Tail(@)]
        /\ got' = [got EXCEPT ![r] = @ \o Head(chan[r])]
        /\ client'[r] = IF Head(chan[r]) = <<>> THEN "read" ELSE "open"
        /\ queues' = queues
    BY <1>0, <1>4 DEF Get, None
  <2>2. PICK q, t : q = chan[r] /\ t = got[r]
    OBVIOUS
  <2>3. q \in Seq(Seq(Nat)) /\ t \in Seq(Nat) /\ q # <<>>
    BY <2>1, <2>2 DEF StreamTypes
  <2>4. PICK d \in Nat : /\ FlowOf(q, t, stream[r], d, Levels(r))
                         /\ d <= gen[r]
                         /\ r \in Undelivered => d + 1 = gen[r]
                         /\ r \in active \ Undelivered => d = gen[r]
    BY <2>2 DEF Flow
  <2>5. /\ Tail(q) \in Seq(Seq(Nat)) /\ t \o Head(q) \in Seq(Nat)
        /\ FlowOf(Tail(q), t \o Head(q), stream[r], d, Levels(r))
        /\ NoNone(q) => NoNone(Tail(q))
    BY ONLY <2>3, <2>4, FlowGet
  <2>6. StreamTypes'
    <3>1. chan' = [chan EXCEPT ![r] = Tail(q)] /\ got' = [got EXCEPT ![r] = t \o Head(q)]
      BY <2>1, <2>2
    <3> QED BY <1>1, <2>5, <3>1 DEF StreamTypes
  <2>7. chan'[r] = Tail(q) /\ got'[r] = t \o Head(q)
        /\ \A p \in Requests \ {r} : chan'[p] = chan[p] /\ got'[p] = got[p]
    BY <2>1, <2>2 DEF StreamTypes
  <2>8. \A p \in Requests : Flow(p)'
    <3>1. Flow(r)'
      <4>1. FlowOf(chan'[r], got'[r], stream'[r], d, Levels(r)')
        BY <1>1, <2>5, <2>7
      <4> QED BY <1>1, <2>4, <4>1 DEF Flow, FlowOf, Pieced, Cuts
    <3>2. ASSUME NEW p \in Requests \ {r} PROVE Flow(p)'
      <4>1. gen[p] \in Nat /\ gen'[p] = gen[p]
        BY <1>1, GenNat
      <4> QED BY <1>1, <2>7, <4>1, FlowKept
    <3> QED BY <3>1, <3>2
  <2>9. Head(q) = <<>> => ~NoNone(q)
    BY <2>3, TailFacts DEF NoNone
  <2>10. Ended'
    <3>1. /\ r \in Reading' => r \in queues' \/ (r \in Reading /\ (r \in queues => r \in queues'))
          /\ r \in Over' => r \in Over \/ ~NoNone(chan[r])
      BY <2>1, <2>2, <2>9 DEF Reading, Over
    <3>2. \A p \in Requests : ~NoNone(chan'[p]) => ~NoNone(chan[p])
      BY <2>2, <2>5, <2>7
    <3> QED BY <1>1, <1>3, <3>1, <3>2, EndedKept
  <2> QED BY <2>6, <2>8, <2>10
<1>5. CASE ~Get(r)
  <2>1. UNCHANGED <<chan, got>>
    BY <1>5 DEF ClientStep, Register, Adder, Enqueue, AddRaises, Wake, Open, Reader, EndStream,
                Abandon, Leave, streams
  <2>2. StreamTypes'
    BY <1>1, <2>1 DEF StreamTypes
  <2>3. ASSUME NEW p \in Requests PROVE Flow(p)'
    <3>1. gen[p] \in Nat /\ gen'[p] = gen[p]
      BY <1>1, GenNat
    <3> QED BY <1>1, <2>1, <3>1, FlowKept
  <2>4. /\ r \in Reading' => r \in queues' \/ (r \in Reading /\ (r \in queues => r \in queues'))
        /\ running /\ r \in Over' => r \in Over
    <3>1. CASE Register(r)
      BY <1>0, <3>1 DEF Register, Reading, Over
    <3>2. CASE Enqueue(r) \/ AddRaises(r) \/ Wake(r)
      BY <1>0, <3>2 DEF Enqueue, AddRaises, Wake, Reading, Over
    <3>3. CASE Open(r)
      <4>1. client[r] = "added" /\ queues' = queues
            /\ client'[r] = IF r \in queues THEN "open" ELSE "done"
        BY <1>0, <3>3 DEF Open
      <4>2. running => r \in queues
        BY <4>1 DEF Ended, Reading
      <4> QED BY <4>1, <4>2 DEF Reading, Over
    <3>4. CASE EndStream(r) \/ Abandon(r)
      BY <1>0, <3>4 DEF EndStream, Abandon, Leave, Reading, Over
    <3> QED BY <1>5, <3>1, <3>2, <3>3, <3>4 DEF ClientStep, Adder, Reader
  <2>5. Ended'
    BY <1>1, <1>3, <2>1, <2>4, EndedKept
  <2> QED BY <2>2, <2>3, <2>5
<1> QED BY <1>4, <1>5

\* Appending None to some streams, which is all that happens to them.
LEMMA NonesStream ==
  ASSUME TypeInv, InPlace, StreamInv, NEW S \in SUBSET Requests,
         \A r \in Requests : chan'[r] = IF r \in S THEN Append(chan[r], <<>>) ELSE chan[r],
         DOMAIN chan' = Requests, chan' = [r \in Requests |-> chan'[r]],
         UNCHANGED <<stream, got, gen, active, stepped, batch>>, Prefilled' = Prefilled,
         running' => running,
         running' => \A r \in S : gen[r] = 0
  PROVE  StreamTypes' /\ \A r \in Requests : Flow(r)'
<1> USE DEF StreamInv
<1>1. Undelivered' = Undelivered
  BY DEF Undelivered
<1>2. ASSUME NEW r \in Requests PROVE chan'[r] \in Seq(Seq(Nat)) /\ Flow(r)'
  <2>1. gen[r] \in Nat /\ gen'[r] = gen[r] /\ stream'[r] = stream[r] /\ got'[r] = got[r]
    BY GenNat
  <2>2. chan[r] \in Seq(Seq(Nat)) /\ got[r] \in Seq(Nat)
    BY DEF StreamTypes
  <2>3. CASE r \notin S
    <3>1. chan'[r] = chan[r]
      BY <2>3
    <3>2. Flow(r)'
      BY <1>1, <2>1, <3>1, FlowKept
    <3> QED BY <2>2, <3>1, <3>2
  <2>4. CASE r \in S
    <3>1. PICK d \in Nat : /\ FlowOf(chan[r], got[r], stream[r], d, Levels(r))
                           /\ d <= gen[r]
                           /\ r \in Undelivered => d + 1 = gen[r]
                           /\ r \in active \ Undelivered => d = gen[r]
      BY DEF Flow
    <3>2. Levels(r) \subseteq Levels(r)' /\ 0..d \subseteq Levels(r)'
      BY <2>1, <2>4, <3>1 DEF Levels
    <3>3. FlowOf(chan[r], got[r], stream[r], d, Levels(r)')
      BY <2>2, <3>1, <3>2, LevelsMono
    <3>4. Append(chan[r], <<>>) \in Seq(Seq(Nat))
          /\ FlowOf(Append(chan[r], <<>>), got[r], stream[r], d, Levels(r)')
      BY <2>2, <3>2, <3>3, FlowNone
    <3>5. chan'[r] = Append(chan[r], <<>>)
      BY <2>4
    <3>6. FlowOf(chan'[r], got'[r], stream'[r], d, Levels(r)')
      BY <2>1, <3>4, <3>5
    <3>7. Flow(r)'
      BY <1>1, <2>1, <3>1, <3>6 DEF Flow, FlowOf, Pieced, Cuts
    <3> QED BY <3>4, <3>5, <3>7
  <2> QED BY <2>3, <2>4
<1>3. StreamTypes'
  <2>1. chan' \in [Requests -> Seq(Seq(Nat))]
    BY <1>2
  <2> QED BY <2>1 DEF StreamTypes
<1> QED BY <1>2, <1>3

\* Steps that touch no stream.
LEMMA QuietStream ==
  ASSUME TypeInv, StreamInv, UNCHANGED <<chan, stream, got, client, queues, gen>>,
         running' => running, OnTheWay' \subseteq OnTheWay,
         Undelivered' \subseteq Undelivered, active' \ Undelivered' \subseteq active \ Undelivered
  PROVE  StreamInv'
<1> USE DEF StreamInv
<1>1. StreamTypes'
  BY DEF StreamTypes
<1>2. Ended'
  <2>1. Reading' = Reading /\ Over' = Over
    BY DEF Reading, Over
  <2>2. \A r \in Requests : NoNone(chan'[r]) <=> NoNone(chan[r])
    OBVIOUS
  <2> QED BY <2>1, <2>2, EndedKept
<1>3. ASSUME NEW r \in Requests PROVE Flow(r)'
  <2>1. gen[r] \in Nat /\ gen'[r] = gen[r] /\ gen[r] <= gen'[r]
    BY GenNat
  <2> QED BY <2>1, FlowKept
<1> QED BY <1>1, <1>2, <1>3

\* Tokenizer threads.
LEMMA TokenizerStream ==
  ASSUME TypeInv, WakeInv, InPlace, StreamInv, NEW t \in Tokenizers, Tokenizer(t)
  PROVE  StreamInv'
<1>1. /\ UNCHANGED <<stream, got, client, queues, gen, running, active, stepped, batch, pc, taken>>
      /\ OnTheWay' \subseteq OnTheWay
  <2>1. UNCHANGED <<stream, got, client, queues, gen, running, active, stepped, batch, pc, taken>>
    BY DEF Tokenizer, TakeTask, Tokenized, TokenizeFails, TokenizerWakes, worker, sched, streams
  <2> QED BY <2>1, TokenizerInPlace
<1>2. Undelivered' = Undelivered /\ Prefilled' = Prefilled
  BY <1>1 DEF Undelivered, Prefilled
<1>3. CASE TokenizeFails(t)
  <2>1. tok \in [Tokenizers -> TokAt] /\ tok[t].at = "encode"
    BY <1>3 DEF TypeInv, TypeOK, TokenizeFails
  <2>2. PICK r \in Requests : tok[t].on = {r}
    BY <2>1 DEF InPlace, Queued
  <2>3. chan' = [chan EXCEPT ![r] = @ \o <<(<<>>)>>] /\ tok' = [tok EXCEPT ![t] = [at |-> "idle", on |-> {}]]
        /\ tasks' = tasks /\ pending' = pending
    BY <1>3, <2>2 DEF TokenizeFails, Put, None
  <2>4. chan \in [Requests -> Seq(Seq(Nat))] /\ chan[r] \in Seq(Seq(Nat))
    BY DEF StreamInv, StreamTypes
  <2>5. chan' = [chan EXCEPT ![r] = Append(chan[r], <<>>)]
    <3>1. PICK e : e = <<>>
      OBVIOUS
    <3>2. e \in Seq(Nat)
      BY <3>1
    <3>3. chan[r] \o <<e>> = Append(chan[r], e)
      BY <2>4, <3>2, ConcatOne
    <3> QED BY <2>3, <3>1, <3>3
  <2>6. /\ \A q \in Requests : chan'[q] = IF q \in {r} THEN Append(chan[q], <<>>) ELSE chan[q]
        /\ DOMAIN chan' = Requests /\ chan' = [q \in Requests |-> chan'[q]]
    BY <2>4, <2>5
  <2>7. r \in Encoding /\ r \in Waiting /\ gen[r] = 0
    BY <2>1, <2>2 DEF Encoding, Waiting, InPlace, Counted
  <2>8. StreamTypes' /\ \A q \in Requests : Flow(q)'
    <3>1. PICK S : S = {r}
      OBVIOUS
    <3>2. S \in SUBSET Requests /\ \A q \in S : gen[q] = 0
      BY <2>7, <3>1
    <3>3. \A q \in Requests : chan'[q] = IF q \in S THEN Append(chan[q], <<>>) ELSE chan[q]
      BY <2>6, <3>1
    <3> QED BY <1>1, <1>2, <2>6, <3>2, <3>3, NonesStream
  <2>9. r \notin OnTheWay'
    <3>1. r \notin Range(tasks) /\ r \notin Range(pending) /\ r \notin Range(taken) /\ r \notin Range(batch)
      BY <2>7 DEF InPlace, Queued, Waiting
    <3>2. r \notin Encoding'
      <4>1. \A u \in Tokenizers \ {t} : tok'[u] = tok[u]
        BY <2>1, <2>3
      <4>2. tok'[t].at = "idle"
        BY <2>1, <2>3
      <4>3. \A u \in Tokenizers \ {t} : tok[u].at = "encode" => r \notin tok[u].on
        BY <2>1, <2>2 DEF InPlace, Queued
      <4> QED BY <4>1, <4>2, <4>3 DEF Encoding
    <3>3. r \notin New /\ New' = New
      BY <1>1, <2>7 DEF InPlace, Counted, New
    <3>4. r \notin active /\ r \notin stepped
      BY <2>7, ConstantsAssumption DEF InPlace, Served, TypeInv, TokensLeft
    <3>5. r \notin Waiting'
      BY <1>1, <2>3, <3>1, <3>2 DEF Waiting
    <3> QED BY <1>1, <3>1, <3>3, <3>4, <3>5 DEF OnTheWay
  <2>10. Ended'
    <3>1. \A q \in Requests : ~NoNone(chan'[q]) => ~NoNone(chan[q]) \/ q \notin OnTheWay'
      BY <2>6, <2>9
    <3>2. Reading' = Reading /\ Over' = Over
      BY <1>1 DEF Reading, Over
    <3> QED BY <1>1, <3>1, <3>2, EndedKept DEF StreamInv
  <2> QED BY <2>8, <2>10 DEF StreamInv
<1>4. CASE ~TokenizeFails(t)
  <2>1. chan' = chan
    BY <1>4 DEF Tokenizer, TakeTask, Tokenized, TokenizerWakes, streams
  <2> QED BY <1>1, <1>2, <2>1, QuietStream
<1> QED BY <1>3, <1>4

\* Closing gives every stream None.
LEMMA CloseStream ==
  ASSUME TypeInv, WakeInv, InPlace, StreamInv, Close \/ Joined \/ JoinTimesOut
  PROVE  StreamInv'
<1>1. /\ UNCHANGED <<stream, got, client, gen, stepped, batch, pc>>
      /\ active' \subseteq active /\ OnTheWay' \subseteq OnTheWay
  <2>1. UNCHANGED <<stream, got, client, gen, stepped, batch, pc>> /\ active' \subseteq active
    BY DEF Close, Joined, JoinTimesOut, worker, sched, streams
  <2> QED BY <2>1, CloseInPlace
<1>2. Undelivered' = Undelivered /\ Prefilled' = Prefilled
  BY <1>1 DEF Undelivered, Prefilled
<1>3. CASE Close
  <2>1. ~running' /\ active' = active
    BY <1>3 DEF Close, sched
  <2>2. chan' = [r \in Requests |-> IF r \in queues THEN Append(chan[r], <<>>) ELSE chan[r]]
    BY <1>3 DEF Close, None
  <2>3. queues \in SUBSET Requests
    BY DEF TypeInv, TypeOK
  <2>4. /\ \A r \in Requests : chan'[r] = IF r \in queues THEN Append(chan[r], <<>>) ELSE chan[r]
        /\ DOMAIN chan' = Requests /\ chan' = [r \in Requests |-> chan'[r]]
    BY <2>2
  <2>5. StreamTypes' /\ \A r \in Requests : Flow(r)'
    BY <1>1, <1>2, <2>1, <2>3, <2>4, NonesStream
  <2> QED BY <2>1, <2>5 DEF StreamInv, Ended
<1>4. CASE Joined \/ JoinTimesOut
  <2>1. UNCHANGED <<chan, queues, running>>
    BY <1>4 DEF Joined, JoinTimesOut, streams
  <2> QED BY <1>1, <1>2, <2>1, QuietStream
<1> QED BY <1>3, <1>4

\* A delivery to the streams in S.
LEMMA DeliverStream ==
  ASSUME TypeInv, InPlace, StreamInv, NEW S \in SUBSET stepped, NEW holding \in SUBSET S,
         Deliver(S, ending, holding),
         UNCHANGED <<got, gen, client, queues, running, batch, tasks, pending, taken, tok>>,
         OnTheWay' \subseteq OnTheWay, stepped' = {}, Prefilled' = Prefilled,
         active' \subseteq active \ (stepped \ S)
  PROVE  StreamInv'
<1> USE DEF StreamInv
<1> DEFINE fed(r) == OnToken(stream[r], gen[r], r \in holding)
<1>1. /\ stream' = [r \in Requests |-> IF r \notin S THEN stream[r]
                                       ELSE IF r \in ending THEN Fresh
                                       ELSE Given(fed(r))]
      /\ chan' = [r \in Requests |->
                    IF r \notin S THEN chan[r]
                    ELSE IF r \in ending
                    THEN chan[r] \o Pieces(fed(r)) \o LastPieces(Given(fed(r)))
                    ELSE chan[r] \o Pieces(fed(r))]
  BY DEF Deliver
<1>2. /\ \A r \in Requests : r \notin S => stream'[r] = stream[r] /\ chan'[r] = chan[r]
      /\ \A r \in Requests \cap S : r \in ending =>
            /\ stream'[r] = Fresh
            /\ chan'[r] = chan[r] \o Pieces(fed(r)) \o LastPieces(Given(fed(r)))
      /\ \A r \in Requests \cap S : r \notin ending =>
            stream'[r] = Given(fed(r)) /\ chan'[r] = chan[r] \o Pieces(fed(r))
  BY <1>1
<1>3. Undelivered' \subseteq Undelivered \ stepped /\ Undelivered \ stepped \subseteq Undelivered'
  BY DEF Undelivered, InPlace, Served
<1>4. ending \cap active' = {} /\ stepped \cap Undelivered' = {}
  BY <1>3 DEF InPlace, Served
<1>5. ASSUME NEW r \in Requests
      PROVE  /\ chan'[r] \in Seq(Seq(Nat)) /\ stream'[r] \in Buffers /\ Flow(r)'
             /\ ~NoNone(chan'[r]) => ~NoNone(chan[r]) \/ r \in ending \cap S
  <2>1. gen[r] \in Nat /\ gen'[r] = gen[r] /\ gen[r] <= gen'[r] /\ got'[r] = got[r]
    BY GenNat
  <2>2. chan[r] \in Seq(Seq(Nat)) /\ got[r] \in Seq(Nat) /\ stream[r] \in Buffers
    BY DEF StreamTypes
  <2>3. CASE r \notin S
    <3>1. chan'[r] = chan[r] /\ stream'[r] = stream[r]
      BY <1>2, <2>3
    <3>2. r \in active' \ Undelivered' => r \in active \ Undelivered
      BY <1>3, <2>3
    <3>3. Flow(r)'
      BY <1>3, <2>1, <3>1, <3>2, FlowKept
    <3> QED BY <2>2, <3>1, <3>3
  <2>4. CASE r \in S
    <3>1. PICK d \in Nat : /\ FlowOf(chan[r], got[r], stream[r], d, Levels(r))
                           /\ d <= gen[r]
                           /\ r \in Undelivered => d + 1 = gen[r]
      BY DEF Flow
    <3>2. gen[r] = d + 1
      BY <2>4, <3>1 DEF Undelivered
    <3>3. PICK f, h : f = fed(r) /\ h = (r \in holding)
      OBVIOUS
    <3>4. f = OnToken(stream[r], gen[r], h) /\ h \in BOOLEAN
      BY <3>3
    <3>5. gen[r] \in Levels(r) /\ Levels(r)' = Levels(r)
      BY <2>1 DEF Levels
    <3>6. PICK g, p, l : g = Given(f) /\ p = chan[r] \o Pieces(f) /\ l = chan[r] \o Pieces(f) \o LastPieces(Given(f))
      OBVIOUS
    <3>7. /\ g \in Buffers /\ p \in Seq(Seq(Nat))
          /\ NoNone(chan[r]) => NoNone(p)
          /\ FlowOf(p, got[r], g, gen[r], Levels(r))
          /\ l \in Seq(Seq(Nat)) /\ FlowOf(l, got[r], Fresh, gen[r], Levels(r))
      BY ONLY <2>2, <3>1, <3>2, <3>4, <3>5, <3>6, FlowGive
    <3>8. r \notin Undelivered' /\ gen[r] <= gen'[r]
      BY <1>4, <2>1, <2>4
    <3>9. CASE r \in ending
      <4>1. stream'[r] = Fresh /\ chan'[r] = l
        BY <1>2, <2>4, <3>3, <3>6, <3>9
      <4>2. Fresh \in Buffers
        BY DEF Fresh, Buffers
      <4>3. FlowOf(chan'[r], got'[r], stream'[r], gen'[r], Levels(r)')
        BY <2>1, <3>5, <3>7, <4>1
      <4>4. Flow(r)'
        BY <2>1, <3>8, <4>3 DEF Flow, FlowOf, Pieced, Cuts
      <4> QED BY <2>4, <3>7, <3>9, <4>1, <4>2, <4>4
    <3>10. CASE r \notin ending
      <4>1. stream'[r] = g /\ chan'[r] = p
        BY <1>2, <2>4, <3>3, <3>6, <3>10
      <4>3. FlowOf(chan'[r], got'[r], stream'[r], gen'[r], Levels(r)')
        BY <2>1, <3>5, <3>7, <4>1
      <4>4. Flow(r)'
        BY <2>1, <3>8, <4>3 DEF Flow, FlowOf, Pieced, Cuts
      <4> QED BY <3>7, <4>1, <4>4
    <3> QED BY <3>9, <3>10
  <2> QED BY <2>3, <2>4
<1>6. StreamTypes'
  <2>1. DOMAIN chan' = Requests /\ DOMAIN stream' = Requests
    BY <1>1
  <2>2. chan' = [r \in Requests |-> chan'[r]] /\ stream' = [r \in Requests |-> stream'[r]]
    BY <1>1
  <2>3. chan' \in [Requests -> Seq(Seq(Nat))] /\ stream' \in [Requests -> Buffers]
    BY ONLY <1>5, <2>2
  <2> QED BY <2>3 DEF StreamTypes
<1>7. ASSUME NEW r \in Requests, r \in ending \cap S PROVE r \notin OnTheWay'
  <2>1. r \in stepped /\ gen[r] # 0 /\ r \notin Range(batch)
    BY <1>7, GenNat DEF InPlace, Served
  <2>2. r \notin New /\ r \notin Waiting
    BY <2>1 DEF InPlace, Counted
  <2>3. Encoding' = Encoding /\ New' = New
    BY DEF Encoding, New
  <2>4. Waiting' = Waiting
    BY <2>3 DEF Waiting
  <2> QED BY <1>4, <1>7, <2>1, <2>2, <2>3, <2>4 DEF OnTheWay
<1>8. Ended'
  <2>1. Reading' = Reading /\ Over' = Over
    BY DEF Reading, Over
  <2>2. \A r \in Requests : ~NoNone(chan'[r]) => ~NoNone(chan[r]) \/ r \notin OnTheWay'
    BY <1>5, <1>7
  <2> QED BY <2>1, <2>2, EndedKept
<1> QED BY <1>5, <1>6, <1>8

\* The worker.
LEMMA PrefillStream ==
  ASSUME TypeInv, WakeInv, InPlace, StreamInv, Prefill
  PROVE  StreamInv'
<1> USE DEF StreamInv
<1>1. UNCHANGED <<chan, stream, got, client, queues, batch, stepped, running>>
      /\ pc = "filter" /\ pc' = "first" /\ OnTheWay' \subseteq OnTheWay
  <2>1. UNCHANGED <<chan, stream, got, client, queues, batch, stepped, running>>
        /\ pc = "filter" /\ pc' = "first"
    BY DEF Prefill, Shared, threads, streams
  <2> QED BY <2>1, PrefillInPlace
<1>2. /\ gen' = [r \in Requests |-> IF r \in Range(batch) THEN 1 ELSE gen[r]]
      /\ active' \subseteq active \cup Range(batch)
  BY DEF Prefill
<1>3. stepped = {} /\ Undelivered = {} /\ Undelivered' = Range(batch)
  BY <1>1 DEF InPlace, Served, Undelivered, Prefilled
<1>4. \A r \in Range(batch) : gen[r] = 0 /\ r \in OnTheWay
  BY <1>1 DEF InPlace, Counted, Prefilled, OnTheWay
<1>5. ASSUME NEW r \in Requests PROVE Flow(r)'
  <2>1. gen[r] \in Nat /\ gen'[r] \in Nat /\ gen[r] <= gen'[r]
        /\ (r \in Range(batch) => gen[r] = 0 /\ gen'[r] = gen[r] + 1)
        /\ (r \notin Range(batch) => gen'[r] = gen[r])
    <3>1. gen[r] \in Nat
      BY GenNat
    <3>2. r \in Range(batch) => gen[r] = 0 /\ gen'[r] = 1
      BY <1>2, <1>4
    <3>3. r \notin Range(batch) => gen'[r] = gen[r]
      BY <1>2
    <3> QED BY <3>1, <3>2, <3>3
  <2>2. running' => running /\ (gen'[r] = gen[r] \/ NoNone(chan[r]))
    BY <1>1, <1>4, <2>1 DEF Ended
  <2>3. r \in Undelivered' => gen'[r] = gen[r] + 1 /\ gen[r] = 0
    BY <1>3, <2>1
  <2>4. r \in active' \ Undelivered' => r \in active \ Undelivered /\ gen'[r] = gen[r]
    BY <1>2, <1>3, <2>1
  <2> QED BY <1>1, <2>1, <2>2, <2>3, <2>4, FlowKept
<1>6. StreamTypes'
  BY <1>1 DEF StreamTypes
<1>7. Ended'
  <2>1. Reading' = Reading /\ Over' = Over
    BY <1>1 DEF Reading, Over
  <2> QED BY <1>1, <2>1, EndedKept
<1> QED BY <1>5, <1>6, <1>7

\* A decode step: what it computes is not delivered yet.
LEMMA StepStream ==
  ASSUME TypeInv, WakeInv, InPlace, StreamInv, Step
  PROVE  StreamInv'
<1> USE DEF StreamInv
<1>1. UNCHANGED <<chan, stream, got, client, queues, batch, running>>
      /\ pc = "step" /\ pc' = "lookup" /\ OnTheWay' \subseteq OnTheWay
  <2>1. UNCHANGED <<chan, stream, got, client, queues, batch, running>>
        /\ pc = "step" /\ pc' = "lookup"
    BY DEF Step, Shared, threads, streams
  <2> QED BY <2>1, StepInPlace
<1>2. PICK chosen \in SUBSET active :
          /\ stepped' = chosen
          /\ active' = active \ ending'
          /\ gen' = [r \in Requests |-> IF r \in chosen THEN gen[r] + 1 ELSE gen[r]]
  BY DEF Step
<1>3. stepped = {} /\ Undelivered = {} /\ Undelivered' = chosen
  BY <1>1, <1>2 DEF InPlace, Served, Undelivered, Prefilled
<1>4. ASSUME NEW r \in Requests PROVE Flow(r)'
  <2>1. gen[r] \in Nat /\ gen'[r] \in Nat /\ gen[r] <= gen'[r]
        /\ (r \in chosen => gen'[r] = gen[r] + 1)
        /\ (r \notin chosen => gen'[r] = gen[r])
    <3>1. gen[r] \in Nat
      BY GenNat
    <3>2. r \in chosen => gen'[r] = gen[r] + 1
      BY <1>2
    <3>3. r \notin chosen => gen'[r] = gen[r]
      BY <1>2
    <3> QED BY <3>1, <3>2, <3>3
  <2>2. running' => running /\ (gen'[r] = gen[r] \/ NoNone(chan[r]))
    <3>1. r \in chosen => r \in OnTheWay
      BY DEF OnTheWay
    <3> QED BY <1>1, <2>1, <3>1 DEF Ended
  <2>3. r \in Undelivered' => gen'[r] = gen[r] + 1 /\ r \in active \ Undelivered
    BY <1>3, <2>1
  <2>4. r \in active' \ Undelivered' => r \in active \ Undelivered /\ gen'[r] = gen[r]
    BY <1>2, <1>3, <2>1
  <2> QED BY <1>1, <2>1, <2>2, <2>3, <2>4, FlowKept
<1>5. StreamTypes'
  BY <1>1 DEF StreamTypes
<1>6. Ended'
  <2>1. Reading' = Reading /\ Over' = Over
    BY <1>1 DEF Reading, Over
  <2> QED BY <1>1, <2>1, EndedKept
<1> QED BY <1>4, <1>5, <1>6

\* The tokens of a step are delivered, the ends of the finished ones too.
LEMMA GivenStream ==
  ASSUME TypeInv, WakeInv, InPlace, StreamInv, GiveFirst \/ DeliverStep
  PROVE  StreamInv'
<1>1. UNCHANGED <<got, gen, client, queues, running, batch, tasks, pending, taken, tok>>
      /\ stepped' = {} /\ OnTheWay' \subseteq OnTheWay
  <2>1. UNCHANGED <<got, gen, client, queues, running, batch, tasks, pending, taken, tok>>
        /\ stepped' = {}
    BY DEF GiveFirst, DeliverStep, Shared, threads
  <2> QED BY <2>1, WorkerInPlace DEF Worker
<1>2. CASE GiveFirst
  <2>1. PICK holding \in SUBSET stepped : Deliver(stepped, ending, holding)
    BY <1>2 DEF GiveFirst
  <2>2. Prefilled' = Prefilled /\ active' \subseteq active \ (stepped \ stepped)
    BY <1>2 DEF GiveFirst, Prefilled, Discarded
  <2>3. stepped \in SUBSET stepped
    OBVIOUS
  <2> QED BY ONLY TypeInv, InPlace, StreamInv, <1>1, <2>1, <2>2, <2>3, DeliverStream
<1>3. CASE DeliverStep
  <2>1. PICK holding \in SUBSET seen : Deliver(seen, ending, holding)
    BY <1>3 DEF DeliverStep
  <2>2. seen \in SUBSET stepped
    BY <1>3 DEF DeliverStep, InPlace, Served
  <2>3. Prefilled' = Prefilled /\ active' \subseteq active \ (stepped \ seen)
    BY <1>3 DEF DeliverStep, Prefilled, Discarded, Unwanted
  <2> QED BY ONLY TypeInv, InPlace, StreamInv, <1>1, <2>1, <2>2, <2>3, DeliverStream
<1> QED BY <1>2, <1>3

\* The other steps of the worker.
LEMMA WorkerStream ==
  ASSUME TypeInv, WakeInv, InPlace, StreamInv, Worker
  PROVE  StreamInv'
<1>0. OnTheWay' \subseteq OnTheWay
  BY WorkerInPlace
<1>1. CASE \/ Top \/ Admit \/ FilterOne \/ PrefillRaises \/ FirstDone \/ StepRaises \/ Lookup
           \/ Park \/ WakeUp \/ ClearWakeup \/ Handler
  <2>1. UNCHANGED <<chan, stream, got, client, queues, gen, active, stepped>>
        /\ (running' => running)
    BY <1>1 DEF Top, Admit, FilterOne, PrefillRaises, FirstDone, StepRaises, Lookup, Park, WakeUp,
                ClearWakeup, Handler, Shared, threads, streams, sched
  <2>2. \/ ~Prefilled'
        \/ Prefilled' = Prefilled /\ batch' = batch
    BY <1>1 DEF Top, Admit, FilterOne, PrefillRaises, FirstDone, StepRaises, Lookup, Park, WakeUp,
                ClearWakeup, Handler, Prefilled
  <2>3. Undelivered' \subseteq Undelivered
    BY <2>1, <2>2 DEF Undelivered
  <2>4. active \cap Undelivered \subseteq Undelivered'
    <3>1. \/ Prefilled' = Prefilled /\ batch' = batch
          \/ ~Prefilled
          \/ batch = <<>>
      BY <1>1 DEF Top, Admit, FilterOne, PrefillRaises, FirstDone, StepRaises, Lookup, Park, WakeUp,
                  ClearWakeup, Handler, Prefilled
    <3>2. Range(<<>>) = {}
      BY DEF Range
    <3> QED BY <2>1, <3>1, <3>2 DEF Undelivered
  <2> QED BY <1>0, <2>1, <2>3, <2>4, QuietStream
<1>2. CASE FirstLookup
  <2>1. UNCHANGED <<chan, stream, got, client, queues, gen, running>>
        /\ pc = "first" /\ batch # <<>> /\ batch' = Tail(batch) /\ stepped = {}
    BY <1>2 DEF FirstLookup, Shared, threads, streams, sched, Discarded, InPlace, Served
  <2>2. PICK h : h = Head(batch)
    OBVIOUS
  <2>3. h \notin Range(batch') /\ Range(batch) = {h} \cup Range(batch')
    BY <2>1, <2>2, QueueTypes, TailQueue DEF InPlace, Queued
  <2>4. \/ pc' = "give" /\ stepped' = {h} /\ active' = active
        \/ pc' = "first" /\ stepped' = {} /\ active' = active \ {h}
    BY <1>2, <2>1, <2>2 DEF FirstLookup, Discarded, sched
  <2>5. Undelivered = Range(batch) /\ Undelivered' = stepped' \cup Range(batch')
    BY <2>1, <2>4 DEF Undelivered, Prefilled
  <2>6. Undelivered' \subseteq Undelivered /\ active' \ Undelivered' \subseteq active \ Undelivered
    BY <2>3, <2>4, <2>5
  <2> QED BY <1>0, <2>1, <2>6, QuietStream
<1>3. CASE Notify
  <2>1. UNCHANGED <<stream, got, client, gen, active, stepped, batch, running>>
        /\ ~running' /\ pc = "notify" /\ pc' = "dead"
    BY <1>3 DEF Notify, Shared, threads, sched, InPlace, Served
  <2>2. chan' = [r \in Requests |-> IF r \in seen THEN Append(chan[r], <<>>) ELSE chan[r]]
    BY <1>3 DEF Notify, Notified, None
  <2>3. seen \in SUBSET Requests
    BY DEF TypeInv, TypeOK
  <2>4. /\ \A r \in Requests : chan'[r] = IF r \in seen THEN Append(chan[r], <<>>) ELSE chan[r]
        /\ DOMAIN chan' = Requests /\ chan' = [r \in Requests |-> chan'[r]]
    BY <2>2
  <2>5. Prefilled' = Prefilled
    BY <2>1 DEF Prefilled
  <2>6. StreamTypes' /\ \A r \in Requests : Flow(r)'
    BY <2>1, <2>3, <2>4, <2>5, NonesStream
  <2> QED BY <2>1, <2>6 DEF StreamInv, Ended
<1> QED BY <1>1, <1>2, <1>3, PrefillStream, StepStream, GivenStream DEF Worker

\* No step breaks a stream.
LEMMA StreamStep == TypeInv /\ WakeInv /\ InPlace /\ StreamInv /\ [Next]_vars => StreamInv'
<1>1. ASSUME TypeInv, InPlace, StreamInv, UNCHANGED vars PROVE StreamInv'
  <2>1. UNCHANGED <<chan, stream, got, client, queues, gen, running, tasks, pending, taken, batch, tok,
                    pc, stepped, active>>
    BY <1>1 DEF vars, threads, worker, sched, streams
  <2>2. Undelivered' = Undelivered /\ OnTheWay' = OnTheWay
    <3>1. New' = New /\ Encoding' = Encoding
      BY <2>1 DEF New, Encoding
    <3> QED BY <2>1, <3>1 DEF Undelivered, Prefilled, OnTheWay, Waiting
  <2> QED BY <1>1, <2>1, <2>2, QuietStream
<1> QED BY <1>1, ClientStream, TokenizerStream, CloseStream, WorkerStream, NextSplit DEF Others

\* At the start the streams are empty.
LEMMA StreamInit == Init => StreamInv
<1> SUFFICES ASSUME Init PROVE StreamInv
  OBVIOUS
<1>1. <<>> \in Seq(Nat) /\ <<>> \in Seq(Seq(Nat)) /\ Len(<<>>) = 0
  OBVIOUS
<1>2. Fresh \in Buffers /\ Fresh.buf = <<>> /\ Fresh.held = <<>>
  BY <1>1 DEF Fresh, Buffers
<1>3. StreamTypes
  BY <1>1, <1>2 DEF Init, StreamTypes
<1>4. Ended
  <2>1. Over = {} /\ \A r \in Requests : r \notin Reading /\ NoNone(chan[r])
    BY DEF Init, Over, Reading, NoNone
  <2> QED BY <2>1 DEF Ended
<1>5. ASSUME NEW r \in Requests PROVE Flow(r)
  <2>1. chan[r] = <<>> /\ got[r] = <<>> /\ stream[r] = Fresh /\ gen[r] = 0 /\ active = {} /\ stepped = {}
        /\ pc = "top"
    BY DEF Init
  <2>2. Run(0, 0) = <<>> /\ 0 <= 0
    <3>1. 0 \in Nat /\ 0 <= 0
      OBVIOUS
    <3> QED BY <3>1, RunFacts
  <2>3. Pieced(<<>>, 0, 0, Levels(r))
    BY PiecedEmpty
  <2>4. FlowOf(<<>>, <<>>, Fresh, 0, Levels(r))
    BY <1>1, <1>2, <2>2, <2>3 DEF FlowOf
  <2>5. r \notin Undelivered
    BY <2>1 DEF Undelivered, Prefilled
  <2> QED BY <2>1, <2>2, <2>4, <2>5 DEF Flow
<1> QED BY <1>3, <1>4, <1>5 DEF StreamInv

-----------------------------------------------------------------------------
(***************************************************************************)
(* A step of a client is a step of StreamContract, as is generating; the   *)
(* deliveries in between stutter.                                          *)
(***************************************************************************)
Final == {r \in Requests : gen[r] > 0 /\ r \notin active}

AbstractStep ==
  \/ /\ \A r \in Requests : \/ gen'[r] = gen[r]
                            \/ (~running \/ r \notin Final \cup Over) /\ gen'[r] = gen[r] + 1
     /\ DOMAIN gen' = Requests
     /\ Final \subseteq Final'
     /\ UNCHANGED <<got, Over, running>>
  \/ \E r \in Requests \ Over :
       /\ \E n \in (Len(got[r]) + 1)..gen[r] : got' = [got EXCEPT ![r] = [i \in 1..n |-> i]]
       /\ UNCHANGED <<gen, Final, Over, running>>
  \/ \E r \in Requests \ Over :
       /\ ~running \/ gen[r] = 0 \/ (r \in Final /\ Len(got[r]) = gen[r])
       /\ Over' = Over \cup {r}
       /\ UNCHANGED <<gen, Final, got, running>>
  \/ ~running' /\ UNCHANGED <<gen, Final, got, Over>>

\* AbstractStep is a step of StreamContract under the refinement mapping.
LEMMA AbstractIs == AbstractStep => Contract!SNext
<1>1. Final = {r \in Requests : gen[r] > 0 /\ r \notin active}
      /\ Final' = {r \in Requests : gen'[r] > 0 /\ r \notin active'}
  BY DEF Final
<1>2. Over = {r \in Requests : client[r] \in {"read", "done"}}
      /\ Over' = {r \in Requests : client'[r] \in {"read", "done"}}
  BY DEF Over
<1>3. Final \subseteq Requests /\ Final' \subseteq Requests /\ Over \subseteq Requests
  BY <1>1, <1>2
<1>4. CASE /\ \A r \in Requests : \/ gen'[r] = gen[r]
                                  \/ (~running \/ r \notin Final \cup Over) /\ gen'[r] = gen[r] + 1
           /\ DOMAIN gen' = Requests
           /\ Final \subseteq Final'
           /\ UNCHANGED <<got, Over, running>>
  <2>1. Contract!Generate
    BY <1>1, <1>2, <1>3, <1>4 DEF Contract!Generate, Contract!MayGrow
  <2> QED BY <2>1 DEF Contract!SNext
<1>5. ASSUME NEW r \in Requests \ Over,
             \E n \in (Len(got[r]) + 1)..gen[r] : got' = [got EXCEPT ![r] = [i \in 1..n |-> i]],
             UNCHANGED <<gen, Final, Over, running>>
      PROVE  Contract!SNext
  <2>1. Contract!Receive(r)
    BY <1>1, <1>2, <1>5 DEF Contract!Receive
  <2> QED BY <2>1 DEF Contract!SNext
<1>6. ASSUME NEW r \in Requests \ Over,
             ~running \/ gen[r] = 0 \/ (r \in Final /\ Len(got[r]) = gen[r]),
             Over' = Over \cup {r},
             UNCHANGED <<gen, Final, got, running>>
      PROVE  Contract!SNext
  <2>1. Contract!End(r)
    BY <1>1, <1>2, <1>6 DEF Contract!End
  <2> QED BY <2>1 DEF Contract!SNext
<1>7. CASE ~running' /\ UNCHANGED <<gen, Final, got, Over>>
  <2>1. Contract!Stop
    BY <1>1, <1>2, <1>7 DEF Contract!Stop
  <2> QED BY <2>1 DEF Contract!SNext
<1> QED BY <1>4, <1>5, <1>6, <1>7 DEF AbstractStep

\* What StreamContract does not see.
LEMMA StutterIs == UNCHANGED <<gen, active, got, Over, running>> => UNCHANGED Contract!svars
BY DEF Contract!svars, Over

\* Steps that generate.
LEMMA GrowIs ==
  ASSUME TypeInv, StreamInv, UNCHANGED <<got, client, running>>, DOMAIN gen' = Requests,
         \A r \in Requests : \/ gen'[r] = gen[r]
                             \/ r \in OnTheWay /\ r \notin Final /\ gen'[r] = gen[r] + 1,
         \A r \in Requests : gen[r] > 0 /\ r \notin active => r \notin active'
  PROVE  AbstractStep
<1>1. UNCHANGED Over
  BY DEF Over
<1>2. Final \subseteq Final'
  <2>1. ASSUME NEW r \in Final PROVE r \in Final'
    <3>1. r \in Requests /\ gen[r] > 0 /\ r \notin active /\ gen'[r] = gen[r]
      BY DEF Final
    <3> QED BY <3>1 DEF Final
  <2> QED BY <2>1
<1>3. ASSUME NEW r \in Requests, gen'[r] # gen[r]
      PROVE  (~running \/ r \notin Final \cup Over) /\ gen'[r] = gen[r] + 1
  <2>1. running => r \notin Over
    BY <1>3 DEF StreamInv, Ended
  <2> QED BY <1>3, <2>1
<1> QED BY <1>1, <1>2, <1>3 DEF AbstractStep

\* A client reads the next tokens, or the end.
LEMMA GetIs == ASSUME TypeInv, StreamInv, NEW r \in Requests, Get(r) PROVE AbstractStep
<1>0. client \in [Requests -> ClientAt]
  BY DEF TypeInv, TypeOK
<1>1. /\ client[r] = "open" /\ chan[r] # <<>>
      /\ got' = [got EXCEPT ![r] = got[r] \o Head(chan[r])]
      /\ client' = IF Head(chan[r]) = <<>> THEN [client EXCEPT ![r] = "read"] ELSE client
      /\ UNCHANGED <<gen, active, running>>
  BY DEF Get, None, sched
<1>2. Final' = Final /\ r \notin Over
  BY <1>1 DEF Final, Over
<1>3. PICK q, t, g : q = chan[r] /\ t = got[r] /\ g = gen[r]
  OBVIOUS
<1>4. q \in Seq(Seq(Nat)) /\ t \in Seq(Nat) /\ q # <<>> /\ g \in Nat /\ got \in [Requests -> Seq(Nat)]
  BY <1>1, <1>3, GenNat DEF StreamInv, StreamTypes
<1>5. PICK d \in Nat : FlowOf(q, t, stream[r], d, Levels(r)) /\ d <= g
  BY <1>3 DEF StreamInv, Flow
<1>6. PICK m \in Nat : /\ m <= d /\ t \o Head(q) = Run(0, m) /\ t = Run(0, Len(t)) /\ Len(t) <= m
                       /\ Head(q) = <<>> <=> Len(t) = m
                       /\ Len(t) = m => m \in Levels(r)
  BY ONLY <1>4, <1>5, FlowGet
<1>7. CASE Head(q) = <<>>
  <2>1. Len(t) = m /\ t \o Head(q) = t
    BY <1>6, <1>7
  <2>2. got' = got
    BY <1>1, <1>3, <1>4, <2>1
  <2>3. Over' = Over \cup {r}
    BY <1>0, <1>1, <1>3, <1>7 DEF Over
  <2>4. running => m = g
    BY <1>3, <1>6, <2>1 DEF Levels
  <2>5. ~NoNone(q)
    BY <1>4, <1>7, TailFacts DEF NoNone
  <2>6. running => r \notin active
    BY <1>3, <2>5 DEF StreamInv, Ended, OnTheWay
  <2>7. ~running \/ gen[r] = 0 \/ (r \in Final /\ Len(got[r]) = gen[r])
    BY <1>3, <1>4, <2>1, <2>4, <2>6 DEF Final
  <2> QED BY <1>1, <1>2, <2>2, <2>3, <2>7 DEF AbstractStep
<1>8. CASE Head(q) # <<>>
  <2>1. client' = client
    BY <1>1, <1>3, <1>8
  <2>2. UNCHANGED Over
    BY <2>1 DEF Over
  <2>3. m \in (Len(t) + 1)..g
    BY <1>4, <1>5, <1>6, <1>8
  <2>4. Run(0, m) = [i \in 1..m |-> i]
    <3>1. m - 0 = m /\ \A i \in 1..m : 0 + i = i
      OBVIOUS
    <3> QED BY <3>1 DEF Run
  <2>5. got' = [got EXCEPT ![r] = [i \in 1..m |-> i]]
    BY ONLY <1>1, <1>3, <1>6, <2>4
  <2>6. \E n \in (Len(got[r]) + 1)..gen[r] : got' = [got EXCEPT ![r] = [i \in 1..n |-> i]]
    BY ONLY <1>3, <2>3, <2>5
  <2> QED BY <1>1, <1>2, <2>2, <2>6 DEF AbstractStep
<1> QED BY <1>7, <1>8

\* The steps of a client.
LEMMA ClientIs ==
  ASSUME TypeInv, StreamInv, NEW r \in Requests, ClientStep(r)
  PROVE  AbstractStep \/ UNCHANGED <<gen, active, got, Over, running>>
<1>0. client \in [Requests -> ClientAt]
  BY DEF TypeInv, TypeOK
<1>1. CASE ~Get(r) /\ ~Open(r)
  <2>1. UNCHANGED <<gen, active, got, running>>
    BY <1>1 DEF ClientStep, Register, Adder, Enqueue, AddRaises, Wake, Reader, EndStream, Abandon,
                Leave, sched
  <2>2. /\ \A q \in Requests \ {r} : client'[q] = client[q]
        /\ client[r] \in {"read", "done"} <=> client'[r] \in {"read", "done"}
    <3>1. CASE Register(r) \/ Enqueue(r) \/ AddRaises(r) \/ Wake(r)
      BY <1>0, <3>1 DEF Register, Enqueue, AddRaises, Wake
    <3>2. CASE EndStream(r) \/ Abandon(r)
      BY <1>0, <3>2 DEF EndStream, Abandon, Leave
    <3> QED BY <1>1, <3>1, <3>2 DEF ClientStep, Adder, Reader
  <2>3. Over' = Over
    BY <2>2 DEF Over
  <2> QED BY <2>1, <2>3
<1>2. CASE Open(r)
  <2>1. UNCHANGED <<gen, active, got, running>> /\ client[r] = "added"
        /\ client' = [client EXCEPT ![r] = IF r \in queues THEN "open" ELSE "done"]
    BY <1>2 DEF Open, sched
  <2>2. Final' = Final /\ r \notin Over
    BY <2>1 DEF Final, Over
  <2>3. CASE r \in queues
    <3>1. Over' = Over
      BY <1>0, <2>1, <2>3 DEF Over
    <3> QED BY <2>1, <3>1
  <2>4. CASE r \notin queues
    <3>1. Over' = Over \cup {r}
      BY <1>0, <2>1, <2>4 DEF Over
    <3>2. ~running
      BY <2>1, <2>4 DEF StreamInv, Ended, Reading
    <3> QED BY <2>1, <2>2, <3>1, <3>2 DEF AbstractStep
  <2> QED BY <2>3, <2>4
<1> QED BY <1>1, <1>2, GetIs

\* The steps of the worker generate, stop the server, or are not seen.
LEMMA WorkerIs ==
  ASSUME TypeInv, WakeInv, InPlace, StreamInv, Worker
  PROVE  AbstractStep \/ UNCHANGED <<gen, active, got, Over, running>>
<1>0. gen \in [Requests -> 0..MaxNew]
  BY DEF TypeInv, TypeOK
<1>1. CASE \/ Top \/ Admit \/ FilterOne \/ PrefillRaises \/ FirstDone \/ StepRaises \/ Lookup
           \/ Park \/ WakeUp \/ ClearWakeup \/ Notify
  <2>1. UNCHANGED <<gen, active, got, client, running>>
    BY <1>1 DEF Top, Admit, FilterOne, PrefillRaises, FirstDone, StepRaises, Lookup, Park, WakeUp,
                ClearWakeup, Notify, Shared, threads, sched
  <2> QED BY <2>1 DEF Over
<1>2. CASE Handler
  <2>1. UNCHANGED <<gen, active, got, client>> /\ ~running'
    BY <1>2 DEF Handler, threads, sched
  <2> QED BY <2>1 DEF AbstractStep, Final, Over
<1>3. CASE FirstLookup \/ GiveFirst \/ DeliverStep
  <2>1. UNCHANGED <<gen, got, client, running>> /\ active' \subseteq active
    BY <1>3 DEF FirstLookup, GiveFirst, DeliverStep, Discarded, Shared, threads, sched
  <2> QED BY <1>0, <2>1, GrowIs
<1>4. CASE Prefill
  <2>1. /\ UNCHANGED <<got, client, running>> /\ pc = "filter"
        /\ gen' = [r \in Requests |-> IF r \in Range(batch) THEN 1 ELSE gen[r]]
        /\ active' \subseteq active \cup Range(batch)
    BY <1>4 DEF Prefill, Shared, threads
  <2>2. \A r \in Range(batch) : gen[r] = 0 /\ r \in OnTheWay /\ r \notin Final
    BY <2>1 DEF InPlace, Counted, Prefilled, OnTheWay, Final
  <2>3. \A r \in Requests : \/ gen'[r] = gen[r]
                            \/ r \in OnTheWay /\ r \notin Final /\ gen'[r] = gen[r] + 1
    BY <2>1, <2>2
  <2>4. \A r \in Requests : gen[r] > 0 /\ r \notin active => r \notin active'
    BY <2>1, <2>2
  <2> QED BY <2>1, <2>3, <2>4, GrowIs
<1>5. CASE Step
  <2>1. UNCHANGED <<got, client, running>>
    BY <1>5 DEF Step, Shared, threads
  <2>2. PICK chosen \in SUBSET active :
          /\ active' = active \ ending'
          /\ gen' = [r \in Requests |-> IF r \in chosen THEN gen[r] + 1 ELSE gen[r]]
    BY <1>5 DEF Step
  <2>3. \A r \in chosen : r \in OnTheWay /\ r \notin Final
    BY DEF OnTheWay, Final
  <2>4. \A r \in Requests : \/ gen'[r] = gen[r]
                            \/ r \in OnTheWay /\ r \notin Final /\ gen'[r] = gen[r] + 1
    BY <2>2, <2>3
  <2> QED BY <2>1, <2>2, <2>4, GrowIs
<1> QED BY <1>1, <1>2, <1>3, <1>4, <1>5 DEF Worker

\* Every step is a step of StreamContract or a stutter.
LEMMA NextIs ==
  ASSUME TypeInv, WakeInv, InPlace, StreamInv, [Next]_vars
  PROVE  [Contract!SNext]_(Contract!svars)
<1>0. gen \in [Requests -> 0..MaxNew]
  BY DEF TypeInv, TypeOK
<1>1. CASE UNCHANGED vars
  BY <1>1, StutterIs DEF vars, threads, sched, Over
<1>2. ASSUME NEW t \in Tokenizers, Tokenizer(t) PROVE UNCHANGED <<gen, active, got, Over, running>>
  <2>1. UNCHANGED <<gen, active, got, client, running>>
    BY <1>2 DEF Tokenizer, TakeTask, Tokenized, TokenizeFails, TokenizerWakes, sched
  <2> QED BY <2>1 DEF Over
<1>3. Close => AbstractStep
  <2> SUFFICES ASSUME Close PROVE AbstractStep
    OBVIOUS
  <2>1. UNCHANGED <<gen, active, got, client>> /\ ~running'
    BY DEF Close, sched
  <2> QED BY <2>1 DEF AbstractStep, Final, Over
<1>4. Joined \/ JoinTimesOut => AbstractStep
  <2> SUFFICES ASSUME Joined \/ JoinTimesOut PROVE AbstractStep
    OBVIOUS
  <2>1. UNCHANGED <<gen, got, client, running>> /\ active' \subseteq active
    BY DEF Joined, JoinTimesOut, sched
  <2> QED BY <1>0, <2>1, GrowIs
<1> QED BY <1>1, <1>2, <1>3, <1>4, ClientIs, WorkerIs, AbstractIs, StutterIs, NextSplit DEF Others

\* The initial states are initial states of StreamContract.
LEMMA InitIs == Init => Contract!SInit
BY DEF Init, Contract!SInit

\* Every behaviour of the front end is one of StreamContract: each client sees
\* its tokens in order, without gaps or repetitions, and one end, after the last
\* of them unless the server stopped or could not tokenize its prompt.
THEOREM StreamsInOrder == Spec => ImplementsStreams
<1>1. Init => TypeInv /\ WakeInv /\ InPlace /\ StreamInv
  BY TypeInit, WakeInit, InPlaceInit, StreamInit
<1>2. TypeInv /\ WakeInv /\ InPlace /\ StreamInv /\ [Next]_vars
        => (TypeInv /\ WakeInv /\ InPlace /\ StreamInv)'
  BY TypeStep, WakeStep, InPlaceStep, StreamStep DEF TypeInv
<1>3. TypeInv /\ WakeInv /\ InPlace /\ StreamInv /\ [Next]_vars
        => [Contract!SNext]_(Contract!svars)
  BY NextIs
<1> QED BY <1>1, <1>2, <1>3, InitIs, PTL DEF Spec, ImplementsStreams, Contract!SSpec
==============================================================================
