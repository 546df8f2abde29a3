-------------------------- MODULE MPManagerProofs ---------------------------
(***************************************************************************)
(* Theorems about MPSchedulerManager and the engine process behind it.     *)
(***************************************************************************)
EXTENDS MPSchedulerManager, EngineProofs

\* One token given to a stream.
LEMMA TokenFacts ==
  ASSUME NEW s \in Buffers, NEW i \in Nat, NEW holds \in BOOLEAN, NEW t, t = OnToken(s, i, holds)
  PROVE  /\ t \in Buffers /\ Given(t) \in Buffers
         /\ Pieces(t) \in Seq(Seq(Nat)) /\ \A k \in DOMAIN Pieces(t) : Pieces(t)[k] # <<>>
<1>1. /\ s.held \in Seq(Nat) /\ s.buf \in Seq(Nat) /\ s.since \in Nat /\ s.sent \in BOOLEAN
      /\ s = [held |-> s.held, buf |-> s.buf, since |-> s.since, sent |-> s.sent]
  BY DEF Buffers
<1>2. /\ Append(s.held, i) \in Seq(Nat) /\ s.since + 1 \in Nat /\ <<>> \in Seq(Nat)
      /\ s.buf \o s.held \o <<i>> \in Seq(Nat)
  <2>1. PICK x, y : x = s.held /\ y = s.buf
    OBVIOUS
  <2>2. x \in Seq(Nat) /\ y \in Seq(Nat)
    BY <1>1, <2>1
  <2>3. Append(x, i) \in Seq(Nat) /\ y \o x \o <<i>> \in Seq(Nat)
    BY ONLY <2>2, i \in Nat
  <2> QED BY <1>1, <2>1, <2>3
<1>3. t \in Buffers
  BY <1>1, <1>2 DEF OnToken, Buffers
<1>4. Given(t) \in Buffers
  BY <1>2, <1>3 DEF Given, Fresh, Buffers
<1>5. Pieces(t) \in Seq(Seq(Nat)) /\ \A k \in DOMAIN Pieces(t) : Pieces(t)[k] # <<>>
  <2>1. CASE Due(t)
    <3>1. PICK x : x = t.buf
      OBVIOUS
    <3>2. x \in Seq(Nat) /\ x # <<>> /\ Pieces(t) = <<x>>
      BY <1>3, <2>1, <3>1 DEF Buffers, Due, Pieces
    <3> QED BY <3>2
  <2>2. CASE ~Due(t)
    BY <2>2 DEF Pieces
  <2> QED BY <2>1, <2>2
<1> QED BY <1>3, <1>4, <1>5

\* A stream after the first k of the tokens it is given.
FedSteps(h, s, toks, holds) ==
  /\ h[0] = [state |-> s, put |-> <<>>]
  /\ \A k \in 1..Len(toks) :
       LET t == OnToken(h[k - 1].state, toks[k], holds)
       IN  h[k] = [state |-> Given(t), put |-> h[k - 1].put \o Pieces(t)]
FedAt == [state : Buffers, put : Seq(Seq(Nat))]

LEMMA FedFacts ==
  ASSUME NEW s \in Buffers, NEW toks \in Seq(Nat), NEW holds \in BOOLEAN
  PROVE  \E h \in [0..Len(toks) -> FedAt] :
           FedSteps(h, s, toks, holds) /\ Fed(s, toks, holds) = h[Len(toks)]
<1>1. PICK n \in Nat : n = Len(toks)
  OBVIOUS
<1> DEFINE V == FedAt
           base == [state |-> s, put |-> <<>>]
           One(v, k) == LET t == OnToken(v.state, toks[k], holds)
                        IN  [state |-> Given(t), put |-> v.put \o Pieces(t)]
           G == [p \in V \X (1..n) |-> One(p[1], p[2])]
           body(f) == [k \in 0..Len(toks) |->
             IF k = 0 THEN [state |-> s, put |-> <<>>]
             ELSE LET t == OnToken(f[k - 1].state, toks[k], holds)
                  IN  [state |-> Given(t), put |-> f[k - 1].put \o Pieces(t)]]
           g == CHOOSE f : f = body(f)
<1>2. base \in V
  <2>1. <<>> \in Seq(Seq(Nat))
    OBVIOUS
  <2> QED BY <2>1 DEF FedAt
<1>3. ASSUME NEW v \in V, NEW k \in 1..n PROVE One(v, k) \in V
  <2>1. toks[k] \in Nat
    BY <1>1
  <2>2. PICK t : t = OnToken(v.state, toks[k], holds)
    OBVIOUS
  <2>3. v.state \in Buffers /\ v.put \in Seq(Seq(Nat))
    BY DEF FedAt
  <2>4. Given(t) \in Buffers /\ Pieces(t) \in Seq(Seq(Nat))
    BY <2>1, <2>2, <2>3, TokenFacts
  <2>5. PICK x, y : x = v.put /\ y = Pieces(t)
    OBVIOUS
  <2>6. x \in Seq(Seq(Nat)) /\ y \in Seq(Seq(Nat))
    BY <2>3, <2>4, <2>5
  <2>7. x \o y \in Seq(Seq(Nat))
    BY ONLY <2>6
  <2> QED BY <2>2, <2>4, <2>5, <2>7 DEF FedAt
<1>4. IsStep(G, n, V)
  <2>1. \A p \in V \X (1..n) : One(p[1], p[2]) \in V
    <3> HIDE DEF V, One
    <3> QED BY <1>3
  <2> HIDE DEF V, One
  <2> QED BY <2>1 DEF IsStep
<1>5. PICK h : IsRecursion(h, n, V, base, G)
  <2> HIDE DEF V, base, G
  <2> QED BY <1>2, <1>4, RecursionExists
<1>6. /\ h \in [0..n -> V] /\ h[0] = base
      /\ \A k \in 1..n : k - 1 \in 0..n /\ h[k] = One(h[k - 1], k)
  <2>1. h \in [0..n -> V] /\ h[0] = base /\ \A k \in 1..n : h[k] = G[<<h[k - 1], k>>]
    BY <1>5 DEF IsRecursion
  <2>2. \A k \in 1..n : k - 1 \in 0..n
    OBVIOUS
  <2>3. \A k \in 1..n : <<h[k - 1], k>> \in V \X (1..n)
    BY <2>1, <2>2
  <2> HIDE DEF V, One
  <2> QED BY <2>1, <2>2, <2>3
<1>7. h = body(h)
  <2>1. \A k \in 0..n : k # 0 => k \in 1..n
    OBVIOUS
  <2>2. \A k \in 0..n : h[k] = IF k = 0 THEN base ELSE One(h[k - 1], k)
    BY <1>6, <2>1
  <2>3. h = [k \in 0..n |-> h[k]]
    BY <1>6
  <2> QED BY <1>1, <2>2, <2>3
<1>8. g = body(g)
  BY <1>7
<1>9. g = h
  <2>1. g \in [0..n -> {g[k] : k \in 0..n}] /\ g[0] = base
        /\ \A k \in 1..n : k \in 0..n /\ g[k] = One(g[k - 1], k)
    <3>1. \A k \in 1..n : k \in 0..n /\ k # 0
      OBVIOUS
    <3>2. g = [k \in 0..n |-> IF k = 0 THEN base ELSE One(g[k - 1], k)]
      BY <1>1, <1>8
    <3> HIDE DEF g, base, One
    <3>3. 0 \in 0..n
      OBVIOUS
    <3> QED BY <3>1, <3>2, <3>3
  <2> DEFINE T == {k \in 0..n : g[k] = h[k]}
  <2>2. 0 \in T
    <3> HIDE DEF g, base
    <3> QED BY <1>6, <2>1
  <2>3. \A k \in 1..n : k - 1 \in T => k \in T
    <3> HIDE DEF g, One
    <3> QED BY <1>6, <2>1
  <2>4. \A k \in 0..n : k \in T
    <3> HIDE DEF T
    <3> QED BY <2>2, <2>3, InductionTo
  <2>5. g = [k \in 0..n |-> g[k]] /\ h = [k \in 0..n |-> h[k]]
    <3> HIDE DEF g
    <3> QED BY <1>6, <2>1
  <2>6. \A k \in 0..n : g[k] = h[k]
    BY <2>4
  <2> HIDE DEF g
  <2> QED BY ONLY <2>5, <2>6
<1>10. Fed(s, toks, holds) = g[Len(toks)]
  BY DEF Fed
<1>11. FedSteps(h, s, toks, holds)
  BY <1>1, <1>6 DEF FedSteps
<1> HIDE DEF g, V
<1> QED BY <1>1, <1>6, <1>9, <1>10, <1>11 DEF V

\* What a stream is fed leaves a stream, and pieces for its queue.
LEMMA FedToFacts ==
  ASSUME NEW s \in Buffers, NEW toks \in Seq(Nat), NEW holds \in BOOLEAN, NEW ends \in BOOLEAN
  PROVE  /\ FedTo(s, toks, holds, ends).state \in Buffers
         /\ FedTo(s, toks, holds, ends).put \in Seq(Seq(Nat))
<1>1. PICK f : f = Fed(s, toks, holds)
  OBVIOUS
<1>2. f.state \in Buffers /\ f.put \in Seq(Seq(Nat))
  <2>1. PICK h \in [0..Len(toks) -> FedAt] : f = h[Len(toks)]
    BY <1>1, FedFacts
  <2>2. Len(toks) \in 0..Len(toks)
    OBVIOUS
  <2>3. f \in FedAt
    BY <2>1, <2>2
  <2> QED BY <2>3 DEF FedAt
<1>3. LastPieces(f.state) \in Seq(Seq(Nat))
  <2>1. PICK x, y : x = f.state.buf /\ y = f.state.held
    OBVIOUS
  <2>2. x \in Seq(Nat) /\ y \in Seq(Nat)
    BY <1>2, <2>1 DEF Buffers
  <2>3. PICK z : z = x \o y /\ z \in Seq(Nat)
    <3>1. x \o y \in Seq(Nat)
      BY ONLY <2>2
    <3> QED BY <3>1
  <2>4. <<>> \in Seq(Nat)
    OBVIOUS
  <2>5. <<(<<>>)>> \in Seq(Seq(Nat)) /\ <<z, <<>> >> \in Seq(Seq(Nat))
    BY <2>3, <2>4
  <2> QED BY <2>1, <2>3, <2>5 DEF LastPieces, None
<1>4. f.put \o LastPieces(f.state) \in Seq(Seq(Nat))
  <2>1. PICK x, y : x = f.put /\ y = LastPieces(f.state)
    OBVIOUS
  <2>2. x \in Seq(Seq(Nat)) /\ y \in Seq(Seq(Nat))
    BY <1>2, <1>3, <2>1
  <2>3. x \o y \in Seq(Seq(Nat))
    BY ONLY <2>2
  <2> QED BY <2>1, <2>3
<1>5. Fresh \in Buffers
  BY DEF Fresh, Buffers
<1> QED BY <1>1, <1>2, <1>4, <1>5 DEF FedTo
-----------------------------------------------------------------------------

(***************************************************************************)
(* What the threads of the manager keep.                                   *)
(***************************************************************************)
ClientAt == {"idle", "adding", "added", "raised", "open", "await", "read", "canceling",
             "leaving", "done", "gone"}
AdmitAt  == {"idle", "encode", "send", "forget", "dead"}

Hybrid   == /\ chan \in [Requests -> Seq(Seq(Nat))]
            /\ evt \in [Requests -> BOOLEAN] /\ sets \in [Requests -> Nat]
Streams  == queues \subseteq Requests /\ stream \in [Requests -> Buffers]
Clients  == client \in [Requests -> ClientAt] /\ got \in [Requests -> Seq(Nat)]
Admission == /\ admitQ \in Seq(Requests \cup {Poison})
             /\ adm \in [Admitters -> [at : AdmitAt, on : SUBSET Requests]]
Delivery == /\ lpc \in {"recv", "deliver", "notify", "dead"}
            /\ event \subseteq EvtSet \ {Error} /\ seen \subseteq Requests
Closing  == /\ running \in BOOLEAN
            /\ closer \in [at : {"idle", "lock", "tell", "join", "closed"}, found : SUBSET Requests]

ManagerOK == Hybrid /\ Streams /\ Clients /\ Admission /\ Delivery /\ Closing
IInv == EngineOK /\ ManagerOK

LEMMA Typed == IInv => TypeOK /\ PlacesExact
BY EngineTyped DEF IInv, ManagerOK, Hybrid, Streams, Clients, Admission, Delivery, Closing, TypeOK

LEMMA InitInv == Init => IInv
<1> SUFFICES ASSUME Init PROVE IInv
  OBVIOUS
<1>1. EngineOK
  BY EngineInitOK, ManagerAssumption DEF Init
<1>2. Fresh \in Buffers
  BY DEF Fresh, Buffers
<1>3. ManagerOK
  BY <1>2 DEF Init, ManagerOK, Hybrid, Streams, Clients, Admission, Delivery, Closing, ClientAt,
              AdmitAt, Free
<1> QED BY <1>1, <1>3 DEF IInv

\* The process is left alone, or commands are sent to it.
LEMMA EngineKept == ASSUME EngineOK, UNCHANGED evars PROVE EngineOK'
<1>1. cmds' \in Seq(CarriedCmds) /\ events' \in Seq(CarriedEvts) /\ cut' \in BOOLEAN
  BY DEF EngineOK, Channels, Modes, evars, channels
<1> QED BY <1>1, OutsideOK DEF evars, channels

LEMMA EngineSent ==
  ASSUME EngineOK, UNCHANGED EngineRest, cut' \in BOOLEAN, NEW list \in Seq(CmdSet), Sent(list)
  PROVE  EngineOK'
<1>1. cmds' \in Seq(CarriedCmds)
  BY SentFacts DEF EngineOK, EngineRest, CarriedCmds
<1>2. events' \in Seq(CarriedEvts)
  BY DEF EngineOK, Channels, EngineRest
<1> QED BY <1>1, <1>2, OutsideOK DEF EngineRest

LEMMA OneCmd ==
  ASSUME NEW r \in Requests
  PROVE  <<Add(r)>> \in Seq(CmdSet) /\ <<Cancel(r)>> \in Seq(CmdSet) /\ <<Shutdown>> \in Seq(CmdSet)
<1>1. Add(r) \in CmdSet /\ Cancel(r) \in CmdSet /\ Shutdown \in CmdSet
  BY DEF CmdSet
<1>2. PICK a, c, s : a = Add(r) /\ c = Cancel(r) /\ s = Shutdown
  OBVIOUS
<1> QED BY <1>1, <1>2

\* Pieces are put on streams.
LEMMA PutFacts ==
  ASSUME Hybrid, NEW put \in [Requests -> Seq(Seq(Nat))], Put(put)
  PROVE  Hybrid'
<1>1. \A r \in Requests : chan[r] \o put[r] \in Seq(Seq(Nat)) /\ Len(put[r]) \in Nat
  <2> TAKE r \in Requests
  <2>1. PICK x, y : x = chan[r] /\ y = put[r]
    OBVIOUS
  <2>2. x \in Seq(Seq(Nat)) /\ y \in Seq(Seq(Nat))
    BY <2>1 DEF Hybrid
  <2>3. x \o y \in Seq(Seq(Nat)) /\ Len(y) \in Nat
    BY ONLY <2>2
  <2> QED BY <2>1, <2>3
<1>2. \A r \in Requests : sets[r] + Sets(r, Len(put[r])) \in Nat
  BY <1>1 DEF Hybrid, Sets
<1> QED BY <1>1, <1>2 DEF Hybrid, Put

LEMMA NoneFacts == ASSUME Hybrid, NEW S, PutNone(S) PROVE Hybrid'
<1>1. PICK put : put = [r \in Requests |-> IF r \in S THEN <<None>> ELSE <<>>]
  OBVIOUS
<1>2. put \in [Requests -> Seq(Seq(Nat))]
  <2>1. <<>> \in Seq(Nat) /\ <<>> \in Seq(Seq(Nat))
    OBVIOUS
  <2>2. <<(<<>>)>> \in Seq(Seq(Nat))
    BY <2>1
  <2> QED BY <1>1, <2>1, <2>2 DEF None
<1> QED BY <1>1, <1>2, PutFacts DEF PutNone

\* The steps that send nothing and put nothing.
LEMMA ClientOK ==
  ASSUME IInv, NEW r \in Requests,
         Register(r) \/ Submit(r) \/ AddRaises(r) \/ Open(r) \/ Read(r) \/ Await(r) \/ Awake(r)
           \/ EndStream(r) \/ Abandon(r) \/ LoopSets(r)
  PROVE  IInv'
<1>1. EngineOK'
  BY EngineKept DEF IInv, Register, Submit, AddRaises, Open, Read, Await, Awake, EndStream,
       Abandon, Leave, LoopSets
<1>2. Hybrid'
  <2>1. CASE Read(r)
    <3>1. PICK q : q = chan[r]
      OBVIOUS
    <3>2. q \in Seq(Seq(Nat)) /\ q # <<>>
      BY <2>1, <3>1 DEF Read, IInv, ManagerOK, Hybrid
    <3>3. Tail(q) \in Seq(Seq(Nat))
      BY ONLY <3>2
    <3> QED BY <2>1, <3>1, <3>3 DEF Read, IInv, ManagerOK, Hybrid
  <2>2. CASE LoopSets(r)
    BY <2>2 DEF LoopSets, IInv, ManagerOK, Hybrid
  <2>3. CASE Await(r)
    BY <2>3 DEF Await, IInv, ManagerOK, Hybrid
  <2>4. CASE UNCHANGED hybrid
    BY <2>4 DEF IInv, ManagerOK, Hybrid, hybrid
  <2> QED BY <2>1, <2>2, <2>3, <2>4
        DEF Register, Submit, AddRaises, Open, Awake, EndStream, Abandon, Leave
<1>3. Clients'
  <2>1. CASE Read(r)
    <3>1. PICK q, t : q = chan[r] /\ t = got[r]
      OBVIOUS
    <3>2. q \in Seq(Seq(Nat)) /\ q # <<>> /\ t \in Seq(Nat)
      BY <2>1, <3>1 DEF Read, IInv, ManagerOK, Hybrid, Clients
    <3>3. PICK e \in Seq(Nat) : e = Head(q)
      BY <3>2
    <3>4. t \o e \in Seq(Nat)
      BY ONLY <3>2, e \in Seq(Nat)
    <3> QED BY <2>1, <3>1, <3>3, <3>4 DEF Read, IInv, ManagerOK, Clients, ClientAt
  <2>2. CASE LoopSets(r)
    BY <2>2 DEF LoopSets, IInv, ManagerOK, Clients, clients
  <2> QED BY <2>1, <2>2 DEF Register, Submit, AddRaises, Open, Await, Awake, EndStream, Abandon,
        Leave, IInv, ManagerOK, Clients, ClientAt
<1>4. Streams'
  BY DEF Register, Submit, AddRaises, Open, Read, Await, Awake, EndStream, Abandon, Leave, LoopSets,
         IInv, ManagerOK, Streams
<1>5. Admission'
  <2>1. CASE Submit(r)
    <3>1. PICK S : S = Requests \cup {Poison}
      OBVIOUS
    <3>2. admitQ \in Seq(S) /\ r \in S
      BY <3>1 DEF IInv, ManagerOK, Admission
    <3>3. Append(admitQ, r) \in Seq(S)
      BY ONLY <3>2
    <3> QED BY <2>1, <3>1, <3>3 DEF Submit, IInv, ManagerOK, Admission
  <2>2. CASE UNCHANGED <<admitQ, adm>>
    BY <2>2 DEF IInv, ManagerOK, Admission
  <2> QED BY <2>1, <2>2 DEF Register, AddRaises, Open, Read, Await, Awake, EndStream, Abandon, Leave,
                            LoopSets
<1>6. Delivery' /\ Closing'
  BY DEF Register, Submit, AddRaises, Open, Read, Await, Awake, EndStream, Abandon, Leave, LoopSets,
         loop, IInv, ManagerOK, Delivery, Closing
<1> QED BY <1>1, <1>2, <1>3, <1>4, <1>5, <1>6 DEF IInv, ManagerOK

LEMMA SendOK ==
  ASSUME IInv, NEW r \in Requests, Send(r) \/ CancelBackend(r)
  PROVE  IInv'
<1>1. EngineOK'
  <2>1. CASE Send(r) /\ ~CanSend
    <3>1. UNCHANGED evars
      BY <2>1 DEF Send, evars, EngineRest, channels
    <3> QED BY <3>1, EngineKept DEF IInv
  <2>2. CASE Send(r) /\ CanSend
    <3>1. Sent(<<Add(r)>>) /\ UNCHANGED EngineRest /\ cut' = cut
      BY <2>2 DEF Send
    <3> QED BY <3>1, OneCmd, EngineSent DEF IInv, EngineOK, Channels, Modes
  <2>3. CASE CancelBackend(r)
    <3>1. Sent(<<Cancel(r)>>) /\ UNCHANGED EngineRest /\ cut' = cut
      BY <2>3 DEF CancelBackend
    <3> QED BY <3>1, OneCmd, EngineSent DEF IInv, EngineOK, Channels, Modes
  <2> QED BY <2>1, <2>2, <2>3
<1>2. Hybrid'
  <2>1. CASE UNCHANGED hybrid
    BY <2>1 DEF IInv, ManagerOK, Hybrid, hybrid
  <2> QED BY <2>1, NoneFacts DEF Send, CancelBackend, IInv, ManagerOK
<1>3. Clients' /\ Streams'
  BY DEF Send, CancelBackend, IInv, ManagerOK, Clients, ClientAt, Streams
<1>4. Admission' /\ Delivery' /\ Closing'
  BY DEF Send, CancelBackend, IInv, ManagerOK, Admission, Delivery, Closing, loop
<1> QED BY <1>1, <1>2, <1>3, <1>4 DEF IInv, ManagerOK

LEMMA AdmitterOK ==
  ASSUME IInv, NEW t \in Admitters, Admitter(t)
  PROVE  IInv'
<1>0. /\ adm[t].at \in AdmitAt /\ adm[t].on \subseteq Requests
      /\ adm[t] \in [at : AdmitAt, on : SUBSET Requests]
  BY DEF IInv, ManagerOK, Admission
<1>1. EngineOK'
  <2>1. CASE UNCHANGED evars
    BY <2>1, EngineKept DEF IInv
  <2>2. CASE AdmitSends(t)
    <3>1. PICK r \in Requests : Sent(<<Add(r)>>)
      BY <1>0, <2>2 DEF AdmitSends
    <3>2. UNCHANGED EngineRest /\ cut' = cut
      BY <2>2 DEF AdmitSends
    <3> QED BY <3>1, <3>2, OneCmd, EngineSent DEF IInv, EngineOK, Channels, Modes
  <2>3. CASE AdmitRaises(t)
    <3>1. PICK r \in Requests : Sent(<<Cancel(r)>>)
      BY <1>0, <2>3 DEF AdmitRaises
    <3>2. UNCHANGED EngineRest /\ cut' = cut
      BY <2>3 DEF AdmitRaises
    <3> QED BY <3>1, <3>2, OneCmd, EngineSent DEF IInv, EngineOK, Channels, Modes
  <2> QED BY <2>1, <2>2, <2>3 DEF Admitter, TakeTask, LookAgain, AdmitForgets
<1>2. Hybrid'
  <2>1. CASE UNCHANGED hybrid
    BY <2>1 DEF IInv, ManagerOK, Hybrid, hybrid
  <2>2. CASE AdmitRaises(t)
    <3>1. PICK r : PutNone({r})
      BY <2>2 DEF AdmitRaises
    <3> QED BY <3>1, NoneFacts DEF IInv, ManagerOK
  <2> QED BY <2>1, <2>2 DEF Admitter, TakeTask, LookAgain, AdmitForgets, AdmitSends
<1>3. Clients' /\ Streams'
  BY DEF Admitter, TakeTask, LookAgain, AdmitForgets, AdmitSends, AdmitRaises, clients,
         IInv, ManagerOK, Clients, Streams
<1>4. Admission'
  <2>1. CASE TakeTask(t)
    <3>1. PICK S : S = Requests \cup {Poison}
      OBVIOUS
    <3>2. admitQ \in Seq(S) /\ admitQ # <<>>
      BY <2>1, <3>1 DEF IInv, ManagerOK, Admission, TakeTask
    <3>3. Tail(admitQ) \in Seq(S) /\ Head(admitQ) \in S
      BY ONLY <3>2
    <3>4. Head(admitQ) # Poison => {Head(admitQ)} \subseteq Requests
      BY <3>1, <3>3
    <3> QED BY <2>1, <3>1, <3>3, <3>4 DEF TakeTask, IInv, ManagerOK, Admission, Free, AdmitAt
  <2>2. CASE ~TakeTask(t)
    <3>1. admitQ' = admitQ
      BY <2>2 DEF Admitter, LookAgain, AdmitForgets, AdmitSends, AdmitRaises
    <3>2. PICK a : a \in [at : AdmitAt, on : SUBSET Requests] /\ adm' = [adm EXCEPT ![t] = a]
      BY <1>0, <2>2, <3>1 DEF Admitter, LookAgain, AdmitForgets, AdmitSends, AdmitRaises, Free, AdmitAt
    <3> QED BY <3>1, <3>2 DEF IInv, ManagerOK, Admission
  <2> QED BY <2>1, <2>2
<1>5. Delivery' /\ Closing'
  BY DEF Admitter, TakeTask, LookAgain, AdmitForgets, AdmitSends, AdmitRaises, loop,
         IInv, ManagerOK, Delivery, Closing
<1> QED BY <1>1, <1>2, <1>3, <1>4, <1>5 DEF IInv, ManagerOK

LEMMA CloserOK == ASSUME IInv, Closer PROVE IInv'
<1>1. EngineOK'
  <2>1. CASE UNCHANGED evars
    BY <2>1, EngineKept DEF IInv
  <2>2. CASE CloseTells
    <3>1. Sent(<<Shutdown>>) /\ UNCHANGED EngineRest /\ cut' \in BOOLEAN
      BY <2>2 DEF CloseTells
    <3>2. <<Shutdown>> \in Seq(CmdSet)
      <4>1. PICK s \in CmdSet : s = Shutdown
        BY DEF CmdSet
      <4> QED BY <4>1
    <3> QED BY <3>1, <3>2, EngineSent DEF IInv
  <2>3. CASE CloseJoins
    <3>1. cmds' \in Seq(CarriedCmds) /\ events' \in Seq(CarriedEvts) /\ cut' \in BOOLEAN
      BY <2>3 DEF CloseJoins, IInv, EngineOK, Channels, Modes, channels
    <3>2. EngineOK
      BY DEF IInv
    <3> QED BY <2>3, <3>1, <3>2, OutsideOK DEF CloseJoins, channels
  <2> QED BY <2>1, <2>2, <2>3 DEF Closer, Close, CloseLocked
<1>2. Hybrid'
  <2>1. CASE UNCHANGED hybrid
    BY <2>1 DEF IInv, ManagerOK, Hybrid, hybrid
  <2> QED BY <2>1, NoneFacts DEF Closer, Close, CloseLocked, CloseTells, CloseJoins, IInv, ManagerOK
<1>3. Clients' /\ Streams' /\ Delivery'
  BY DEF Closer, Close, CloseLocked, CloseTells, CloseJoins, clients, loop,
         IInv, ManagerOK, Clients, Streams, Delivery
<1>5. Closing'
  <2>1. running' \in BOOLEAN /\ queues \subseteq Requests
    BY DEF Closer, Close, CloseLocked, CloseTells, CloseJoins, IInv, ManagerOK, Closing, Streams
  <2>2. closer \in [at : {"idle", "lock", "tell", "join", "closed"}, found : SUBSET Requests]
    BY DEF IInv, ManagerOK, Closing
  <2>3. closer' \in [at : {"idle", "lock", "tell", "join", "closed"}, found : SUBSET Requests]
    BY <2>1, <2>2 DEF Closer, Close, CloseLocked, CloseTells, CloseJoins
  <2> QED BY <2>1, <2>3 DEF Closing
<1>4. Admission'
  <2>1. CASE Close
    <3>1. PICK S : S = Requests \cup {Poison}
      OBVIOUS
    <3>2. PICK n : n = Cardinality(Admitters)
      OBVIOUS
    <3>3. n \in Nat
      BY <3>2, ManagerAssumption, FS_CardinalityType
    <3>4. PICK p : p = [i \in 1..n |-> Poison]
      OBVIOUS
    <3>5. p \in [1..n -> S]
      BY <3>1, <3>4
    <3>6. admitQ \in Seq(S) /\ p \in Seq(S)
      BY <3>1, <3>3, <3>5 DEF IInv, ManagerOK, Admission
    <3>7. admitQ \o p \in Seq(S)
      BY ONLY <3>6
    <3> QED BY <2>1, <3>1, <3>2, <3>4, <3>7 DEF Close, IInv, ManagerOK, Admission
  <2>2. CASE ~Close
    BY <2>2 DEF Closer, CloseLocked, CloseTells, CloseJoins, IInv, ManagerOK, Admission
  <2> QED BY <2>1, <2>2
<1> QED BY <1>1, <1>2, <1>3, <1>4, <1>5 DEF IInv, ManagerOK

\* A token event is delivered.
LEMMA DeliverOK == ASSUME IInv, Deliver PROVE IInv'
<1>1. PICK e, holding :
        /\ e \in event
        /\ Put([r \in Requests |-> IF r \in seen
                  THEN FedTo(stream[r], TokensOf(e, r), r \in holding, r \in e.fin).put ELSE <<>>])
        /\ stream' = [r \in Requests |-> IF r \in seen
                  THEN FedTo(stream[r], TokensOf(e, r), r \in holding, r \in e.fin).state ELSE stream[r]]
        /\ Sent([i \in DOMAIN Unknown(e, seen) |-> Cancel(Unknown(e, seen)[i].rid)])
  BY DEF Deliver
<1>2. e \in EvtSet /\ e # Error
  BY <1>1 DEF IInv, ManagerOK, Delivery
<1>3. ASSUME NEW r \in Requests
      PROVE  LET f == FedTo(stream[r], TokensOf(e, r), r \in holding, r \in e.fin)
             IN  f.state \in Buffers /\ f.put \in Seq(Seq(Nat))
  <2>1. TokensOf(e, r) \in Seq(Nat) /\ stream[r] \in Buffers
    BY <1>2, TokensOfType DEF IInv, ManagerOK, Streams
  <2>2. PICK h, f : h = (r \in holding) /\ f = (r \in e.fin)
    OBVIOUS
  <2>3. h \in BOOLEAN /\ f \in BOOLEAN
    BY <2>2
  <2> QED BY <2>1, <2>2, <2>3, FedToFacts
<1>4. Hybrid' /\ Streams'
  <2>1. PICK put : put = [r \in Requests |-> IF r \in seen
            THEN FedTo(stream[r], TokensOf(e, r), r \in holding, r \in e.fin).put ELSE <<>>]
    OBVIOUS
  <2>2. put \in [Requests -> Seq(Seq(Nat))]
    <3>1. <<>> \in Seq(Seq(Nat))
      OBVIOUS
    <3> QED BY <1>3, <2>1, <3>1
  <2>3. Hybrid'
    BY <1>1, <2>1, <2>2, PutFacts DEF IInv, ManagerOK
  <2>4. stream' \in [Requests -> Buffers]
    BY <1>1, <1>3 DEF IInv, ManagerOK, Streams
  <2> QED BY <2>3, <2>4 DEF Deliver, IInv, ManagerOK, Streams
<1>5. EngineOK'
  <2>1. PICK lost : lost = Unknown(e, seen)
    OBVIOUS
  <2>2. PICK c : c = [i \in DOMAIN lost |-> Cancel(lost[i].rid)]
    OBVIOUS
  <2>3. c \in Seq(CmdSet)
    <3>1. PICK S : e.toks \in Seq(S) /\ \A x \in S : x.rid \in Requests
      <4>1. CASE \E toks \in Seq(PairSet), fin \in SUBSET Requests : e = Pairs(toks, fin)
        <5>1. PICK S : S = PairSet
          OBVIOUS
        <5>2. \A x \in S : x.rid \in Requests
          BY <5>1 DEF PairSet
        <5>3. e.toks \in Seq(S)
          BY <4>1, <5>1 DEF Pairs
        <5> QED BY <5>2, <5>3
      <4>2. CASE \E lists \in Seq(ListSet), fin \in SUBSET Requests : e = Tokens(lists, fin)
        <5>1. PICK S : S = ListSet
          OBVIOUS
        <5>2. \A x \in S : x.rid \in Requests
          BY <5>1 DEF ListSet
        <5>3. e.toks \in Seq(S)
          BY <4>2, <5>1 DEF Tokens
        <5> QED BY <5>2, <5>3
      <4> QED BY <1>2, <4>1, <4>2 DEF EvtSet
    <3>2. PICK q, I : q = e.toks /\ I = {i \in DOMAIN e.toks : e.toks[i].rid \notin seen}
      OBVIOUS
    <3>3. q \in Seq(S) /\ I \subseteq DOMAIN q
      BY <3>1, <3>2
    <3>4. EntriesAt(q, I) \in Seq(S)
      BY ONLY <3>3, EntriesFacts
    <3>5. lost \in Seq(S)
      BY <2>1, <3>2, <3>4 DEF Unknown
    <3>6. PICK n \in Nat : DOMAIN lost = 1..n /\ \A i \in 1..n : lost[i] \in S
      BY <3>5
    <3>7. \A i \in 1..n : Cancel(lost[i].rid) \in CmdSet
      BY <3>1, <3>6 DEF CmdSet
    <3>8. c \in [1..n -> CmdSet]
      BY <2>2, <3>6, <3>7
    <3> QED BY <3>8
  <2>4. Sent(c) /\ UNCHANGED EngineRest /\ cut' = cut
    BY <1>1, <2>1, <2>2 DEF Deliver
  <2> QED BY <2>3, <2>4, EngineSent DEF IInv, EngineOK, Channels, Modes
<1>6. Clients' /\ Admission' /\ Delivery' /\ Closing'
  BY DEF Deliver, clients, IInv, ManagerOK, Clients, Admission, Delivery, Closing
<1> QED BY <1>4, <1>5, <1>6 DEF IInv, ManagerOK

LEMMA ReceiveOK == ASSUME IInv, Receive PROVE IInv'
<1>1. Arrived \in EvtSet /\ Tail(events) \in Seq(CarriedEvts)
  BY ArrivedFacts DEF IInv, EngineOK, Receive
<1>2. EngineOK'
  <2>1. cmds' \in Seq(CarriedCmds) /\ events' \in Seq(CarriedEvts) /\ cut' \in BOOLEAN
    BY <1>1 DEF Receive, IInv, EngineOK, Channels, Modes, channels
  <2> QED BY <2>1, OutsideOK DEF IInv, Receive, channels
<1>3. Hybrid' /\ Clients' /\ Admission'
  BY DEF Receive, hybrid, clients, IInv, ManagerOK, Hybrid, Clients, Admission
<1>4. PICK e : e = Arrived /\ e \in EvtSet
  BY <1>1
<1>5. CASE e.type = "error"
  <2>1. running' = FALSE /\ queues' = {} /\ lpc' = "notify" /\ event' = {} /\ seen' = queues
        /\ UNCHANGED <<stream, closer>>
    BY <1>4, <1>5 DEF Receive
  <2>2. Streams' /\ Delivery' /\ Closing'
    BY <2>1 DEF IInv, ManagerOK, Streams, Delivery, Closing
  <2> QED BY <1>2, <1>3, <2>2 DEF IInv, ManagerOK
<1>6. CASE e.type # "error"
  <2>1. /\ \/ lpc' = "deliver" /\ event' = {e} /\ seen' = queues \cap Told(e)
           \/ lpc' = "dead" /\ UNCHANGED <<event, seen>>
        /\ UNCHANGED <<running, queues, stream, closer>>
    BY <1>4, <1>6 DEF Receive
  <2>2. e \in EvtSet \ {Error}
    BY <1>4, <1>6 DEF Error
  <2>3. Streams' /\ Delivery' /\ Closing'
    BY <2>1, <2>2 DEF IInv, ManagerOK, Streams, Delivery, Closing
  <2> QED BY <1>2, <1>3, <2>3 DEF IInv, ManagerOK
<1> QED BY <1>5, <1>6

LEMMA LoopOK == ASSUME IInv, Loop PROVE IInv'
<1>1. CASE Notify
  <2>1. EngineOK' /\ Hybrid'
    BY <1>1, EngineKept, NoneFacts DEF IInv, Notify, ManagerOK
  <2> QED BY <1>1, <2>1 DEF IInv, Notify, ManagerOK, Streams, Clients, Admission, Delivery, Closing, clients
<1>2. CASE HangUp
  <2>1. EngineOK' /\ Hybrid'
    BY <1>2, EngineKept DEF IInv, HangUp, ManagerOK, Hybrid, hybrid
  <2> QED BY <1>2, <2>1 DEF IInv, HangUp, ManagerOK, Streams, Clients, Admission, Delivery, Closing, clients
<1> QED BY <1>1, <1>2, DeliverOK, ReceiveOK DEF Loop

\* The manager is left alone.
LEMMA ManagerKept == ASSUME ManagerOK, UNCHANGED mvars PROVE ManagerOK'
BY DEF mvars, hybrid, clients, loop, ManagerOK, Hybrid, Streams, Clients, Admission, Delivery, Closing

LEMMA StepInv == IInv /\ [Next]_vars => IInv'
<1> SUFFICES ASSUME IInv, [Next]_vars PROVE IInv'
  OBVIOUS
<1>1. CASE Process
  BY <1>1, ProcessOK, ManagerKept DEF IInv, Process
<1>2. CASE UNCHANGED vars
  BY <1>2, EngineKept, ManagerKept DEF IInv, vars
<1>3. CASE \E r \in Requests : Register(r) \/ Adder(r) \/ Open(r) \/ Reader(r) \/ Abandon(r) \/ LoopSets(r)
  BY <1>3, ClientOK, SendOK DEF Adder, Reader
<1> QED BY <1>1, <1>2, <1>3, AdmitterOK, LoopOK, CloserOK DEF Next

LEMMA Invariant == Spec => []IInv
BY InitInv, StepInv, PTL DEF Spec

\* What waits and what was made in the process is its own.
LEMMA QueuedOutside ==
  ASSUME [Next]_vars, ~Process
  PROVE  UNCHANGED <<pend, prompts, gen>>
<1>1. CASE \E r \in Requests : Register(r) \/ Adder(r) \/ Open(r) \/ Reader(r) \/ Abandon(r) \/ LoopSets(r)
  BY <1>1 DEF evars, EngineRest, queued, served, Register, Adder, Submit, AddRaises, Send, Open,
              Reader, Read, Await, Awake, EndStream, CancelBackend, Abandon, Leave, LoopSets
<1>2. CASE \E t \in Admitters : Admitter(t)
  BY <1>2 DEF evars, EngineRest, queued, served, Admitter, TakeTask, LookAgain, AdmitSends,
              AdmitRaises, AdmitForgets
<1>3. CASE Loop \/ Closer
  BY <1>3 DEF evars, EngineRest, queued, served, Loop, Receive, Deliver, Notify, HangUp, Closer,
              Close, CloseLocked, CloseTells, CloseJoins
<1>4. CASE UNCHANGED vars
  BY <1>4 DEF vars, evars, queued, served
<1> QED BY <1>1, <1>2, <1>3, <1>4 DEF Next

\* The type invariant of the two processes: their lists, sets, flags and places
\* keep to what they may hold.  It says nothing of what crosses between them.
THEOREM TypeCorrect == Spec => []TypeOK
<1>1. IInv => TypeOK
  BY Typed
<1> QED BY <1>1, Invariant, PTL

\* PlacesExact of the engine process under its manager: whenever commands come
\* and cancel what waits, runs or has ended, `active' names exactly the sessions
\* that hold blocks, never more than the cache was sized for.
THEOREM PlacesKept == Spec => []PlacesExact
<1>1. IInv => PlacesExact
  BY Typed
<1> QED BY <1>1, Invariant, PTL

\* PromptsArrive of the engine process under its manager: whatever commands cross,
\* over a queue or encoded for a pipe, a request that waits in the process or was
\* admitted there has the prompt its client gave.
THEOREM PromptsDelivered == Spec => []PromptsArrive
<1>1. Init => PromptsArrive
  <2> SUFFICES ASSUME Init PROVE PromptsArrive
    OBVIOUS
  <2>1. pend = <<>> /\ gen = [r \in Requests |-> 0]
    BY DEF Init, EngineInit
  <2>2. Range(pend) = {}
    BY <2>1 DEF Range
  <2> QED BY <2>1, <2>2 DEF PromptsArrive
<1>2. IInv /\ PromptsArrive /\ [Next]_vars => PromptsArrive'
  <2> SUFFICES ASSUME IInv, PromptsArrive, [Next]_vars PROVE PromptsArrive'
    OBVIOUS
  <2>1. CASE Process
    BY <2>1, PromptsKept DEF Process, IInv
  <2>2. CASE ~Process
    <3>1. UNCHANGED <<pend, prompts, gen>>
      BY <2>2, QueuedOutside
    <3> QED BY <3>1 DEF PromptsArrive
  <2> QED BY <2>1, <2>2
<1> QED BY <1>1, <1>2, Invariant, PTL DEF Spec
-----------------------------------------------------------------------------

(***************************************************************************)
(* What is on its way, decoded.                                            *)
(***************************************************************************)
Cmds == IF ipc = "pipe" THEN [i \in DOMAIN cmds |-> DecodeCmd(cmds[i])] ELSE cmds
Evts == IF ipc = "pipe" THEN [i \in DOMAIN events |-> DecodeEvt(events[i])] ELSE events

\* The event being delivered is still on its way.
InTransit == IF event = {} THEN Evts ELSE <<CHOOSE e \in event : TRUE>> \o Evts

\* What an event has for a request.
Tok(e, r)   == IF e = Error THEN <<>> ELSE TokensOf(e, r)
Fin(e)      == IF e = Error THEN {} ELSE e.fin
Mapped(q, r) == [i \in DOMAIN q |-> Tok(q[i], r)]

(***************************************************************************)
(* A request is in one place before the process has it, once: with its     *)
(* client, in the queue of the admit threads, with one of them, or among   *)
(* the commands.                                                           *)
(***************************************************************************)
AddsIn(q) == {r \in Requests : \E i \in DOMAIN q : q[i] = Add(r)}
OnceIn(q) == \A i, j \in DOMAIN q : \A r \in Requests : q[i] = Add(r) /\ q[j] = Add(r) => i = j

Unsent    == {r \in Requests : client[r] \in {"idle", "adding"}}
Tasks     == {r \in Requests : r # Poison /\ r \in Range(admitQ)}
HeldBy(t) == IF adm[t].at \in {"encode", "send"} THEN adm[t].on ELSE {}
Adds      == AddsIn(Cmds)
Before(r) == \/ r \in Unsent \/ r \in Tasks \/ r \in Adds
             \/ \E t \in Admitters : r \in HeldBy(t)
Coming(r) == Before(r) \/ r \in byRid \/ r \in sessions
Final     == {r \in Requests : gen[r] > 0 /\ r \notin sessions}

OnceAsked == \A i, j \in DOMAIN admitQ : admitQ[i] = admitQ[j] /\ admitQ[i] # Poison => i = j
OnceHeld  == \A t, u \in Admitters : \A r \in HeldBy(t) : r \in HeldBy(u) => t = u
Once == OnceAsked /\ OnceHeld /\ OnceIn(Cmds) /\ IsInjective(pend)

Placed(r) ==
  /\ r \in Unsent => r \notin Tasks
  /\ r \in Unsent \cup Tasks => r \notin Adds /\ \A t \in Admitters : r \notin HeldBy(t)
  /\ \A t \in Admitters : r \in HeldBy(t) => r \notin Adds
Forward ==
  \A r \in Requests :
    /\ Placed(r)
    /\ Before(r) => r \notin Range(pend) /\ gen[r] = 0
    /\ r \in byRid => gen[r] = 0

\* What an iteration of the process has to tell.
Produced ==
  /\ \A i \in DOMAIN out : out[i].tok = 1 /\ gen[out[i].rid] = 1
  /\ \A i, j \in DOMAIN out : out[i].rid = out[j].rid => i = j
  /\ finished \subseteq Final
  /\ epc \in {"top", "drain", "admit"} => out = <<>> /\ finished = {}
Untold == {out[i].rid : i \in DOMAIN out}

Order == Once /\ Forward /\ Produced

(***************************************************************************)
(* The event loop delivers one event; which streams it knows it has looked *)
(* up.  The manager stops once and for all.                                *)
(***************************************************************************)
Dropped(r) == gen[r] = 0 /\ ~Coming(r)
Looked ==
  /\ lpc = "recv" => event = {} /\ seen = {}
  /\ lpc = "deliver" => \E e \in EvtSet \ {Error} : event = {e}
  /\ lpc = "notify" => ~running
  /\ closer.at = "tell" => ~running
  /\ \A t \in Admitters : adm[t].at = "forget" => \A r \in adm[t].on : Dropped(r)

(***************************************************************************)
(* The streams.                                                            *)
(***************************************************************************)
Ended ==
  running => \A r \in Requests :
    /\ client[r] = "adding" => r \in queues
    /\ client[r] = "added" => r \in queues \/ Dropped(r)
    /\ ~NoNone(chan[r]) \/ r \in Over => ~Coming(r)

\* The tokens that events carry for a request follow those it was given, one after
\* another from y to z, and none follows its end.
Finishes(q, r) == \E i \in DOMAIN q : r \in Fin(q[i])
Trail(q, r, y, z) ==
  /\ Pieced(Mapped(q, r), y, z, Nat)
  /\ \A i, j \in DOMAIN q : i < j /\ r \in Fin(q[i]) => Tok(q[j], r) = <<>>

\* The tokens the process has told of, and those it has made; the end of a request
\* is sent when these are the same.
ToldOf(r)    == IF r \in Untold THEN 0 ELSE gen[r]
IsLast(r, z) == r \in Final /\ z = gen[r]
Emits(r, y, z) ==
  /\ Trail(InTransit, r, y, z) /\ z <= gen[r]
  /\ Finishes(InTransit, r) => IsLast(r, z)
  /\ Alive => z = ToldOf(r)
Transit(r, y) == \E z \in Nat : Emits(r, y, z)

\* A stream has d tokens; those that follow are on their way, unless the event
\* loop did not find it.
Levels(r) == IF running THEN {gen[r]} ELSE Nat
Follows(r, d, y) ==
  /\ Transit(r, y) /\ (r \in queues \cup seen => d = y)
  /\ r \in queues \ seen => \A e \in event : Tok(e, r) = <<>>
FlowAt(r, d, y) ==
  /\ FlowOf(chan[r], got[r], stream[r], d, Levels(r)) /\ d <= gen[r]
  /\ lpc \in {"recv", "deliver"} => Follows(r, d, y)
Flow(r) == \E d, y \in Nat : FlowAt(r, d, y)

StreamInv == Looked /\ Ended /\ \A r \in Requests : Flow(r)
-----------------------------------------------------------------------------
\* A sequence that is mapped, element by element.
LEMMA EvtsFacts ==
  ASSUME Channels
  PROVE  /\ Evts \in Seq(EvtSet) /\ Len(Evts) = Len(events)
         /\ events # <<>> => /\ Evts # <<>> /\ Arrived = Head(Evts)
<1>1. PICK n \in Nat : n = Len(events) /\ DOMAIN events = 1..n /\ \A i \in 1..n : events[i] \in CarriedEvts
  BY DEF Channels
<1>2. \A i \in 1..n : Evts[i] = IF ipc = "pipe" THEN DecodeEvt(events[i]) ELSE events[i]
  BY <1>1 DEF Evts
<1>3. \A i \in 1..n : Evts[i] \in EvtSet
  BY <1>1, <1>2, EvtDecoded DEF CarriedEvts
<1>4. Evts \in [1..n -> EvtSet]
  <2>1. CASE ipc = "pipe"
    BY <1>1, <1>3, <2>1 DEF Evts
  <2>2. CASE ipc # "pipe"
    <3>1. events \in Seq(EvtSet)
      BY <2>2 DEF Channels, CarriedEvts
    <3> QED BY <1>1, <2>2, <3>1 DEF Evts
  <2> QED BY <2>1, <2>2
<1>5. Evts \in Seq(EvtSet) /\ Len(Evts) = n
  BY <1>4
<1>6. ASSUME events # <<>> PROVE Evts # <<>> /\ Arrived = Head(Evts)
  <2>1. 1 \in 1..n /\ Head(events) = events[1]
    BY <1>1, <1>6, TailFacts DEF Channels
  <2>2. Evts # <<>> /\ Head(Evts) = Evts[1]
    BY <1>1, <1>5, <1>6
  <2> QED BY <1>2, <2>1, <2>2 DEF Arrived
<1> QED BY <1>1, <1>5, <1>6

LEMMA CmdsFacts ==
  ASSUME Channels
  PROVE  /\ Cmds \in Seq(CmdSet) /\ Len(Cmds) = Len(cmds)
         /\ cmds # <<>> => Cmds # <<>> /\ Command = Head(Cmds)
<1>1. PICK n \in Nat : n = Len(cmds) /\ DOMAIN cmds = 1..n /\ \A i \in 1..n : cmds[i] \in CarriedCmds
  BY DEF Channels
<1>2. \A i \in 1..n : Cmds[i] = IF ipc = "pipe" THEN DecodeCmd(cmds[i]) ELSE cmds[i]
  BY <1>1 DEF Cmds
<1>3. \A i \in 1..n : Cmds[i] \in CmdSet
  BY <1>1, <1>2, CmdDecoded DEF CarriedCmds
<1>4. Cmds \in [1..n -> CmdSet]
  <2>1. CASE ipc = "pipe"
    BY <1>1, <1>3, <2>1 DEF Cmds
  <2>2. CASE ipc # "pipe"
    <3>1. cmds \in Seq(CmdSet)
      BY <2>2 DEF Channels, CarriedCmds
    <3> QED BY <1>1, <2>2, <3>1 DEF Cmds
  <2> QED BY <2>1, <2>2
<1>5. Cmds \in Seq(CmdSet) /\ Len(Cmds) = n
  BY <1>4
<1>6. ASSUME cmds # <<>> PROVE Cmds # <<>> /\ Command = Head(Cmds)
  <2>1. 1 \in 1..n /\ Head(cmds) = cmds[1]
    BY <1>1, <1>6, TailFacts DEF Channels
  <2>2. Cmds # <<>> /\ Head(Cmds) = Cmds[1]
    BY <1>1, <1>5, <1>6
  <2> QED BY <1>2, <2>1, <2>2 DEF Command
<1> QED BY <1>1, <1>5, <1>6

\* The same words, decoded: when nothing moves, when the first is taken, and when
\* some are sent.
LEMMA SameSeq ==
  ASSUME NEW S, NEW p \in Seq(S), NEW q \in Seq(S), Len(p) = Len(q), \A i \in 1..Len(p) : p[i] = q[i]
  PROVE  p = q
OBVIOUS

LEMMA TailMapped ==
  ASSUME NEW S, NEW q \in Seq(S), q # <<>>, NEW T, NEW f \in [S -> T],
         NEW p, p = [i \in DOMAIN q |-> f[q[i]]],
         NEW u, u = [i \in DOMAIN Tail(q) |-> f[Tail(q)[i]]]
  PROVE  p \in Seq(T) /\ u = Tail(p)
<1>1. PICK n \in Nat \ {0} : n = Len(q) /\ DOMAIN q = 1..n
  BY TailFacts
<1>2. Tail(q) \in Seq(S) /\ Len(Tail(q)) = n - 1 /\ DOMAIN Tail(q) = 1..(n - 1)
  BY <1>1, TailFacts
<1>3. \A i \in 1..(n - 1) : i + 1 \in 1..n /\ i \in 1..n /\ Tail(q)[i] = q[i + 1]
  BY <1>1, <1>2, TailFacts
<1>4. \A i \in 1..n : f[q[i]] \in T
  BY <1>1
<1>5. p \in [1..n -> T] /\ \A i \in 1..n : p[i] = f[q[i]]
  BY <1>1, <1>4
<1>6. p \in Seq(T) /\ Len(p) = n /\ p # <<>>
  BY <1>5
<1>7. /\ Tail(p) \in Seq(T) /\ Len(Tail(p)) = n - 1
      /\ \A i \in 1..(n - 1) : Tail(p)[i] = p[i + 1]
  BY <1>6, TailFacts
<1>8. u \in [1..(n - 1) -> T] /\ \A i \in 1..(n - 1) : u[i] = p[i + 1]
  BY <1>2, <1>3, <1>4, <1>5
<1>9. u \in Seq(T) /\ Len(u) = n - 1
  BY <1>8
<1> QED BY <1>6, <1>7, <1>8, <1>9, SameSeq

LEMMA AppendMapped ==
  ASSUME NEW S, NEW q \in Seq(S), NEW x \in S, NEW T, NEW f \in [S -> T],
         NEW p, p = [i \in DOMAIN q |-> f[q[i]]],
         NEW u, u = [i \in DOMAIN Append(q, x) |-> f[Append(q, x)[i]]]
  PROVE  p \in Seq(T) /\ u = Append(p, f[x])
<1>1. PICK n \in Nat : n = Len(q) /\ DOMAIN q = 1..n
  OBVIOUS
<1>2. /\ Append(q, x) \in Seq(S) /\ Len(Append(q, x)) = n + 1 /\ DOMAIN Append(q, x) = 1..(n + 1)
      /\ Append(q, x)[n + 1] = x /\ \A i \in 1..n : Append(q, x)[i] = q[i]
  <2>1. 1..n \cup {n + 1} = 1..(n + 1)
    OBVIOUS
  <2> QED BY <1>1, <2>1, AppendFacts
<1>3. p \in [1..n -> T] /\ \A i \in 1..n : p[i] = f[q[i]]
  BY <1>1
<1>4. p \in Seq(T) /\ Len(p) = n /\ f[x] \in T
  BY <1>3
<1>5. /\ Append(p, f[x]) \in Seq(T) /\ Len(Append(p, f[x])) = n + 1
      /\ Append(p, f[x])[n + 1] = f[x] /\ \A i \in 1..n : Append(p, f[x])[i] = p[i]
  BY <1>4, AppendFacts
<1>6. u \in [1..(n + 1) -> T] /\ \A i \in 1..(n + 1) : u[i] = f[Append(q, x)[i]]
  BY <1>2
<1>7. u \in Seq(T) /\ Len(u) = n + 1
  BY <1>6
<1>8. \A i \in 1..(n + 1) : u[i] = Append(p, f[x])[i]
  <2>1. \A i \in 1..(n + 1) : i = n + 1 \/ i \in 1..n
    OBVIOUS
  <2> QED BY <1>2, <1>3, <1>5, <1>6, <2>1
<1> QED BY <1>4, <1>5, <1>7, <1>8, SameSeq

LEMMA EvtsMoved ==
  ASSUME Channels, ipc' = ipc
  PROVE  /\ events' = events => Evts' = Evts
         /\ events # <<>> /\ events' = Tail(events) => Evts' = Tail(Evts)
         /\ \A e \in EvtSet : events' = Emitted(e) =>
              Evts' = IF CanEmit THEN Append(Evts, e) ELSE Evts
<1>1. events \in Seq(CarriedEvts)
  BY DEF Channels
<1>2. ASSUME events' = events PROVE Evts' = Evts
  BY <1>2 DEF Evts
<1>3. ASSUME events # <<>>, events' = Tail(events) PROVE Evts' = Tail(Evts)
  <2>1. CASE ipc # "pipe"
    BY <1>3, <2>1 DEF Evts
  <2>2. CASE ipc = "pipe"
    <3>1. PICK S, f : S = CarriedEvts /\ f = [m \in S |-> DecodeEvt(m)]
      OBVIOUS
    <3>2. f \in [S -> EvtSet]
      <4>1. \A m \in S : DecodeEvt(m) \in EvtSet
        BY <2>2, <3>1, EvtDecoded DEF CarriedEvts
      <4> QED BY <3>1, <4>1
    <3>3. PICK q : q = events
      OBVIOUS
    <3>4. q \in Seq(S) /\ q # <<>>
      BY <1>1, <1>3, <3>1, <3>3
    <3>5. PICK p, u : p = [i \in DOMAIN q |-> f[q[i]]] /\ u = [i \in DOMAIN Tail(q) |-> f[Tail(q)[i]]]
      OBVIOUS
    <3>6. u = Tail(p)
      BY <3>2, <3>4, <3>5, TailMapped
    <3>7. Evts = p
      <4>1. \A i \in DOMAIN q : q[i] \in S
        BY <3>4
      <4>2. Evts = [i \in DOMAIN q |-> DecodeEvt(q[i])]
        BY <2>2, <3>3 DEF Evts
      <4> QED BY <3>1, <3>5, <4>1, <4>2
    <3>8. Evts' = u
      <4>1. Tail(q) \in Seq(S)
        BY <3>4, TailFacts
      <4>2. \A i \in DOMAIN Tail(q) : Tail(q)[i] \in S
        BY <4>1
      <4>3. Evts' = [i \in DOMAIN Tail(q) |-> DecodeEvt(Tail(q)[i])]
        BY <1>3, <2>2, <3>3 DEF Evts
      <4> QED BY <3>1, <3>5, <4>2, <4>3
    <3> QED BY <3>6, <3>7, <3>8
  <2> QED BY <2>1, <2>2
<1>4. ASSUME NEW e \in EvtSet, events' = Emitted(e)
      PROVE  Evts' = IF CanEmit THEN Append(Evts, e) ELSE Evts
  <2>1. CASE ~CanEmit
    BY <1>2, <1>4, <2>1 DEF Emitted
  <2>2. CASE CanEmit /\ ipc # "pipe"
    BY <1>4, <2>2 DEF Emitted, Evts
  <2>3. CASE CanEmit /\ ipc = "pipe"
    <3>1. PICK S, f : S = CarriedEvts /\ f = [m \in S |-> DecodeEvt(m)]
      OBVIOUS
    <3>2. f \in [S -> EvtSet]
      <4>1. \A m \in S : DecodeEvt(m) \in EvtSet
        BY <2>3, <3>1, EvtDecoded DEF CarriedEvts
      <4> QED BY <3>1, <4>1
    <3>3. PICK q, x : q = events /\ x = EncodeEvt(e)
      OBVIOUS
    <3>4. q \in Seq(S) /\ x \in S /\ f[x] = e
      BY <1>1, <2>3, <3>1, <3>3, EvtDecoded DEF CarriedEvts
    <3>5. PICK p, u : p = [i \in DOMAIN q |-> f[q[i]]]
                   /\ u = [i \in DOMAIN Append(q, x) |-> f[Append(q, x)[i]]]
      OBVIOUS
    <3>6. u = Append(p, e)
      BY <3>2, <3>4, <3>5, AppendMapped
    <3>7. Evts = p
      <4>1. \A i \in DOMAIN q : q[i] \in S
        BY <3>4
      <4>2. Evts = [i \in DOMAIN q |-> DecodeEvt(q[i])]
        BY <2>3, <3>3 DEF Evts
      <4> QED BY <3>1, <3>5, <4>1, <4>2
    <3>8. Evts' = u
      <4>1. Append(q, x) \in Seq(S)
        BY <3>4, AppendFacts
      <4>2. \A i \in DOMAIN Append(q, x) : Append(q, x)[i] \in S
        BY <4>1
      <4>3. events' = Append(q, x)
        BY <1>4, <2>3, <3>3 DEF Emitted
      <4>4. Evts' = [i \in DOMAIN Append(q, x) |-> DecodeEvt(Append(q, x)[i])]
        BY <2>3, <4>3 DEF Evts
      <4> QED BY <3>1, <3>5, <4>2, <4>4
    <3> QED BY <2>3, <3>6, <3>7, <3>8
  <2> QED BY <2>1, <2>2, <2>3
<1> QED BY <1>2, <1>3, <1>4

LEMMA FunSeq ==
  ASSUME NEW T, NEW n \in Nat, NEW p \in [1..n -> T]
  PROVE  p \in Seq(T) /\ Len(p) = n /\ DOMAIN p = 1..n
OBVIOUS

LEMMA JoinFacts ==
  ASSUME NEW T, NEW p \in Seq(T), NEW l \in Seq(T), NEW n, n = Len(p), NEW k, k = Len(l)
  PROVE  /\ n \in Nat /\ k \in Nat
         /\ p \o l \in Seq(T) /\ Len(p \o l) = n + k /\ DOMAIN (p \o l) = 1..(n + k)
         /\ \A i \in 1..n : (p \o l)[i] = p[i]
         /\ \A i \in 1..(n + k) : i \in 1..n \/ (i - n \in 1..k /\ (p \o l)[i] = l[i - n])
OBVIOUS

Joined(S, T, q, s, f, list, p, u) ==
  /\ q \in Seq(S) /\ s \in Seq(S) /\ f \in [S -> T] /\ list \in Seq(T)
  /\ Len(list) = Len(s) /\ \A i \in 1..Len(s) : f[s[i]] = list[i]
  /\ p = [i \in DOMAIN q |-> f[q[i]]] /\ u = [i \in DOMAIN (q \o s) |-> f[(q \o s)[i]]]
LEMMA ConcatMapped ==
  ASSUME NEW S, NEW T, NEW q, NEW s, NEW f, NEW list, NEW p, NEW u, Joined(S, T, q, s, f, list, p, u)
  PROVE  u = p \o list
<1>0. /\ q \in Seq(S) /\ s \in Seq(S) /\ f \in [S -> T] /\ list \in Seq(T)
      /\ Len(list) = Len(s) /\ \A i \in 1..Len(s) : f[s[i]] = list[i]
  BY DEF Joined
<1>a. p = [i \in DOMAIN q |-> f[q[i]]] /\ u = [i \in DOMAIN (q \o s) |-> f[(q \o s)[i]]]
  BY DEF Joined
<1>1. PICK n \in Nat, k \in Nat : n = Len(q) /\ k = Len(s)
  BY <1>0
<1>2. /\ q \o s \in Seq(S) /\ Len(q \o s) = n + k /\ DOMAIN (q \o s) = 1..(n + k)
      /\ \A i \in 1..n : (q \o s)[i] = q[i]
      /\ \A i \in 1..(n + k) : i \in 1..n \/ (i - n \in 1..k /\ (q \o s)[i] = s[i - n])
  BY <1>0, <1>1, JoinFacts
<1>3. DOMAIN q = 1..n /\ \A i \in 1..n : f[q[i]] \in T
  BY <1>0, <1>1
<1>4. p \in [1..n -> T] /\ \A i \in 1..n : p[i] = f[q[i]]
  BY <1>a, <1>3
<1>5. p \in Seq(T) /\ Len(p) = n
  BY <1>4, FunSeq
<1>6. /\ p \o list \in Seq(T) /\ Len(p \o list) = n + k
      /\ \A i \in 1..n : (p \o list)[i] = p[i]
      /\ \A i \in 1..(n + k) : i \in 1..n \/ (p \o list)[i] = list[i - n]
  <2>1. p \in Seq(T) /\ list \in Seq(T) /\ n = Len(p) /\ k = Len(list)
    BY <1>0, <1>1, <1>5
  <2>2. /\ n \in Nat /\ k \in Nat
        /\ p \o list \in Seq(T) /\ Len(p \o list) = n + k /\ DOMAIN (p \o list) = 1..(n + k)
        /\ \A i \in 1..n : (p \o list)[i] = p[i]
        /\ \A i \in 1..(n + k) : i \in 1..n \/ (i - n \in 1..k /\ (p \o list)[i] = list[i - n])
    BY ONLY <2>1, JoinFacts
  <2> QED BY ONLY <2>2
<1>7. u \in [1..(n + k) -> T] /\ \A i \in 1..(n + k) : u[i] = f[(q \o s)[i]]
  <2>1. \A i \in 1..(n + k) : f[(q \o s)[i]] \in T
    BY <1>0, <1>2
  <2> QED BY <1>a, <1>2, <2>1
<1>8. u \in Seq(T) /\ Len(u) = n + k
  <2>1. n + k \in Nat
    OBVIOUS
  <2> QED BY <1>7, <2>1, FunSeq
<1>9. \A i \in 1..(n + k) : u[i] = (p \o list)[i]
  <2> TAKE i \in 1..(n + k)
  <2>1. CASE i \in 1..n
    <3>1. (q \o s)[i] = q[i] /\ p[i] = f[q[i]] /\ (p \o list)[i] = p[i]
      BY <1>2, <1>4, <1>6, <2>1
    <3>2. u[i] = f[(q \o s)[i]]
      BY <1>7
    <3> QED BY ONLY <3>1, <3>2
  <2>2. CASE i \notin 1..n
    <3>1. i - n \in 1..k /\ (q \o s)[i] = s[i - n] /\ (p \o list)[i] = list[i - n]
      BY <1>2, <1>6, <2>2
    <3>2. f[s[i - n]] = list[i - n]
      BY <1>0, <1>1, <3>1
    <3> QED BY <1>7, <3>1, <3>2
  <2> QED BY <2>1, <2>2
<1>10. PICK v : v = p \o list
  OBVIOUS
<1>11. v \in Seq(T) /\ Len(v) = Len(u) /\ \A i \in 1..Len(u) : u[i] = v[i]
  BY <1>6, <1>8, <1>9, <1>10
<1>12. u = v
  BY ONLY <1>8, <1>11, SameSeq
<1> QED BY <1>5, <1>10, <1>12

LEMMA CmdsMoved ==
  ASSUME Channels, ipc' = ipc
  PROVE  /\ cmds' = cmds => Cmds' = Cmds
         /\ cmds # <<>> /\ cmds' = Tail(cmds) => Cmds' = Tail(Cmds)
         /\ \A list \in Seq(CmdSet) : Sent(list) => Cmds' = IF CanSend THEN Cmds \o list ELSE Cmds
<1>1. cmds \in Seq(CarriedCmds)
  BY DEF Channels
<1>2. ASSUME cmds' = cmds PROVE Cmds' = Cmds
  BY <1>2 DEF Cmds
<1>3. ASSUME cmds # <<>>, cmds' = Tail(cmds) PROVE Cmds' = Tail(Cmds)
  <2>1. CASE ipc # "pipe"
    BY <1>3, <2>1 DEF Cmds
  <2>2. CASE ipc = "pipe"
    <3>1. PICK S, f : S = CarriedCmds /\ f = [m \in S |-> DecodeCmd(m)]
      OBVIOUS
    <3>2. f \in [S -> CmdSet]
      <4>1. \A m \in S : DecodeCmd(m) \in CmdSet
        BY <2>2, <3>1, CmdDecoded DEF CarriedCmds
      <4> QED BY <3>1, <4>1
    <3>3. PICK q : q = cmds
      OBVIOUS
    <3>4. q \in Seq(S) /\ q # <<>>
      BY <1>1, <1>3, <3>1, <3>3
    <3>5. PICK p, u : p = [i \in DOMAIN q |-> f[q[i]]] /\ u = [i \in DOMAIN Tail(q) |-> f[Tail(q)[i]]]
      OBVIOUS
    <3>6. u = Tail(p)
      BY <3>2, <3>4, <3>5, TailMapped
    <3>7. Cmds = p
      <4>1. \A i \in DOMAIN q : q[i] \in S
        BY <3>4
      <4>2. Cmds = [i \in DOMAIN q |-> DecodeCmd(q[i])]
        BY <2>2, <3>3 DEF Cmds
      <4> QED BY <3>1, <3>5, <4>1, <4>2
    <3>8. Cmds' = u
      <4>1. Tail(q) \in Seq(S)
        BY <3>4, TailFacts
      <4>2. \A i \in DOMAIN Tail(q) : Tail(q)[i] \in S
        BY <4>1
      <4>3. Cmds' = [i \in DOMAIN Tail(q) |-> DecodeCmd(Tail(q)[i])]
        BY <1>3, <2>2, <3>3 DEF Cmds
      <4> QED BY <3>1, <3>5, <4>2, <4>3
    <3> QED BY <3>6, <3>7, <3>8
  <2> QED BY <2>1, <2>2
<1>4. ASSUME NEW list \in Seq(CmdSet), Sent(list)
      PROVE  Cmds' = IF CanSend THEN Cmds \o list ELSE Cmds
  <2>0. PICK n \in Nat : n = Len(list) /\ DOMAIN list = 1..n /\ \A i \in 1..n : list[i] \in CmdSet
    OBVIOUS
  <2>1. CASE ~CanSend
    BY <1>2, <1>4, <2>1 DEF Sent
  <2>2. CASE CanSend /\ ipc # "pipe"
    <3>1. list = [i \in DOMAIN list |-> list[i]]
      OBVIOUS
    <3>2. cmds' = cmds \o list
      BY <1>4, <2>2, <3>1 DEF Sent
    <3> QED BY <2>2, <3>2 DEF Cmds
  <2>3. CASE CanSend /\ ipc = "pipe"
    <3>1. PICK S, f : S = CarriedCmds /\ f = [m \in S |-> DecodeCmd(m)]
      OBVIOUS
    <3>2. f \in [S -> CmdSet]
      <4>1. \A m \in S : DecodeCmd(m) \in CmdSet
        BY <2>3, <3>1, CmdDecoded DEF CarriedCmds
      <4> QED BY <3>1, <4>1
    <3>3. PICK q, s : q = cmds /\ s = [i \in DOMAIN list |-> EncodeCmd(list[i])]
      OBVIOUS
    <3>4. s \in Seq(S) /\ Len(s) = n /\ \A i \in 1..n : f[s[i]] = list[i]
      <4>1. \A i \in 1..n : EncodeCmd(list[i]) \in S
        BY <2>0, <2>3, <3>1 DEF CarriedCmds
      <4>2. s \in [1..n -> S] /\ \A i \in 1..n : s[i] = EncodeCmd(list[i])
        BY <2>0, <3>3, <4>1
      <4>3. s \in Seq(S) /\ Len(s) = n
        BY <4>2
      <4> QED BY <2>0, <3>1, <4>1, <4>2, <4>3, CmdDecoded
    <3>5. PICK p, u : p = [i \in DOMAIN q |-> f[q[i]]]
                   /\ u = [i \in DOMAIN (q \o s) |-> f[(q \o s)[i]]]
      OBVIOUS
    <3>6. q \in Seq(S)
      BY <1>1, <3>1, <3>3
    <3>7. u = p \o list
      <4>1. PICK T : T = CmdSet
        OBVIOUS
      <4>2. /\ q \in Seq(S) /\ s \in Seq(S) /\ f \in [S -> T] /\ list \in Seq(T)
            /\ Len(list) = Len(s) /\ \A i \in 1..Len(s) : f[s[i]] = list[i]
        BY <2>0, <3>2, <3>4, <3>6, <4>1
      <4>3. Joined(S, T, q, s, f, list, p, u)
        BY <3>5, <4>2 DEF Joined
      <4> QED BY ONLY <4>3, ConcatMapped
    <3>8. Cmds = p
      <4>1. \A i \in DOMAIN q : q[i] \in S
        BY <3>6
      <4>2. Cmds = [i \in DOMAIN q |-> DecodeCmd(q[i])]
        BY <2>3, <3>3 DEF Cmds
      <4> QED BY <3>1, <3>5, <4>1, <4>2
    <3>9. Cmds' = u
      <4>1. PICK v : v = q \o s
        OBVIOUS
      <4>2. v \in Seq(S)
        BY ONLY <3>4, <3>6, <4>1
      <4>3. \A i \in DOMAIN v : v[i] \in S
        BY <4>2
      <4>4. cmds' = v
        BY <1>4, <2>3, <3>3, <4>1 DEF Sent
      <4>5. Cmds' = [i \in DOMAIN v |-> DecodeCmd(v[i])]
        BY <2>3, <4>4 DEF Cmds
      <4> QED BY <3>1, <3>5, <4>1, <4>3, <4>5
    <3> QED BY <2>3, <3>7, <3>8, <3>9
  <2> QED BY <2>1, <2>2, <2>3
<1> QED BY <1>2, <1>3, <1>4

-----------------------------------------------------------------------------
\* What is on its way, step by step.
LEMMA ConsMoves ==
  ASSUME NEW S, NEW q \in Seq(S), NEW e \in S
  PROVE  /\ <<e>> \o q \in Seq(S) /\ <<e>> \o q # <<>>
         /\ Head(<<e>> \o q) = e /\ Tail(<<e>> \o q) = q
         /\ \A x \in S : <<e>> \o Append(q, x) = Append(<<e>> \o q, x)
         /\ q # <<>> => <<Head(q)>> \o Tail(q) = q
OBVIOUS

LEMMA TransitIs ==
  ASSUME IInv
  PROVE  /\ Evts \in Seq(EvtSet) /\ InTransit \in Seq(EvtSet)
         /\ event = {} => InTransit = Evts
         /\ \A e \in EvtSet : event = {e} => InTransit = <<e>> \o Evts
<1>1. Evts \in Seq(EvtSet)
  BY EvtsFacts DEF IInv, EngineOK
<1>2. \A e \in EvtSet : event = {e} => InTransit = <<e>> \o Evts
  BY DEF InTransit
<1>3. InTransit \in Seq(EvtSet)
  <2>1. CASE event = {}
    BY <1>1, <2>1 DEF InTransit
  <2>2. CASE event # {}
    <3>1. PICK e : e = CHOOSE x \in event : TRUE
      OBVIOUS
    <3>2. e \in EvtSet
      BY <2>2, <3>1 DEF IInv, ManagerOK, Delivery
    <3>3. <<e>> \o Evts \in Seq(EvtSet)
      BY <1>1, <3>2, ConsFacts
    <3> QED BY <2>2, <3>1, <3>3 DEF InTransit
  <2> QED BY <2>1, <2>2
<1> QED BY <1>1, <1>2, <1>3 DEF InTransit

LEMMA TransitMoves ==
  ASSUME IInv, Looked, ipc' = ipc
  PROVE  /\ events' = events /\ event' = event => InTransit' = InTransit
         /\ \A e \in EvtSet : events' = Emitted(e) /\ event' = event /\ lpc \in {"recv", "deliver"} =>
              InTransit' = IF CanEmit THEN Append(InTransit, e) ELSE InTransit
         /\ lpc = "recv" /\ events # <<>> /\ events' = Tail(events) /\ event' = {Arrived} =>
              InTransit' = InTransit
         /\ \A e \in EvtSet : event = {e} /\ events' = events /\ event' = {} =>
              InTransit # <<>> /\ Head(InTransit) = e /\ InTransit' = Tail(InTransit)
<1>0. Channels /\ Evts \in Seq(EvtSet)
  BY TransitIs DEF IInv, EngineOK
<1>1. ASSUME events' = events, event' = event PROVE InTransit' = InTransit
  <2>1. Evts' = Evts
    BY <1>0, <1>1, EvtsMoved
  <2> QED BY <1>1, <2>1 DEF InTransit
<1>2. ASSUME NEW e \in EvtSet, events' = Emitted(e), event' = event, lpc \in {"recv", "deliver"}
      PROVE  InTransit' = IF CanEmit THEN Append(InTransit, e) ELSE InTransit
  <2>1. Evts' = IF CanEmit THEN Append(Evts, e) ELSE Evts
    BY <1>0, <1>2, EvtsMoved
  <2>2. CASE event = {}
    BY <1>2, <2>1, <2>2 DEF InTransit
  <2>3. CASE event # {}
    <3>1. PICK x \in EvtSet : event = {x}
      BY <1>2, <2>3 DEF Looked
    <3>2. InTransit = <<x>> \o Evts /\ InTransit' = <<x>> \o Evts'
      BY <1>2, <3>1 DEF InTransit
    <3>3. <<x>> \o Append(Evts, e) = Append(<<x>> \o Evts, e)
      BY <1>0, ConsMoves
    <3> QED BY <2>1, <3>2, <3>3
  <2> QED BY <2>2, <2>3
<1>3. ASSUME lpc = "recv", events # <<>>, events' = Tail(events), event' = {Arrived}
      PROVE  InTransit' = InTransit
  <2>1. InTransit = Evts
    BY <1>3 DEF InTransit, Looked
  <2>2. Evts # <<>> /\ Arrived = Head(Evts) /\ Evts' = Tail(Evts)
    BY <1>0, <1>3, EvtsFacts, EvtsMoved
  <2>3. <<Head(Evts)>> \o Tail(Evts) = Evts
    BY <1>0, <2>2, ConsMoves, TailFacts
  <2>4. InTransit' = <<Arrived>> \o Evts'
    BY <1>3 DEF InTransit
  <2> QED BY <2>1, <2>2, <2>3, <2>4
<1>4. ASSUME NEW e \in EvtSet, event = {e}, events' = events, event' = {}
      PROVE  InTransit # <<>> /\ Head(InTransit) = e /\ InTransit' = Tail(InTransit)
  <2>1. Evts' = Evts
    BY <1>0, <1>4, EvtsMoved
  <2>2. InTransit = <<e>> \o Evts /\ InTransit' = Evts
    BY <1>4, <2>1 DEF InTransit
  <2> QED BY <1>0, <2>2, ConsMoves
<1> QED BY <1>1, <1>2, <1>3, <1>4

\* What an event has for a request it does not name.
LEMMA TokFacts ==
  ASSUME NEW e \in EvtSet, NEW r
  PROVE  /\ Tok(e, r) \in Seq(Nat)
         /\ e # Error /\ r \notin Told(e) => Tok(e, r) = <<>>
         /\ e # Error => Tok(e, r) = TokensOf(e, r) /\ Fin(e) = e.fin
<1>1. Tok(e, r) \in Seq(Nat)
  <2>1. <<>> \in Seq(Nat)
    OBVIOUS
  <2> QED BY <2>1, TokensOfType DEF Tok
<1>2. ASSUME e # Error, r \notin Told(e) PROVE TokensOf(e, r) = <<>>
  <2>1. Places(e.toks, r) = {}
    BY <1>2 DEF Told, Places
  <2>2. ASSUME NEW toks \in Seq(PairSet), NEW fin \in SUBSET Requests, e = Pairs(toks, fin)
        PROVE  TokensOf(e, r) = <<>>
    <3>1. TokensOf(e, r) = TokensIn(toks, r) /\ Places(toks, r) = {}
      BY <2>1, <2>2 DEF TokensOf, Pairs
    <3> QED BY <3>1, TokensInFacts DEF PairSet
  <2>3. ASSUME NEW lists \in Seq(ListSet), NEW fin \in SUBSET Requests, e = Tokens(lists, fin)
        PROVE  TokensOf(e, r) = <<>>
    <3>1. TokensOf(e, r) = FlattenSeq(TokensIn(lists, r)) /\ Places(lists, r) = {}
      BY <2>1, <2>3 DEF TokensOf, Tokens
    <3>2. TokensIn(lists, r) = <<>>
      BY <3>1, TokensInFacts DEF ListSet
    <3>3. FlattenSeq(<<>>) = <<>>
      <4>1. <<>> \in Seq(Nat)
        OBVIOUS
      <4> QED BY <4>1, FlattenOne
    <3> QED BY <3>1, <3>2, <3>3
  <2> QED BY <1>2, <2>2, <2>3 DEF EvtSet
<1> QED BY <1>1, <1>2 DEF Tok, Fin

\* What events have for one request, event by event.
LEMMA MappedFacts ==
  ASSUME NEW q \in Seq(EvtSet), NEW r
  PROVE  /\ Mapped(q, r) \in Seq(Seq(Nat)) /\ Len(Mapped(q, r)) = Len(q)
         /\ DOMAIN Mapped(q, r) = DOMAIN q /\ \A i \in DOMAIN q : Mapped(q, r)[i] = Tok(q[i], r)
         /\ q # <<>> => /\ Mapped(q, r) # <<>> /\ Head(Mapped(q, r)) = Tok(Head(q), r)
                        /\ Mapped(Tail(q), r) = Tail(Mapped(q, r))
         /\ \A e \in EvtSet : Mapped(Append(q, e), r) = Append(Mapped(q, r), Tok(e, r))
<1>1. PICK S, f, T : S = EvtSet /\ f = [e \in S |-> Tok(e, r)] /\ T = Seq(Nat)
  OBVIOUS
<1>2. f \in [S -> T] /\ q \in Seq(S)
  BY <1>1, TokFacts
<1>3. PICK n \in Nat : n = Len(q) /\ DOMAIN q = 1..n /\ \A i \in 1..n : q[i] \in S
  BY <1>2
<1>4. PICK p : p = [i \in DOMAIN q |-> f[q[i]]]
  OBVIOUS
<1>5. p = Mapped(q, r)
  BY <1>1, <1>3, <1>4 DEF Mapped
<1>6. p \in Seq(T) /\ Len(p) = n /\ DOMAIN p = 1..n /\ \A i \in 1..n : p[i] = Tok(q[i], r)
  <2>1. p \in [1..n -> T]
    BY <1>2, <1>3, <1>4
  <2> QED BY <1>1, <1>3, <1>4, <2>1
<1>7. ASSUME q # <<>>
      PROVE  p # <<>> /\ Head(p) = Tok(Head(q), r) /\ Mapped(Tail(q), r) = Tail(p)
  <2>1. PICK u : u = [i \in DOMAIN Tail(q) |-> f[Tail(q)[i]]]
    OBVIOUS
  <2>2. u = Tail(p)
    BY <1>2, <1>4, <1>7, <2>1, TailMapped
  <2>3. Tail(q) \in Seq(S) /\ Head(q) = q[1] /\ 1 \in 1..n
    BY <1>2, <1>3, <1>7, TailFacts
  <2>4. u = Mapped(Tail(q), r)
    <3>1. \A i \in DOMAIN Tail(q) : Tail(q)[i] \in S
      BY <2>3
    <3> QED BY <1>1, <2>1, <3>1 DEF Mapped
  <2>5. p # <<>> /\ Head(p) = p[1]
    BY <1>6, <2>3
  <2> QED BY <1>6, <2>2, <2>3, <2>4, <2>5
<1>8. ASSUME NEW e \in EvtSet PROVE Mapped(Append(q, e), r) = Append(p, Tok(e, r))
  <2>1. PICK u : u = [i \in DOMAIN Append(q, e) |-> f[Append(q, e)[i]]]
    OBVIOUS
  <2>2. e \in S /\ f[e] = Tok(e, r)
    BY <1>1
  <2>3. u = Append(p, f[e])
    BY <1>2, <1>4, <2>1, <2>2, AppendMapped
  <2>4. u = Mapped(Append(q, e), r)
    <3>1. Append(q, e) \in Seq(S)
      BY <1>2, <2>2, AppendFacts
    <3>2. \A i \in DOMAIN Append(q, e) : Append(q, e)[i] \in S
      BY <3>1
    <3> QED BY <1>1, <2>1, <3>2 DEF Mapped
  <2> QED BY <2>2, <2>3, <2>4
<1> QED BY <1>1, <1>3, <1>5, <1>6, <1>7, <1>8

\* Pieces that are all empty lead nowhere.
LEMMA PiecedNothing ==
  ASSUME NEW P, NEW q \in Seq(P), NEW a \in Nat, NEW b \in Nat, NEW S, Pieced(q, a, b, S),
         \A i \in 1..Len(q) : q[i] = <<>>
  PROVE  a = b
<1>1. PICK c : Cuts(q, a, b, S, c)
  BY DEF Pieced
<1>2. PICK n \in Nat : n = Len(q) /\ \A i \in 0..n : c[i] \in Nat
  BY <1>1, CutFacts
<1>3. /\ c[0] = a /\ c[n] = b
      /\ \A i \in 1..n : i - 1 \in 0..n /\ i \in 0..n /\ c[i - 1] <= c[i] /\ q[i] = Run(c[i - 1], c[i])
  BY <1>1, <1>2 DEF Cuts
<1>4. PICK T : T = {k \in 0..n : c[k] = a}
  OBVIOUS
<1>5. 0 \in T
  BY <1>2, <1>3, <1>4
<1>6. \A k \in 1..n : k - 1 \in T => k \in T
  <2> SUFFICES ASSUME NEW k \in 1..n, k - 1 \in T PROVE k \in T
    OBVIOUS
  <2>1. PICK u \in Nat, v \in Nat : u = c[k - 1] /\ v = c[k]
    BY <1>2, <1>3
  <2>2. u <= v /\ Run(u, v) = <<>>
    BY <1>2, <1>3, <2>1
  <2>3. u = v
    BY ONLY <2>2, u \in Nat, v \in Nat, RunFacts
  <2> QED BY <1>3, <1>4, <2>1, <2>3
<1>7. n \in T
  <2>1. \A k \in 0..n : k \in T
    BY <1>5, <1>6, InductionTo
  <2> QED BY <2>1
<1> QED BY <1>3, <1>4, <1>7

\* The first event is taken.
LEMMA TrailTail ==
  ASSUME NEW q \in Seq(EvtSet), q # <<>>, NEW r, NEW y \in Nat, NEW z \in Nat, Trail(q, r, y, z)
  PROVE  \E m \in Nat : /\ y <= m /\ m <= z /\ Tok(Head(q), r) = Run(y, m)
                        /\ Trail(Tail(q), r, m, z)
                        /\ Finishes(Tail(q), r) => Finishes(q, r)
                        /\ r \in Fin(Head(q)) => m = z /\ Finishes(q, r)
<1>1. PICK p : p = Mapped(q, r)
  OBVIOUS
<1>2. p \in Seq(Seq(Nat)) /\ p # <<>> /\ Head(p) = Tok(Head(q), r) /\ Tail(p) = Mapped(Tail(q), r)
  BY <1>1, MappedFacts
<1>3. PICK m \in Nat : /\ y <= m /\ m <= z /\ Head(p) = Run(y, m) /\ Pieced(Tail(p), m, z, Nat)
  <2>1. Pieced(p, y, z, Nat)
    BY <1>1 DEF Trail
  <2> QED BY <1>2, <2>1, PiecedTail
<1>4. /\ Tail(q) \in Seq(EvtSet) /\ Head(q) = q[1] /\ 1 \in DOMAIN q
      /\ \A i \in DOMAIN Tail(q) : i + 1 \in DOMAIN q /\ i \in Nat \ {0} /\ Tail(q)[i] = q[i + 1]
  BY TailFacts
<1>5. Trail(Tail(q), r, m, z)
  <2>1. \A i, j \in DOMAIN Tail(q) : i < j => i + 1 < j + 1
    BY <1>4
  <2> QED BY <1>2, <1>3, <1>4, <2>1 DEF Trail
<1>6. Finishes(Tail(q), r) => Finishes(q, r)
  BY <1>4 DEF Finishes
<1>7. ASSUME r \in Fin(Head(q)) PROVE m = z /\ Finishes(q, r)
  <2>1. Finishes(q, r)
    BY <1>4, <1>7 DEF Finishes
  <2>2. PICK t : t = Tail(p)
    OBVIOUS
  <2>3. t \in Seq(Seq(Nat)) /\ Len(t) = Len(Tail(q)) /\ \A i \in DOMAIN Tail(q) : t[i] = Tok(Tail(q)[i], r)
    <3>1. t = Mapped(Tail(q), r) /\ Tail(q) \in Seq(EvtSet)
      BY <1>2, <1>4, <2>2
    <3> QED BY ONLY <3>1, MappedFacts
  <2>4. \A i \in DOMAIN Tail(q) : 1 < i + 1
    BY <1>4
  <2>5. \A i \in DOMAIN Tail(q) : Tok(Tail(q)[i], r) = <<>>
    BY <1>4, <1>7, <2>4 DEF Trail
  <2>6. DOMAIN Tail(q) = 1..Len(t)
    BY <1>4, <2>3
  <2>7. \A i \in 1..Len(t) : t[i] = <<>>
    BY <2>3, <2>5, <2>6
  <2>8. m = z
    BY ONLY <1>3, <2>2, <2>3, <2>7, z \in Nat, m \in Nat, PiecedNothing
  <2> QED BY <2>1, <2>8
<1> QED BY <1>2, <1>3, <1>5, <1>6, <1>7

\* An event is sent.
LEMMA TrailAppend ==
  ASSUME NEW q \in Seq(EvtSet), NEW e \in EvtSet, NEW r, NEW y \in Nat, NEW z \in Nat, NEW w \in Nat,
         Trail(q, r, y, z), z <= w, Tok(e, r) = Run(z, w), Finishes(q, r) => z = w
  PROVE  /\ Trail(Append(q, e), r, y, w)
         /\ Finishes(Append(q, e), r) => Finishes(q, r) \/ r \in Fin(e)
<1>1. PICK p : p = Mapped(q, r)
  OBVIOUS
<1>2. p \in Seq(Seq(Nat)) /\ Mapped(Append(q, e), r) = Append(p, Run(z, w))
  BY <1>1, MappedFacts
<1>3. Pieced(Append(p, Run(z, w)), y, w, Nat)
  <2>1. Pieced(p, y, z, Nat) /\ Run(z, w) \in Seq(Nat)
    BY <1>1, RunFacts DEF Trail
  <2> QED BY <1>2, <2>1, PiecedAppend
<1>4. PICK n \in Nat : n = Len(q) /\ DOMAIN q = 1..n
  OBVIOUS
<1>5. /\ DOMAIN Append(q, e) = 1..(n + 1) /\ Append(q, e)[n + 1] = e
      /\ \A i \in 1..n : Append(q, e)[i] = q[i]
  <2>1. 1..n \cup {n + 1} = 1..(n + 1)
    OBVIOUS
  <2> QED BY <1>4, <2>1, AppendFacts
<1>6. \A i \in 1..(n + 1) : i = n + 1 \/ i \in 1..n
  OBVIOUS
<1>7. Finishes(q, r) => Tok(e, r) = <<>>
  BY RunFacts
<1>8. \A i, j \in 1..(n + 1) : i < j /\ r \in Fin(Append(q, e)[i]) => Tok(Append(q, e)[j], r) = <<>>
  <2> SUFFICES ASSUME NEW i \in 1..(n + 1), NEW j \in 1..(n + 1), i < j, r \in Fin(Append(q, e)[i])
               PROVE  Tok(Append(q, e)[j], r) = <<>>
    OBVIOUS
  <2>1. i \in 1..n /\ r \in Fin(q[i])
    <3>1. i \in 1..n
      OBVIOUS
    <3> QED BY <1>5, <3>1
  <2>2. CASE j = n + 1
    BY <1>4, <1>5, <1>7, <2>1, <2>2 DEF Finishes
  <2>3. CASE j \in 1..n
    BY <1>4, <1>5, <2>1, <2>3 DEF Trail
  <2> QED BY <1>6, <2>2, <2>3
<1> QED BY <1>2, <1>3, <1>4, <1>5, <1>6, <1>8 DEF Trail, Finishes

-----------------------------------------------------------------------------
(***************************************************************************)
(* A request goes forward, and is in one place at a time.                  *)
(***************************************************************************)
LEMMA AddIs ==
  ASSUME NEW r \in Requests
  PROVE  /\ Add(r) \in CmdSet /\ \A s \in Requests : Add(r) = Add(s) => r = s
         /\ \A s : Cancel(s) # Add(r) /\ Shutdown # Add(r)
<1>1. \A s \in Requests : Add(r) = Add(s) => r = s
  <2>1. Add(r).on[1] = r /\ \A s \in Requests : Add(s).on[1] = s
    BY DEF Add
  <2> QED BY <2>1
<1>2. \A s : Cancel(s) # Add(r) /\ Shutdown # Add(r)
  <2>1. Add(r).op = "add" /\ Shutdown.op = "shutdown" /\ \A s : Cancel(s).op = "cancel"
    BY DEF Add, Cancel, Shutdown
  <2> QED BY <2>1
<1> QED BY <1>1, <1>2 DEF CmdSet

\* Commands that add nothing come, the first one is taken, a request is sent.
LEMMA AddsKept ==
  ASSUME NEW q \in Seq(CmdSet), OnceIn(q), NEW l \in Seq(CmdSet), AddsIn(l) = {}
  PROVE  OnceIn(q \o l) /\ AddsIn(q \o l) = AddsIn(q)
<1>1. PICK n \in Nat, k \in Nat : n = Len(q) /\ DOMAIN q = 1..n /\ k = Len(l) /\ DOMAIN l = 1..k
  OBVIOUS
<1>2. /\ DOMAIN (q \o l) = 1..(n + k) /\ \A i \in 1..n : (q \o l)[i] = q[i] /\ i \in 1..(n + k)
      /\ \A i \in 1..(n + k) : i \in 1..n \/ (i - n \in 1..k /\ (q \o l)[i] = l[i - n])
  BY <1>1, JoinFacts
<1>3. \A i \in 1..(n + k), r \in Requests : (q \o l)[i] = Add(r) => i \in 1..n /\ q[i] = Add(r)
  BY <1>1, <1>2 DEF AddsIn
<1>4. OnceIn(q \o l)
  BY <1>1, <1>2, <1>3 DEF OnceIn
<1>5. AddsIn(q \o l) = AddsIn(q)
  BY <1>1, <1>2, <1>3 DEF AddsIn
<1> QED BY <1>4, <1>5

LEMMA AddsTail ==
  ASSUME NEW q \in Seq(CmdSet), OnceIn(q), q # <<>>
  PROVE  /\ OnceIn(Tail(q)) /\ AddsIn(Tail(q)) \subseteq AddsIn(q)
         /\ \A r \in Requests : Head(q) = Add(r) => r \in AddsIn(q) /\ r \notin AddsIn(Tail(q))
<1>1. /\ Head(q) = q[1] /\ 1 \in DOMAIN q
      /\ \A i \in DOMAIN Tail(q) : i + 1 \in DOMAIN q /\ i \in Nat \ {0} /\ Tail(q)[i] = q[i + 1]
  BY TailFacts
<1>2. \A i, j \in DOMAIN Tail(q) : (i + 1 = j + 1 => i = j) /\ i + 1 # 1
  BY <1>1
<1>3. OnceIn(Tail(q))
  <2> SUFFICES ASSUME NEW i \in DOMAIN Tail(q), NEW j \in DOMAIN Tail(q), NEW r \in Requests,
                      Tail(q)[i] = Add(r), Tail(q)[j] = Add(r)
               PROVE  i = j
    BY DEF OnceIn
  <2>1. i + 1 = j + 1
    BY <1>1 DEF OnceIn
  <2> QED BY <1>2, <2>1
<1>4. \A r \in Requests : Head(q) = Add(r) => r \notin AddsIn(Tail(q))
  BY <1>1, <1>2 DEF AddsIn, OnceIn
<1> QED BY <1>1, <1>3, <1>4 DEF AddsIn

LEMMA AddsMore ==
  ASSUME NEW q \in Seq(CmdSet), OnceIn(q), NEW r \in Requests, r \notin AddsIn(q)
  PROVE  OnceIn(q \o <<Add(r)>>) /\ AddsIn(q \o <<Add(r)>>) = AddsIn(q) \cup {r}
<1>1. PICK a : a = Add(r)
  OBVIOUS
<1>2. a \in CmdSet /\ \A s \in Requests : a = Add(s) => s = r
  BY <1>1, AddIs
<1>3. q \o <<a>> = Append(q, a)
  BY ONLY <1>2, q \in Seq(CmdSet), ConcatOne
<1>4. PICK n \in Nat : n = Len(q) /\ DOMAIN q = 1..n
  OBVIOUS
<1>5. /\ DOMAIN Append(q, a) = 1..n \cup {n + 1} /\ n + 1 \notin 1..n /\ Append(q, a)[n + 1] = a
      /\ \A i \in 1..n : Append(q, a)[i] = q[i]
  BY <1>2, <1>4, AppendFacts
<1>6. OnceIn(Append(q, a))
  BY <1>1, <1>2, <1>4, <1>5 DEF OnceIn, AddsIn
<1>7. AddsIn(Append(q, a)) = AddsIn(q) \cup {r}
  BY <1>1, <1>2, <1>4, <1>5 DEF AddsIn
<1> QED BY <1>1, <1>3, <1>6, <1>7

\* No request comes back to an earlier place, and only one that is still to come or
\* has a session is given a token.
Fewer == \A r \in Requests : Coming(r)' => Coming(r)
Grows == \A r \in Requests : gen'[r] = gen[r] \/ (Coming(r) /\ gen'[r] = gen[r] + 1)
Forth == Order' /\ Fewer /\ Grows

\* The process is where it was, or dead.
EngineQuiet == /\ UNCHANGED <<pend, byRid, gen, sessions, out, finished>>
               /\ epc' = epc \/ epc' = "dead"

\* Some requests move on to their next place outside the process.
LEMMA OrderMoves ==
  ASSUME Order, EngineQuiet, NEW M \in SUBSET Requests, \A r \in M : Before(r) /\ Placed(r)',
         OnceAsked', OnceHeld', OnceIn(Cmds)', Unsent' \subseteq Unsent, Tasks' \subseteq Tasks \cup M,
         \A t \in Admitters : HeldBy(t)' \subseteq HeldBy(t) \cup M, Adds' \subseteq Adds \cup M
  PROVE  Forth
<1>1. UNCHANGED <<pend, byRid, gen, sessions, out, finished>> /\ (epc' = epc \/ epc' = "dead")
  BY DEF EngineQuiet
<1>2. Once'
  BY <1>1 DEF Order, Once, IsInjective
<1>3. \A r \in Requests : Before(r)' => Before(r)
  BY DEF Before
<1>4. \A r \in Requests : Placed(r)'
  <2> SUFFICES ASSUME NEW r \in Requests, r \notin M PROVE Placed(r)'
    OBVIOUS
  <2>1. Placed(r)
    BY DEF Order, Forward
  <2> QED BY <2>1 DEF Placed
<1>5. Forward'
  BY <1>1, <1>3, <1>4 DEF Order, Forward
<1>6. Produced'
  BY <1>1 DEF Order, Produced, Final
<1>7. Fewer /\ Grows
  BY <1>1, <1>3 DEF Fewer, Grows, Coming
<1> QED BY <1>2, <1>5, <1>6, <1>7 DEF Forth, Order

\* Commands that add nothing, if any, are sent.
LEMMA NoAdds ==
  ASSUME NEW list, \A i \in DOMAIN list : (\E s : list[i] = Cancel(s)) \/ list[i] = Shutdown
  PROVE  AddsIn(list) = {}
BY AddIs DEF AddsIn

LEMMA CmdsQuiet ==
  ASSUME IInv, Order, ipc' = ipc,
         \/ cmds' = cmds
         \/ \E list \in Seq(CmdSet) : Sent(list) /\ AddsIn(list) = {}
  PROVE  OnceIn(Cmds)' /\ Adds' = Adds
<1>1. Channels /\ OnceIn(Cmds)
  BY DEF IInv, EngineOK, Order, Once
<1>2. Cmds \in Seq(CmdSet)
  BY <1>1, CmdsFacts
<1>3. CASE cmds' = cmds
  <2>1. Cmds' = Cmds
    BY <1>1, <1>3, CmdsMoved
  <2> QED BY <1>1, <2>1 DEF OnceIn, Adds, AddsIn
<1>4. CASE \E list \in Seq(CmdSet) : Sent(list) /\ AddsIn(list) = {}
  <2>1. PICK list \in Seq(CmdSet) : Sent(list) /\ AddsIn(list) = {}
    BY <1>4
  <2>2. Cmds' = Cmds \/ Cmds' = Cmds \o list
    BY <1>1, <2>1, CmdsMoved
  <2>3. PICK q : q = Cmds
    OBVIOUS
  <2>4. OnceIn(q \o list) /\ AddsIn(q \o list) = AddsIn(q)
    BY <1>1, <1>2, <2>1, <2>3, AddsKept
  <2>5. OnceIn(Cmds)' /\ AddsIn(Cmds)' = AddsIn(Cmds)
    <3>1. PICK p : p = q \o list
      OBVIOUS
    <3>2. OnceIn(p) /\ OnceIn(q) /\ AddsIn(p) = AddsIn(q)
      BY <1>1, <2>3, <2>4, <3>1
    <3>3. (Cmds' = q \/ Cmds' = p) /\ Cmds = q
      BY <2>2, <2>3, <3>1
    <3> QED BY ONLY <3>2, <3>3 DEF OnceIn, AddsIn
  <2> QED BY <2>5 DEF Adds
<1> QED BY <1>3, <1>4

\* Nothing that is asked, held or sent moves on.
LEMMA OrderQuiet ==
  ASSUME IInv, Order, EngineQuiet, UNCHANGED ipc, UNCHANGED admitQ, Unsent' \subseteq Unsent,
         \A t \in Admitters : HeldBy(t)' \subseteq HeldBy(t),
         \/ cmds' = cmds
         \/ \E list \in Seq(CmdSet) : Sent(list) /\ AddsIn(list) = {}
  PROVE  Forth
<1>1. OnceIn(Cmds)' /\ Adds' = Adds
  BY CmdsQuiet
<1>2. OnceAsked' /\ Tasks' = Tasks
  BY DEF Order, Once, OnceAsked, Tasks
<1>3. OnceHeld'
  BY DEF Order, Once, OnceHeld
<1>4. PICK M \in SUBSET Requests : M = {}
  OBVIOUS
<1> QED BY <1>1, <1>2, <1>3, <1>4, OrderMoves

LEMMA OneList ==
  ASSUME NEW r \in Requests
  PROVE  /\ <<Cancel(r)>> \in Seq(CmdSet) /\ AddsIn(<<Cancel(r)>>) = {}
         /\ <<Shutdown>> \in Seq(CmdSet) /\ AddsIn(<<Shutdown>>) = {}
<1>1. PICK c, s : c = Cancel(r) /\ s = Shutdown
  OBVIOUS
<1>2. AddsIn(<<c>>) = {} /\ AddsIn(<<s>>) = {}
  <2>1. \A i \in DOMAIN <<c>> : <<c>>[i] = Cancel(r)
    BY <1>1
  <2>2. \A i \in DOMAIN <<s>> : <<s>>[i] = Shutdown
    BY <1>1
  <2> QED BY <2>1, <2>2, NoAdds
<1> QED BY <1>1, <1>2, OneCmd

LEMMA OrderClient ==
  ASSUME IInv, Order, NEW r \in Requests,
         Register(r) \/ AddRaises(r) \/ Open(r) \/ Read(r) \/ Await(r) \/ Awake(r)
           \/ EndStream(r) \/ Abandon(r) \/ LoopSets(r) \/ CancelBackend(r) \/ (Send(r) /\ ~CanSend)
  PROVE  Forth
<1>1. EngineQuiet /\ UNCHANGED ipc /\ UNCHANGED <<admitQ, adm>>
  BY DEF EngineQuiet, evars, EngineRest, queued, served, result, channels, Register, AddRaises, Open,
         Read, Await, Awake, EndStream, Abandon, Leave, LoopSets, CancelBackend, Send
<1>2. Unsent' \subseteq Unsent
  <2>1. client \in [Requests -> ClientAt]
    BY DEF IInv, ManagerOK, Clients
  <2>2. \A s \in Requests : client'[s] = client[s] \/ (s = r /\ client'[s] \notin {"idle", "adding"})
                            \/ (s = r /\ client[s] = "idle")
    BY <2>1 DEF Register, AddRaises, Open, Read, Await, Awake, EndStream, Abandon, Leave, LoopSets,
                CancelBackend, Send, clients
  <2> QED BY <2>2 DEF Unsent
<1>3. \A t \in Admitters : HeldBy(t)' \subseteq HeldBy(t)
  BY <1>1 DEF HeldBy
<1>4. cmds' = cmds \/ \E list \in Seq(CmdSet) : Sent(list) /\ AddsIn(list) = {}
  <2>1. CASE CancelBackend(r)
    BY <2>1, OneList DEF CancelBackend
  <2> QED BY <2>1 DEF evars, Register, AddRaises, Open, Read, Await, Awake, EndStream, Abandon, Leave,
                      LoopSets, Send
<1> QED BY <1>1, <1>2, <1>3, <1>4, OrderQuiet

LEMMA OrderSubmit ==
  ASSUME IInv, Order, NEW r \in Requests, Submit(r)
  PROVE  Forth
<1>1. EngineQuiet /\ UNCHANGED <<ipc, cmds, adm>>
  BY DEF EngineQuiet, evars, queued, served, result, channels, Submit
<1>2. OnceIn(Cmds)' /\ Adds' = Adds
  BY <1>1, CmdsQuiet
<1>3. r \in Unsent /\ Unsent' = Unsent \ {r}
  BY DEF Submit, Unsent, IInv, ManagerOK, Clients
<1>4. Placed(r) /\ Before(r)
  BY <1>3 DEF Order, Forward, Before
<1>5. r \notin Tasks
  BY <1>3, <1>4 DEF Placed
<1>6. PICK S, q : S = Requests \cup {Poison} /\ q = admitQ
  OBVIOUS
<1>7. q \in Seq(S) /\ r \in S /\ admitQ' = Append(q, r)
  BY <1>6 DEF Submit, IInv, ManagerOK, Admission
<1>8. PICK n \in Nat : n = Len(q) /\ DOMAIN q = 1..n
  BY <1>7
<1>9. /\ DOMAIN admitQ' = 1..n \cup {n + 1} /\ n + 1 \notin 1..n /\ admitQ'[n + 1] = r
      /\ \A i \in 1..n : admitQ'[i] = admitQ[i]
      /\ Range(admitQ') = Range(admitQ) \cup {r}
  BY ONLY <1>6, <1>7, <1>8, AppendFacts
<1>10. Tasks' \subseteq Tasks \cup {r}
  BY <1>9 DEF Tasks
<1>11. OnceAsked'
  <2>1. \A i \in 1..n : admitQ[i] = r => r = Poison
    BY <1>5, <1>6, <1>7, <1>8, SeqFacts DEF Tasks
  <2>2. \A i, j \in 1..n : admitQ[i] = admitQ[j] /\ admitQ[i] # Poison => i = j
    BY <1>6, <1>8 DEF Order, Once, OnceAsked
  <2> QED BY <1>9, <2>1, <2>2 DEF OnceAsked
<1>12. OnceHeld' /\ \A t \in Admitters : HeldBy(t)' = HeldBy(t)
  BY <1>1 DEF Order, Once, OnceHeld, HeldBy
<1>13. Placed(r)'
  BY <1>2, <1>3, <1>4, <1>12 DEF Placed
<1>14. PICK M \in SUBSET Requests : M = {r}
  OBVIOUS
<1> QED BY <1>1, <1>2, <1>3, <1>4, <1>10, <1>11, <1>12, <1>13, <1>14, OrderMoves

\* A request is sent.
LEMMA OneMore ==
  ASSUME IInv, Order, ipc' = ipc, NEW r \in Requests, r \notin Adds, Sent(<<Add(r)>>)
  PROVE  OnceIn(Cmds)' /\ Adds' \subseteq Adds \cup {r}
<1>1. Channels /\ OnceIn(Cmds)
  BY DEF IInv, EngineOK, Order, Once
<1>2. PICK q, p : q = Cmds /\ p = q \o <<Add(r)>>
  OBVIOUS
<1>3. q \in Seq(CmdSet)
  BY <1>1, <1>2, CmdsFacts
<1>4. OnceIn(p) /\ AddsIn(p) = AddsIn(q) \cup {r}
  BY <1>1, <1>2, <1>3, AddsMore DEF Adds
<1>5. Cmds' = q \/ Cmds' = p
  BY <1>1, <1>2, OneCmd, CmdsMoved
<1>6. OnceIn(q)
  BY <1>1, <1>2
<1>7. OnceIn(Cmds)' /\ AddsIn(Cmds)' \subseteq AddsIn(q) \cup {r}
  BY ONLY <1>4, <1>5, <1>6 DEF OnceIn, AddsIn
<1> QED BY <1>2, <1>7 DEF Adds

LEMMA OrderSend ==
  ASSUME IInv, Order, NEW r \in Requests, Send(r), CanSend
  PROVE  Forth
<1>1. EngineQuiet /\ UNCHANGED <<ipc, adm, admitQ>> /\ Sent(<<Add(r)>>)
  BY DEF EngineQuiet, EngineRest, queued, served, result, Send
<1>2. r \in Unsent /\ Unsent' = Unsent \ {r}
  BY DEF Send, Unsent, IInv, ManagerOK, Clients
<1>3. Placed(r) /\ Before(r)
  BY <1>2 DEF Order, Forward, Before
<1>4. r \notin Adds /\ r \notin Tasks /\ \A t \in Admitters : r \notin HeldBy(t)
  BY <1>2, <1>3 DEF Placed
<1>5. OnceIn(Cmds)' /\ Adds' \subseteq Adds \cup {r}
  BY <1>1, <1>4, OneMore
<1>6. OnceAsked' /\ OnceHeld' /\ Tasks' = Tasks /\ \A t \in Admitters : HeldBy(t)' = HeldBy(t)
  BY <1>1 DEF Order, Once, OnceHeld, HeldBy, OnceAsked, Tasks
<1>7. Placed(r)'
  BY <1>2, <1>4, <1>6 DEF Placed
<1>8. PICK M \in SUBSET Requests : M = {r}
  OBVIOUS
<1> QED BY <1>1, <1>2, <1>3, <1>5, <1>6, <1>7, <1>8, OrderMoves

\* An admit thread takes a request over, gives it up, or sends it.
LEMMA OrderTakes ==
  ASSUME IInv, Order, NEW t \in Admitters, TakeTask(t)
  PROVE  Forth
<1>1. EngineQuiet /\ UNCHANGED <<ipc, cmds, client>>
  BY DEF EngineQuiet, evars, queued, served, result, channels, clients, TakeTask
<1>2. OnceIn(Cmds)' /\ Adds' = Adds /\ Unsent' = Unsent
  BY <1>1, CmdsQuiet DEF Unsent
<1>3. PICK S, q : S = Requests \cup {Poison} /\ q = admitQ
  OBVIOUS
<1>4. q \in Seq(S) /\ q # <<>> /\ admitQ' = Tail(q)
  BY <1>3 DEF TakeTask, IInv, ManagerOK, Admission
<1>5. PICK h : h = Head(q)
  OBVIOUS
<1>6. /\ h \in S /\ h = q[1] /\ 1 \in DOMAIN q
      /\ \A i \in DOMAIN admitQ' : i + 1 \in DOMAIN q /\ i \in Nat \ {0} /\ admitQ'[i] = q[i + 1]
  BY <1>4, <1>5, TailFacts
<1>7. \A i, j \in DOMAIN admitQ' : (i + 1 = j + 1 => i = j) /\ i + 1 # 1
  BY <1>6
<1>8. \A i, j \in DOMAIN q : q[i] = q[j] /\ q[i] # Poison => i = j
  BY <1>3 DEF Order, Once, OnceAsked
<1>9. OnceAsked' /\ \A i \in DOMAIN admitQ' : admitQ'[i] = h => h = Poison
  BY <1>6, <1>7, <1>8 DEF OnceAsked
<1>10. Tasks' \subseteq Tasks /\ h \notin Tasks' /\ (h \in Requests /\ h # Poison => h \in Tasks)
  <2>1. \A e \in Range(admitQ') : \E i \in DOMAIN admitQ' : admitQ'[i] = e
    BY DEF Range
  <2>2. \A i \in DOMAIN q : q[i] \in Range(admitQ)
    BY <1>3 DEF Range
  <2> QED BY <1>6, <1>9, <2>1, <2>2 DEF Tasks
<1>11. adm \in [Admitters -> [at : AdmitAt, on : SUBSET Requests]]
  BY DEF IInv, ManagerOK, Admission
<1>12. \A u \in Admitters : u # t => HeldBy(u)' = HeldBy(u)
  BY <1>11 DEF HeldBy, TakeTask
<1>13. CASE h = Poison \/ ~(running /\ h \in queues)
  <2>1. adm'[t].at \in {"dead", "idle"}
    BY <1>3, <1>5, <1>11, <1>13 DEF TakeTask, Free
  <2>2. HeldBy(t)' = {}
    BY <2>1 DEF HeldBy
  <2>3. \A u \in Admitters : HeldBy(u)' \subseteq HeldBy(u)
    BY <1>12, <2>2
  <2>4. OnceHeld'
    BY <2>3 DEF Order, Once, OnceHeld
  <2>5. PICK M \in SUBSET Requests : M = {}
    OBVIOUS
  <2> QED BY <1>1, <1>2, <1>9, <1>10, <2>3, <2>4, <2>5, OrderMoves
<1>14. CASE ~(h = Poison \/ ~(running /\ h \in queues))
  <2>1. adm'[t] = [at |-> "encode", on |-> {h}]
    BY <1>3, <1>5, <1>11, <1>14 DEF TakeTask
  <2>2. HeldBy(t)' = {h}
    BY <2>1 DEF HeldBy
  <2>3. h \in Requests /\ h \in Tasks
    BY <1>3, <1>6, <1>10, <1>14
  <2>4. Placed(h) /\ Before(h)
    BY <2>3 DEF Order, Forward, Before
  <2>5. h \notin Unsent /\ h \notin Adds /\ \A u \in Admitters : h \notin HeldBy(u)
    BY <2>3, <2>4 DEF Placed
  <2>6. OnceHeld'
    BY <1>12, <2>2, <2>5 DEF Order, Once, OnceHeld
  <2>7. Placed(h)'
    BY <1>2, <1>10, <2>5 DEF Placed
  <2>8. \A u \in Admitters : HeldBy(u)' \subseteq HeldBy(u) \cup {h}
    BY <1>12, <2>2
  <2>9. PICK M \in SUBSET Requests : M = {h}
    BY <2>3
  <2> QED BY <1>1, <1>2, <1>9, <1>10, <2>4, <2>6, <2>7, <2>8, <2>9, OrderMoves
<1> QED BY <1>13, <1>14

LEMMA OrderGivesUp ==
  ASSUME IInv, Order, NEW t \in Admitters, LookAgain(t) \/ AdmitRaises(t) \/ AdmitForgets(t)
  PROVE  Forth
<1>1. EngineQuiet /\ UNCHANGED <<ipc, client, admitQ>>
  BY DEF EngineQuiet, evars, EngineRest, queued, served, result, channels, clients, LookAgain,
         AdmitRaises, AdmitForgets
<1>2. adm \in [Admitters -> [at : AdmitAt, on : SUBSET Requests]]
  BY DEF IInv, ManagerOK, Admission
<1>3. \A u \in Admitters : HeldBy(u)' \subseteq HeldBy(u)
  <2>1. \A u \in Admitters : u # t => HeldBy(u)' = HeldBy(u)
    BY <1>2 DEF HeldBy, LookAgain, AdmitRaises, AdmitForgets
  <2>2. HeldBy(t)' \subseteq HeldBy(t)
    BY <1>2 DEF HeldBy, LookAgain, AdmitRaises, AdmitForgets, Free
  <2> QED BY <2>1, <2>2
<1>4. cmds' = cmds \/ \E list \in Seq(CmdSet) : Sent(list) /\ AddsIn(list) = {}
  <2>1. CASE AdmitRaises(t)
    <3>1. PICK r \in adm[t].on : Sent(<<Cancel(r)>>)
      BY <2>1 DEF AdmitRaises
    <3>2. r \in Requests
      BY <1>2
    <3> QED BY <3>1, <3>2, OneList
  <2> QED BY <2>1 DEF LookAgain, AdmitForgets, evars
<1> QED BY <1>1, <1>3, <1>4, OrderQuiet DEF Unsent

LEMMA OrderAdmits ==
  ASSUME IInv, Order, NEW t \in Admitters, AdmitSends(t)
  PROVE  Forth
<1>1. EngineQuiet /\ UNCHANGED <<ipc, client, admitQ>>
  BY DEF EngineQuiet, EngineRest, queued, served, result, clients, AdmitSends
<1>2. adm \in [Admitters -> [at : AdmitAt, on : SUBSET Requests]]
  BY DEF IInv, ManagerOK, Admission
<1>3. PICK r \in adm[t].on : Sent(<<Add(r)>>)
  BY DEF AdmitSends
<1>4. r \in Requests /\ r \in HeldBy(t)
  BY <1>2 DEF HeldBy, AdmitSends
<1>5. Placed(r) /\ Before(r)
  BY <1>4 DEF Order, Forward, Before
<1>6. r \notin Unsent /\ r \notin Tasks /\ r \notin Adds
  BY <1>4, <1>5 DEF Placed
<1>7. OnceIn(Cmds)' /\ Adds' \subseteq Adds \cup {r}
  BY <1>1, <1>3, <1>4, <1>6, OneMore
<1>8. HeldBy(t)' = {} /\ \A u \in Admitters : u # t => HeldBy(u)' = HeldBy(u)
  BY <1>2 DEF HeldBy, AdmitSends, Free
<1>9. OnceHeld' /\ OnceAsked' /\ Tasks' = Tasks /\ Unsent' = Unsent
  BY <1>1, <1>8 DEF Order, Once, OnceHeld, OnceAsked, Tasks, Unsent
<1>10. \A u \in Admitters : r \notin HeldBy(u)' /\ HeldBy(u)' \subseteq HeldBy(u)
  BY <1>4, <1>8 DEF Order, Once, OnceHeld
<1>11. Placed(r)'
  BY <1>6, <1>9, <1>10 DEF Placed
<1>12. PICK M \in SUBSET Requests : M = {r}
  BY <1>4
<1> QED BY <1>1, <1>5, <1>7, <1>9, <1>10, <1>11, <1>12, OrderMoves

\* The event loop and close.
LEMMA LostCmds ==
  ASSUME NEW e \in EvtSet \ {Error}, NEW found, NEW list,
         list = [i \in DOMAIN Unknown(e, found) |-> Cancel(Unknown(e, found)[i].rid)]
  PROVE  list \in Seq(CmdSet) /\ AddsIn(list) = {}
<1>1. PICK lost : lost = Unknown(e, found)
  OBVIOUS
<1>2. list = [i \in DOMAIN lost |-> Cancel(lost[i].rid)]
  BY <1>1
<1>3. list \in Seq(CmdSet)
    <3>1. PICK S : e.toks \in Seq(S) /\ \A x \in S : x.rid \in Requests
      <4>1. CASE \E toks \in Seq(PairSet), fin \in SUBSET Requests : e = Pairs(toks, fin)
        <5>1. PICK S : S = PairSet
          OBVIOUS
        <5>2. \A x \in S : x.rid \in Requests
          BY <5>1 DEF PairSet
        <5>3. e.toks \in Seq(S)
          BY <4>1, <5>1 DEF Pairs
        <5> QED BY <5>2, <5>3
      <4>2. CASE \E lists \in Seq(ListSet), fin \in SUBSET Requests : e = Tokens(lists, fin)
        <5>1. PICK S : S = ListSet
          OBVIOUS
        <5>2. \A x \in S : x.rid \in Requests
          BY <5>1 DEF ListSet
        <5>3. e.toks \in Seq(S)
          BY <4>2, <5>1 DEF Tokens
        <5> QED BY <5>2, <5>3
      <4> QED BY <4>1, <4>2 DEF EvtSet
    <3>2. PICK q, I : q = e.toks /\ I = {i \in DOMAIN e.toks : e.toks[i].rid \notin found}
      OBVIOUS
    <3>3. q \in Seq(S) /\ I \subseteq DOMAIN q
      BY <3>1, <3>2
    <3>4. EntriesAt(q, I) \in Seq(S)
      BY ONLY <3>3, EntriesFacts
    <3>5. lost \in Seq(S)
      BY <1>1, <3>2, <3>4 DEF Unknown
    <3>6. PICK n \in Nat : DOMAIN lost = 1..n /\ \A i \in 1..n : lost[i] \in S
      BY <3>5
    <3>7. \A i \in 1..n : Cancel(lost[i].rid) \in CmdSet
      BY <3>1, <3>6 DEF CmdSet
    <3>8. list \in [1..n -> CmdSet]
      BY <1>2, <3>6, <3>7
    <3> QED BY <3>8
<1>4. AddsIn(list) = {}
  <2>1. \A i \in DOMAIN list : \E s : list[i] = Cancel(s)
    BY <1>2
  <2> QED BY <2>1, NoAdds
<1> QED BY <1>3, <1>4

LEMMA OrderLoop ==
  ASSUME IInv, Order, Loop \/ CloseLocked \/ CloseTells \/ CloseJoins
  PROVE  Forth
<1>1. EngineQuiet /\ UNCHANGED <<ipc, client, admitQ, adm>>
  BY DEF EngineQuiet, evars, EngineRest, queued, served, result, channels, clients, Loop,
         Receive, Deliver, Notify, HangUp, CloseLocked, CloseTells, CloseJoins
<1>2. Unsent' = Unsent /\ \A t \in Admitters : HeldBy(t)' = HeldBy(t)
  BY <1>1 DEF Unsent, HeldBy
<1>3. cmds' = cmds \/ \E list \in Seq(CmdSet) : Sent(list) /\ AddsIn(list) = {}
  <2>1. CASE Deliver
    <3>1. PICK e : /\ e \in event
                   /\ Sent([i \in DOMAIN Unknown(e, seen) |-> Cancel(Unknown(e, seen)[i].rid)])
      BY <2>1 DEF Deliver
    <3>2. e \in EvtSet \ {Error}
      BY <3>1 DEF IInv, ManagerOK, Delivery
    <3> QED BY <3>1, <3>2, LostCmds
  <2>2. CASE CloseTells
    <3>1. <<Shutdown>> \in Seq(CmdSet) /\ AddsIn(<<Shutdown>>) = {}
      <4>1. PICK s \in CmdSet : s = Shutdown
        BY DEF CmdSet
      <4>2. \A i \in DOMAIN <<s>> : <<s>>[i] = Shutdown
        BY <4>1
      <4> QED BY <4>1, <4>2, NoAdds
    <3> QED BY <2>2, <3>1 DEF CloseTells
  <2> QED BY <2>1, <2>2 DEF Loop, Receive, Notify, HangUp, CloseLocked, CloseJoins, evars
<1> QED BY <1>1, <1>2, <1>3, OrderQuiet

\* close puts Poison for every thread behind the requests.
LEMMA OrderClose ==
  ASSUME IInv, Order, Close
  PROVE  Forth
<1>1. EngineQuiet /\ UNCHANGED <<ipc, cmds, client, adm>>
  BY DEF EngineQuiet, evars, queued, served, result, channels, clients, Close
<1>2. OnceIn(Cmds)' /\ Adds' = Adds /\ Unsent' = Unsent /\ \A t \in Admitters : HeldBy(t)' = HeldBy(t)
  BY <1>1, CmdsQuiet DEF Unsent, HeldBy
<1>3. PICK S, q, k : S = Requests \cup {Poison} /\ q = admitQ /\ k = Cardinality(Admitters)
  OBVIOUS
<1>4. PICK p : p = [i \in 1..k |-> Poison]
  OBVIOUS
<1>5. k \in Nat /\ q \in Seq(S) /\ admitQ' = q \o p
  BY <1>3, <1>4, ManagerAssumption, FS_CardinalityType DEF IInv, ManagerOK, Admission, Close
<1>6. p \in [1..k -> S]
  BY <1>3, <1>4
<1>7. p \in Seq(S) /\ Len(p) = k
  BY <1>5, <1>6, FunSeq
<1>8. PICK n : n = Len(q)
  OBVIOUS
<1>9. /\ n \in Nat /\ DOMAIN admitQ' = 1..(n + k)
      /\ \A i \in 1..n : admitQ'[i] = q[i]
      /\ \A i \in 1..(n + k) : i \in 1..n \/ admitQ'[i] = Poison
  BY <1>4, <1>5, <1>7, <1>8, JoinFacts
<1>10. DOMAIN q = 1..n
  BY <1>5, <1>8
<1>11. OnceAsked'
  <2>1. \A i, j \in 1..n : q[i] = q[j] /\ q[i] # Poison => i = j
    BY <1>3, <1>10 DEF Order, Once, OnceAsked
  <2> QED BY <1>9, <2>1 DEF OnceAsked
<1>12. Tasks' \subseteq Tasks
  <2>1. \A e \in Range(admitQ') : e = Poison \/ e \in Range(admitQ)
    BY <1>3, <1>9, <1>10 DEF Range
  <2> QED BY <2>1 DEF Tasks
<1>13. OnceHeld'
  BY <1>1 DEF Order, Once, OnceHeld, HeldBy
<1>14. PICK M \in SUBSET Requests : M = {}
  OBVIOUS
<1> QED BY <1>1, <1>2, <1>11, <1>12, <1>13, <1>14, OrderMoves
-----------------------------------------------------------------------------
\* The process takes a command.
LEMMA OrderHandles ==
  ASSUME IInv, Order, cmds # <<>>, Handle(Command), epc \in {"top", "drain"}, UNCHANGED mvars
  PROVE  Forth
<1>1. UNCHANGED <<ipc, out, finished, client, admitQ, adm>> /\ cmds' = Tail(cmds)
  BY DEF Handle, channels, result, mvars, clients
<1>2. Channels /\ Queued /\ Served
  BY DEF IInv, EngineOK
<1>3. PICK q : q = Cmds /\ q \in Seq(CmdSet) /\ q # <<>> /\ Command = Head(q)
  BY <1>2, CmdsFacts
<1>4. Cmds' = Tail(q)
  BY <1>1, <1>2, <1>3, CmdsMoved
<1>5. /\ OnceIn(Tail(q)) /\ AddsIn(Tail(q)) \subseteq AddsIn(q)
      /\ \A r \in Requests : Command = Add(r) => r \in AddsIn(q) /\ r \notin AddsIn(Tail(q))
  BY <1>3, AddsTail DEF Order, Once
<1>6. /\ OnceIn(Cmds)' /\ Adds' \subseteq Adds
      /\ \A r \in Requests : Command = Add(r) => r \in Adds /\ r \notin Adds'
  <2>1. PICK p : p = Tail(q)
    OBVIOUS
  <2>2. OnceIn(Cmds)' /\ Adds' = AddsIn(p)
    <3>1. OnceIn(p) /\ Cmds' = p
      BY <1>4, <1>5, <2>1
    <3>2. OnceIn(Cmds)' /\ AddsIn(Cmds)' = AddsIn(p)
      BY ONLY <3>1 DEF OnceIn, AddsIn
    <3> QED BY <3>2 DEF Adds
  <2>3. Adds = AddsIn(q)
    BY <1>3 DEF Adds
  <2> QED BY <1>5, <2>1, <2>2, <2>3
<1>7. /\ Unsent' = Unsent /\ Tasks' = Tasks /\ \A t \in Admitters : HeldBy(t)' = HeldBy(t)
      /\ OnceAsked' /\ OnceHeld'
  BY <1>1 DEF Unsent, Tasks, HeldBy, Order, Once, OnceAsked, OnceHeld
<1>8. \A r \in Requests : Placed(r)' /\ (Before(r)' => Before(r))
  BY <1>6, <1>7 DEF Order, Forward, Placed, Before
<1>10. out = <<>> /\ finished = {}
  BY DEF Order, Produced
<1>11. CASE \E r \in Requests : Command = Add(r) /\ Enqueued(Add(r))
  <2>1. PICK r \in Requests : Command = Add(r) /\ Enqueued(Add(r))
    BY <1>11
  <2>2. pend' = Append(pend, r) /\ byRid' = byRid \cup {r} /\ UNCHANGED <<gen, sessions>>
    BY <1>2, <2>1, EnqueuedOK DEF Enqueued, served
  <2>3. r \in Adds /\ r \notin Adds'
    BY <1>6, <2>1
  <2>4. Before(r) /\ Placed(r)
    BY <2>3 DEF Before, Order, Forward
  <2>5. r \notin Range(pend) /\ gen[r] = 0
    BY <2>4 DEF Order, Forward
  <2>6. pend \in Seq(Requests) /\ IsInjective(pend)
    BY <1>2 DEF Queued, Order, Once
  <2>7. PICK p : p = Append(pend, r)
    OBVIOUS
  <2>8. IsInjective(p) /\ Range(p) = Range(pend) \cup {r}
    BY <2>5, <2>6, <2>7, AppendQueue
  <2>9. ~Before(r)'
    BY <1>7, <2>3, <2>4 DEF Before, Placed
  <2>10. Once'
    <3>1. IsInjective(pend)'
      BY <2>2, <2>7, <2>8 DEF IsInjective
    <3> QED BY <1>6, <1>7, <3>1 DEF Once
  <2>11. Forward'
    <3>1. Range(pend)' = Range(pend) \cup {r}
      BY <2>2, <2>7, <2>8 DEF Range
    <3> QED BY <1>8, <2>2, <2>5, <2>9, <3>1 DEF Forward, Order
  <2>12. Produced'
    BY <1>1, <1>10 DEF Produced
  <2>13. Fewer /\ Grows
    BY <1>8, <2>2, <2>4 DEF Fewer, Grows, Coming
  <2> QED BY <2>10, <2>11, <2>12, <2>13 DEF Forth, Order
<1>12. CASE /\ pend' = pend /\ byRid' \subseteq byRid /\ gen' = gen /\ sessions' \subseteq sessions
  <2>1. Once'
    BY <1>6, <1>7, <1>12 DEF Once, Order, IsInjective
  <2>2. Forward'
    BY <1>8, <1>12 DEF Forward, Order
  <2>3. Produced'
    BY <1>1, <1>10 DEF Produced
  <2>4. Fewer /\ Grows
    BY <1>8, <1>12 DEF Fewer, Grows, Coming
  <2> QED BY <2>1, <2>2, <2>3, <2>4 DEF Forth, Order
<1> QED
  <2>1. Command \in CmdSet
    BY <1>2, CommandFacts
  <2>2. PICK c : c = Command
    OBVIOUS
  <2>3. \/ c.op = "add" /\ \E r \in Requests : c = Add(r)
        \/ c.op = "cancel" /\ \E r \in Requests : c = Cancel(r)
        \/ c.op = "shutdown" /\ c = Shutdown
    BY <2>1, <2>2, CmdCases
  <2>4. \/ c.op \in {"add", "add_batch"} /\ Enqueued(c)
        \/ c.op = "cancel" /\ Canceled(Head(c.on))
        \/ c.op \in {"start", "stop"}
        \/ c.op = "shutdown" /\ UNCHANGED <<queued, served>>
    BY <2>2 DEF Handle
  <2> QED BY <1>11, <1>12, <2>2, <2>3, <2>4 DEF Canceled, queued, served

\* The process admits what waits.
LEMMA OrderAdmit ==
  ASSUME IInv, Order, Admit, UNCHANGED mvars
  PROVE  Forth
<1>1. AdmitLimit \in Nat /\ Queued
  <2>1. IsFiniteSet(sessions) /\ active = sessions /\ Cardinality(sessions) <= KVConc
    BY FS_Subset, MessagesAssumption DEF IInv, EngineOK, Served
  <2> QED BY <2>1, LimitFacts DEF IInv, EngineOK
<1>2. PICK b, fin : Admitted(b, fin)
  BY AdmitShape
<1>3. /\ b = Taken /\ b \in Seq(Requests) /\ Range(b) \subseteq byRid /\ Range(b) \subseteq Requests
      /\ Range(Rest) \subseteq Range(pend) /\ Range(b) \subseteq Range(pend)
  BY <1>1, <1>2, TakenFacts DEF Admitted
<1>4. /\ fin \subseteq Range(b)
      /\ gen' = [r \in Requests |-> IF r \in Range(b) THEN 1 ELSE gen[r]]
      /\ sessions' = sessions \cup (Range(b) \ fin)
      /\ byRid' = byRid \ Range(b)
      /\ out' = [i \in DOMAIN b |-> [rid |-> b[i], tok |-> 1]]
      /\ finished' = fin
  BY <1>2 DEF Admitted
<1>5. pend' = Rest /\ epc' = "step" /\ UNCHANGED <<ipc, cmds, client, admitQ, adm>>
  BY <1>2 DEF Admitted, channels, mvars, clients
<1>6. IsInjective(b) /\ IsInjective(Rest)
  <2>1. pend \in Seq(Requests) /\ IsInjective(pend)
    BY <1>1 DEF Queued, Order, Once
  <2>2. PICK p \in 0..Len(pend) : Popped = 1..p /\ Cardinality(Popped) = p
    BY <1>1, <2>1, PoppedFacts
  <2>3. IsInjective(Rest)
    BY <2>1, <2>2, Suffix DEF Rest
  <2>4. PICK n, I : n = Len(pend) /\ I = Live \cap Popped
    OBVIOUS
  <2>5. n \in Nat /\ DOMAIN pend = 1..n /\ I \subseteq 1..n /\ b = EntriesAt(pend, I)
    BY <1>1, <1>3, <2>1, <2>4, PoppedFacts DEF Taken
  <2>6. /\ DOMAIN b = 1..Cardinality(I) /\ Cardinality(I) \in Nat
        /\ \A k \in 1..Cardinality(I) : b[k] = pend[Position(I, k)] /\ Position(I, k) \in 1..n
    <3>1. PICK S, q : S = Requests /\ q = pend
      OBVIOUS
    <3>2. q \in Seq(S) /\ I \subseteq DOMAIN q
      BY <2>1, <2>5, <3>1
    <3>3. /\ DOMAIN EntriesAt(q, I) = 1..Cardinality(I) /\ Cardinality(I) \in Nat
          /\ \A k \in 1..Cardinality(I) :
               EntriesAt(q, I)[k] = q[Position(I, k)] /\ Position(I, k) \in I
      BY ONLY <3>2, EntriesFacts
    <3> QED BY <2>5, <3>1, <3>3
  <2>7. \A k, l \in 1..Cardinality(I) : k < l => Position(I, k) < Position(I, l)
    BY <2>5, PositionFacts
  <2>8. \A k, l \in 1..Cardinality(I) : Position(I, k) = Position(I, l) => k = l
    BY <2>6, <2>7
  <2>9. IsInjective(b)
    BY <2>1, <2>5, <2>6, <2>8 DEF IsInjective
  <2> QED BY <2>3, <2>9
<1>7. /\ \A r \in Range(b) : gen[r] = 0 /\ r \notin sessions /\ gen'[r] = 1 /\ r \in Requests
      /\ \A r \in Requests : r \notin Range(b) => gen'[r] = gen[r]
  BY <1>3, <1>4 DEF Order, Forward, IInv, EngineOK, Served
<1>8. /\ OnceIn(Cmds)' /\ Adds' = Adds
      /\ Unsent' = Unsent /\ Tasks' = Tasks /\ \A t \in Admitters : HeldBy(t)' = HeldBy(t)
      /\ OnceAsked' /\ OnceHeld'
  BY <1>5, CmdsQuiet DEF Unsent, Tasks, HeldBy, Order, Once, OnceAsked, OnceHeld
<1>9. \A r \in Requests : Placed(r)' /\ (Before(r)' <=> Before(r))
  BY <1>8 DEF Order, Forward, Placed, Before
<1>10. Once'
  <2>1. IsInjective(pend)'
    BY <1>5, <1>6 DEF IsInjective
  <2> QED BY <1>8, <2>1 DEF Once
<1>11. Forward'
  <2>1. Range(pend)' \subseteq Range(pend)
    <3>1. PICK p : p = Rest
      OBVIOUS
    <3>2. Range(pend)' = Range(p)
      BY <1>5, <3>1 DEF Range
    <3> QED BY <1>3, <3>1, <3>2
  <2>2. \A r \in Requests : Before(r) => r \notin Range(b) /\ gen'[r] = 0
    BY <1>3, <1>7 DEF Order, Forward
  <2>3. \A r \in Requests : r \in byRid' => gen'[r] = 0
    BY <1>4, <1>7 DEF Order, Forward
  <2>4. \A r \in Requests : Before(r)' => r \notin Range(pend)' /\ gen'[r] = 0
    BY <1>9, <2>1, <2>2 DEF Order, Forward
  <2> QED BY <1>9, <2>3, <2>4 DEF Forward
<1>12. Produced'
  <2>1. DOMAIN out' = DOMAIN b /\ \A i \in DOMAIN b : /\ out'[i].rid = b[i] /\ out'[i].tok = 1
                                                      /\ b[i] \in Range(b)
    BY <1>4 DEF Range
  <2>2. \A i \in DOMAIN out' : out'[i].tok = 1 /\ gen'[out'[i].rid] = 1
    BY <1>7, <2>1
  <2>3. \A i, j \in DOMAIN out' : out'[i].rid = out'[j].rid => i = j
    BY <1>6, <2>1 DEF IsInjective
  <2>4. finished' \subseteq Final'
    BY <1>4, <1>7 DEF Final
  <2> QED BY <1>5, <2>2, <2>3, <2>4 DEF Produced
<1>13. Fewer
  BY <1>3, <1>4, <1>9 DEF Fewer, Coming
<1>14. Grows
  BY <1>3, <1>7 DEF Grows, Coming
<1> QED BY <1>10, <1>11, <1>12, <1>13, <1>14 DEF Forth, Order

\* The process makes tokens.
LEMMA OrderStep ==
  ASSUME IInv, Order, NEW chosen, NEW fin, Stepped(chosen, fin), UNCHANGED mvars
  PROVE  Forth
<1>1. /\ chosen \subseteq sessions /\ fin \subseteq chosen
      /\ gen' = [r \in Requests |-> IF r \in chosen THEN gen[r] + 1 ELSE gen[r]]
      /\ sessions' = sessions \ fin /\ out' = <<>> /\ finished' = {}
      /\ UNCHANGED <<ipc, cmds, pend, byRid, client, admitQ, adm>>
  BY DEF Stepped, channels, queued, mvars, clients
<1>2. /\ OnceIn(Cmds)' /\ Adds' = Adds
      /\ Unsent' = Unsent /\ Tasks' = Tasks /\ \A t \in Admitters : HeldBy(t)' = HeldBy(t)
      /\ OnceAsked' /\ OnceHeld'
  BY <1>1, CmdsQuiet DEF Unsent, Tasks, HeldBy, Order, Once, OnceAsked, OnceHeld
<1>3. \A r \in Requests : Placed(r)' /\ (Before(r)' <=> Before(r))
  BY <1>2 DEF Order, Forward, Placed, Before
<1>4. \A r \in sessions : r \in Requests /\ gen[r] # 0
  BY DEF IInv, EngineOK, Served
<1>5. Once'
  BY <1>1, <1>2 DEF Once, Order, IsInjective
<1>6. \A r \in Requests : gen[r] = 0 => gen'[r] = 0
  BY <1>1, <1>4
<1>7. Forward'
  BY <1>1, <1>3, <1>6 DEF Forward, Order
<1>8. Produced'
  BY <1>1 DEF Produced
<1>9. Fewer /\ Grows
  BY <1>1, <1>3 DEF Fewer, Grows, Coming
<1> QED BY <1>5, <1>7, <1>8, <1>9 DEF Forth, Order

LEMMA OrderProcess ==
  ASSUME IInv, Order, Process
  PROVE  Forth
<1>1. CASE GetBlocking
  BY <1>1, OrderHandles DEF GetBlocking, Process
<1>2. CASE DrainOne
  BY <1>2, OrderHandles DEF DrainOne, Process
<1>3. CASE Admit
  BY <1>3, OrderAdmit DEF Process
<1>4. CASE Step
  <2>1. PICK chosen, fin : Stepped(chosen, fin)
    BY <1>4, StepShape DEF IInv, EngineOK, Channels
  <2> QED BY <2>1, OrderStep DEF Process
<1>5. CASE EngineRaises \/ Dies
  <2>1. EngineQuiet /\ UNCHANGED <<ipc, cmds, client, admitQ, adm>>
    BY <1>5 DEF EngineRaises, Dies, EngineQuiet, channels, queued, served, result, Process, mvars, clients
  <2>2. Unsent' \subseteq Unsent /\ \A t \in Admitters : HeldBy(t)' \subseteq HeldBy(t)
    BY <2>1 DEF Unsent, HeldBy
  <2> QED BY <2>1, <2>2, OrderQuiet
<1> QED BY <1>1, <1>2, <1>3, <1>4, <1>5 DEF Process, Engine

LEMMA OrderKept == ASSUME IInv, Order, [Next]_vars PROVE Forth
<1>1. CASE UNCHANGED vars
  <2>1. EngineQuiet /\ UNCHANGED <<ipc, cmds, client, admitQ, adm>>
    BY <1>1 DEF EngineQuiet, vars, evars, channels, queued, served, result, mvars, clients
  <2>2. Unsent' \subseteq Unsent /\ \A t \in Admitters : HeldBy(t)' \subseteq HeldBy(t)
    BY <2>1 DEF Unsent, HeldBy
  <2> QED BY <2>1, <2>2, OrderQuiet
<1>2. CASE \E r \in Requests : Register(r) \/ Adder(r) \/ Open(r) \/ Reader(r) \/ Abandon(r) \/ LoopSets(r)
  BY <1>2, OrderClient, OrderSubmit, OrderSend DEF Adder, Reader
<1>3. CASE \E t \in Admitters : Admitter(t)
  BY <1>3, OrderTakes, OrderGivesUp, OrderAdmits DEF Admitter
<1>4. CASE Loop \/ Closer
  BY <1>4, OrderLoop, OrderClose DEF Closer
<1> QED BY <1>1, <1>2, <1>3, <1>4, OrderProcess DEF Next

LEMMA OrderInit == Init => Order
<1> SUFFICES ASSUME Init PROVE Order
  OBVIOUS
<1>1. /\ cmds = <<>> /\ pend = <<>> /\ byRid = {} /\ gen = [r \in Requests |-> 0] /\ out = <<>>
      /\ finished = {} /\ admitQ = <<>> /\ adm = [t \in Admitters |-> Free]
  BY DEF Init, EngineInit
<1>2. DOMAIN Cmds = {} /\ DOMAIN pend = {} /\ DOMAIN out = {} /\ DOMAIN admitQ = {}
      /\ Range(pend) = {} /\ Range(admitQ) = {}
  BY <1>1 DEF Cmds, Range
<1>3. Adds = {} /\ Tasks = {} /\ \A t \in Admitters : HeldBy(t) = {}
  BY <1>1, <1>2 DEF Adds, AddsIn, Tasks, HeldBy, Free
<1>4. Once
  BY <1>2, <1>3 DEF Once, OnceAsked, OnceHeld, OnceIn, IsInjective
<1>5. Forward
  BY <1>1, <1>2, <1>3 DEF Forward, Placed
<1>6. Produced
  BY <1>1, <1>2 DEF Produced
<1> QED BY <1>4, <1>5, <1>6 DEF Order
-----------------------------------------------------------------------------
\* A request is where it was or further on.
LEMMA Gone ==
  ASSUME IInv, Order, Fewer, Grows
  PROVE  /\ \A r \in Requests : gen[r] \in Nat /\ gen'[r] \in Nat /\ gen[r] <= gen'[r]
         /\ \A r \in Final : r \in Requests /\ r \in Final' /\ gen'[r] = gen[r] /\ ~Coming(r)
         /\ \A r \in Requests : Dropped(r) => Dropped(r)'
         /\ \A r \in Requests : ~Coming(r) => ~Coming(r)' /\ gen'[r] = gen[r]
<1>1. \A r \in Requests : gen[r] \in Nat
  BY EngineAssumption DEF IInv, EngineOK, Served
<1>2. \A r \in Requests : gen'[r] \in Nat /\ gen[r] <= gen'[r]
  BY <1>1 DEF Grows
<1>3. \A r \in Requests : ~Coming(r) => ~Coming(r)' /\ gen'[r] = gen[r]
  BY DEF Fewer, Grows
<1>4. \A r \in Final : r \in Requests /\ ~Coming(r)
  BY DEF Final, Coming, Order, Forward
<1>5. \A r \in Final : r \in Final'
  BY <1>3, <1>4 DEF Final, Coming
<1>6. \A r \in Requests : Dropped(r) => Dropped(r)'
  BY <1>3 DEF Dropped
<1> QED BY <1>1, <1>2, <1>3, <1>4, <1>5, <1>6

\* Runs of no, one and two tokens.
LEMMA RunSmall ==
  ASSUME NEW a \in Nat
  PROVE  /\ Run(a, a) = <<>> /\ Run(a, a + 1) = <<a + 1>>
         /\ Run(a, a + 2) = <<a + 1, a + 2>>
<1>1. Run(a, a) = <<>>
  BY RunFacts
<1>2. Run(a, a + 1) = <<a + 1>>
  <2>1. PICK x, p : x = a + 1 /\ p = Run(a, x)
    OBVIOUS
  <2>2. x \in Nat /\ a <= x /\ x - a = 1
    BY <2>1
  <2>3. p \in Seq(Nat) /\ Len(p) = 1 /\ \A i \in 1..1 : p[i] = a + i
    <3>1. Run(a, x) \in Seq(Nat) /\ Len(Run(a, x)) = x - a
          /\ \A i \in 1..(x - a) : Run(a, x)[i] = a + i
      BY ONLY a \in Nat, <2>2, RunFacts
    <3> QED BY <2>1, <2>2, <3>1
  <2>4. <<x>> \in Seq(Nat) /\ Len(<<x>>) = 1 /\ <<x>>[1] = x
    BY <2>2
  <2>5. \A i \in 1..1 : p[i] = <<x>>[i]
    BY <2>1, <2>3, <2>4
  <2>6. p = <<x>>
    BY ONLY <2>3, <2>4, <2>5, SameSeq
  <2> QED BY <2>1, <2>6
<1>3. Run(a, a + 2) = <<a + 1, a + 2>>
  <2>1. PICK x, y, p : x = a + 1 /\ y = a + 2 /\ p = Run(a, y)
    OBVIOUS
  <2>2. x \in Nat /\ y \in Nat /\ a <= y /\ y - a = 2
    BY <2>1
  <2>3. p \in Seq(Nat) /\ Len(p) = 2 /\ \A i \in 1..2 : p[i] = a + i
    <3>1. Run(a, y) \in Seq(Nat) /\ Len(Run(a, y)) = y - a
          /\ \A i \in 1..(y - a) : Run(a, y)[i] = a + i
      BY ONLY a \in Nat, <2>2, RunFacts
    <3> QED BY <2>1, <2>2, <3>1
  <2>4. PICK q : q = <<x, y>>
    OBVIOUS
  <2>5. q \in Seq(Nat) /\ Len(q) = 2 /\ q[1] = x /\ q[2] = y
    BY <2>2, <2>4
  <2>6. \A i \in 1..2 : p[i] = q[i]
    BY <2>1, <2>3, <2>5
  <2>7. p = q
    BY ONLY <2>3, <2>5, <2>6, SameSeq
  <2> QED BY <2>1, <2>4, <2>7
<1> QED BY <1>1, <1>2, <1>3

\* What the process has for a request after a step.
LEMMA StepTokens ==
  ASSUME IInv, Order, NEW chosen, chosen \subseteq sessions, NEW r \in Requests,
         NEW g, g = IF r \in chosen THEN gen[r] + 1 ELSE gen[r]
  PROVE  /\ ToldOf(r) \in Nat /\ g \in Nat /\ ToldOf(r) <= g
         /\ TokensIn(AllPairs(chosen), r) = Run(ToldOf(r), g)
<1>1. PICK p, q, list : p = out /\ q = NewPairs(chosen) /\ list = AllPairs(chosen)
  OBVIOUS
<1>2. /\ p \in Seq(PairSet) /\ q \in Seq(PairSet) /\ list \in Seq(PairSet) /\ list = p \o q
      /\ Range(q) = {[rid |-> s, tok |-> gen[s] + 1] : s \in chosen}
      /\ \A i, j \in DOMAIN q : q[i] = q[j] => i = j
  BY <1>1, PairsFacts DEF IInv, EngineOK, AllPairs
<1>3. PICK n, k : n = Len(p) /\ k = Len(q)
  OBVIOUS
<1>4. /\ n \in Nat /\ k \in Nat /\ DOMAIN p = 1..n /\ DOMAIN q = 1..k /\ DOMAIN list = 1..(n + k)
      /\ \A i \in 1..n : list[i] = p[i]
      /\ \A i \in 1..(n + k) : i \in 1..n \/ (i - n \in 1..k /\ list[i] = q[i - n])
      /\ \A j \in 1..k : list[n + j] = q[j]
  BY <1>2, <1>3, JoinFacts, ConcatFacts
<1>5. gen[r] \in Nat /\ g \in Nat /\ (r \in chosen => gen[r] > 0)
  BY EngineAssumption DEF IInv, EngineOK, Served
<1>6. /\ \A i \in 1..n : p[i].tok = 1 /\ gen[p[i].rid] = 1
      /\ \A i, j \in 1..n : p[i].rid = p[j].rid => i = j
      /\ r \in Untold <=> \E i \in 1..n : p[i].rid = r
  BY <1>1, <1>4 DEF Order, Produced, Untold
<1>7. /\ \A j \in 1..k : q[j].rid \in chosen /\ q[j].tok = gen[q[j].rid] + 1 /\ q[j] = [rid |-> q[j].rid, tok |-> gen[q[j].rid] + 1]
      /\ r \in chosen => \E j \in 1..k : q[j] = [rid |-> r, tok |-> gen[r] + 1]
  <2>1. \A j \in 1..k : q[j] \in Range(q)
    BY <1>4 DEF Range
  <2>2. \A e \in Range(q) : \E j \in 1..k : q[j] = e
    BY <1>4 DEF Range
  <2>3. \A j \in 1..k : \E s \in chosen : q[j] = [rid |-> s, tok |-> gen[s] + 1]
    BY <1>2, <2>1
  <2>4. r \in chosen => [rid |-> r, tok |-> gen[r] + 1] \in Range(q)
    BY <1>2
  <2>5. \A j \in 1..k : /\ q[j].rid \in chosen /\ q[j].tok = gen[q[j].rid] + 1
                        /\ q[j] = [rid |-> q[j].rid, tok |-> gen[q[j].rid] + 1]
    <3> TAKE j \in 1..k
    <3>1. PICK s \in chosen : q[j] = [rid |-> s, tok |-> gen[s] + 1]
      BY <2>3
    <3>2. q[j].rid = s /\ q[j].tok = gen[s] + 1
      BY <3>1
    <3> QED BY <3>1, <3>2
  <2> QED BY <2>2, <2>4, <2>5
<1>8. \A i, j \in 1..k : q[i].rid = r /\ q[j].rid = r => i = j
  <2> TAKE i \in 1..k, j \in 1..k
  <2> HAVE q[i].rid = r /\ q[j].rid = r
  <2>1. q[i] = [rid |-> r, tok |-> gen[r] + 1] /\ q[j] = [rid |-> r, tok |-> gen[r] + 1]
    BY <1>7
  <2>2. q[i] = q[j]
    BY <2>1
  <2> QED BY <1>2, <1>4, <2>2
<1>9. /\ TokensIn(list, r) \in Seq(Nat)
      /\ Places(list, r) = {} => TokensIn(list, r) = <<>>
      /\ \A i \in DOMAIN list : Places(list, r) = {i} => TokensIn(list, r) = <<list[i].tok>>
      /\ \A i, j \in DOMAIN list : i < j /\ Places(list, r) = {i, j} =>
              TokensIn(list, r) = <<list[i].tok, list[j].tok>>
  <2>1. list \in Seq([rid : Requests, tok : Nat])
    BY <1>2 DEF PairSet
  <2>2. PICK V : V = Nat
    OBVIOUS
  <2>3. list \in Seq([rid : Requests, tok : V])
    BY <2>1, <2>2
  <2>4. /\ TokensIn(list, r) \in Seq(V)
        /\ Places(list, r) = {} => TokensIn(list, r) = <<>>
        /\ \A i \in DOMAIN list : Places(list, r) = {i} => TokensIn(list, r) = <<list[i].tok>>
        /\ \A i, j \in DOMAIN list : i < j /\ Places(list, r) = {i, j} =>
              TokensIn(list, r) = <<list[i].tok, list[j].tok>>
    BY ONLY <2>3, TokensInFacts
  <2> QED BY ONLY <2>2, <2>4
<1>10. Run(gen[r], gen[r]) = <<>> /\ Run(gen[r], gen[r] + 1) = <<gen[r] + 1>> /\ Run(0, 1) = <<1>>
       /\ Run(0, 2) = <<1, 2>>
  <2>1. PICK a : a = gen[r]
    OBVIOUS
  <2>2. Run(a, a) = <<>> /\ Run(a, a + 1) = <<a + 1>>
    BY <1>5, <2>1, RunSmall
  <2>3. PICK z : z = 0
    OBVIOUS
  <2>4. Run(z, z + 1) = <<z + 1>> /\ Run(z, z + 2) = <<z + 1, z + 2>>
    BY <2>3, RunSmall
  <2>5. z + 1 = 1 /\ z + 2 = 2
    BY <2>3
  <2> QED BY <2>1, <2>2, <2>3, <2>4, <2>5
<1>11. CASE r \notin Untold
  <2>0. ToldOf(r) = gen[r]
    BY <1>11 DEF ToldOf
  <2>1. CASE r \notin chosen
    <3>1. Places(list, r) = {}
      BY <1>4, <1>6, <1>7, <1>11, <2>1 DEF Places
    <3> QED BY <1>1, <1>5, <1>9, <1>10, <2>0, <2>1, <3>1
  <2>2. CASE r \in chosen
    <3>1. PICK j \in 1..k : q[j] = [rid |-> r, tok |-> gen[r] + 1]
      BY <1>7, <2>2
    <3>2. n + j \in 1..(n + k) /\ list[n + j] = q[j] /\ list[n + j].rid = r /\ list[n + j].tok = gen[r] + 1
      BY <1>4, <3>1
    <3>3. \A i \in 1..(n + k) : list[i].rid = r => i = n + j
      <4> TAKE i \in 1..(n + k)
      <4> HAVE list[i].rid = r
      <4>1. i \notin 1..n
        BY <1>4, <1>6, <1>11
      <4>2. i - n \in 1..k /\ q[i - n].rid = r
        BY <1>4, <4>1
      <4>3. q[j].rid = r
        BY <3>1
      <4>4. i - n = j
        BY <1>8, <4>2, <4>3
      <4> QED BY <1>4, <4>4
    <3>4. Places(list, r) = {n + j}
      BY <1>4, <3>2, <3>3 DEF Places
    <3>5. TokensIn(list, r) = <<list[n + j].tok>>
      BY <1>4, <1>9, <3>2, <3>4
    <3>6. TokensIn(list, r) = Run(gen[r], gen[r] + 1)
      BY <1>10, <3>2, <3>5
    <3>7. g = gen[r] + 1 /\ gen[r] <= g
      BY <1>5, <2>2
    <3> QED BY <1>1, <1>5, <2>0, <3>6, <3>7
  <2> QED BY <2>1, <2>2
<1>12. CASE r \in Untold
  <2>1. PICK i \in 1..n : p[i].rid = r
    BY <1>6, <1>12
  <2>2. ToldOf(r) = 0 /\ gen[r] = 1
    BY <1>6, <1>12, <2>1 DEF ToldOf
  <2>3. i \in 1..(n + k) /\ list[i].rid = r /\ list[i].tok = 1
    BY <1>4, <1>6, <2>1
  <2>4. CASE r \notin chosen
    <3>1. \A j \in 1..(n + k) : list[j].rid = r => j = i
      BY <1>4, <1>6, <1>7, <2>1, <2>4
    <3>2. Places(list, r) = {i}
      BY <1>4, <2>3, <3>1 DEF Places
    <3>3. TokensIn(list, r) = <<list[i].tok>>
      BY <1>4, <1>9, <2>3, <3>2
    <3>4. TokensIn(list, r) = Run(0, 1)
      BY <1>10, <2>3, <3>3
    <3> QED BY <1>1, <2>2, <2>4, <3>4
  <2>5. CASE r \in chosen
    <3>1. PICK j \in 1..k : q[j] = [rid |-> r, tok |-> gen[r] + 1]
      BY <1>7, <2>5
    <3>2. /\ n + j \in 1..(n + k) /\ i < n + j /\ list[n + j] = q[j] /\ list[n + j].rid = r
          /\ list[n + j].tok = 2
      BY <1>4, <2>2, <3>1
    <3>3. \A l \in 1..(n + k) : list[l].rid = r => l \in {i, n + j}
      <4> TAKE l \in 1..(n + k)
      <4> HAVE list[l].rid = r
      <4>1. CASE l \in 1..n
        BY <1>4, <1>6, <2>1, <4>1
      <4>2. CASE l \notin 1..n
        <5>1. l - n \in 1..k /\ q[l - n].rid = r
          BY <1>4, <4>2
        <5>2. q[j].rid = r
          BY <3>1
        <5>3. l - n = j
          BY <1>8, <5>1, <5>2
        <5> QED BY <1>4, <5>3
      <4> QED BY <4>1, <4>2
    <3>4. Places(list, r) = {i, n + j}
      BY <1>4, <2>3, <3>2, <3>3 DEF Places
    <3>5. i \in DOMAIN list /\ n + j \in DOMAIN list
      BY <1>4, <2>3, <3>2
    <3>6. TokensIn(list, r) = <<list[i].tok, list[n + j].tok>>
      BY ONLY <1>9, <3>2, <3>4, <3>5
    <3>7. TokensIn(list, r) = <<1, 2>>
      BY ONLY <2>3, <3>2, <3>6
    <3> QED BY <1>1, <1>10, <2>2, <2>5, <3>7
  <2> QED BY <2>4, <2>5
<1> QED BY <1>11, <1>12

\* Events stay as they are, for a request that moves on.
LEMMA EmitsKept ==
  ASSUME IInv, Order, Fewer, Grows, NEW r \in Requests, NEW y \in Nat, NEW z \in Nat,
         Emits(r, y, z), InTransit' = InTransit, Alive' => Alive /\ ToldOf(r)' = ToldOf(r)
  PROVE  Emits(r, y, z)'
<1>1. Trail(InTransit, r, y, z)' /\ (Finishes(InTransit, r)' => Finishes(InTransit, r))
  <2>1. PICK q : q = InTransit
    OBVIOUS
  <2>2. Trail(q, r, y, z) /\ InTransit' = q
    BY <2>1 DEF Emits
  <2>3. Trail(InTransit, r, y, z)' /\ (Finishes(InTransit, r)' => Finishes(q, r))
    BY ONLY <2>2 DEF Trail, Finishes, Mapped, Fin, Tok
  <2> QED BY <2>1, <2>3
<1>2. z <= gen'[r]
  BY Gone DEF Emits
<1>3. IsLast(r, z) => IsLast(r, z)'
  BY Gone DEF IsLast
<1> QED BY <1>1, <1>2, <1>3 DEF Emits

\* Another event follows.
LEMMA EmitsMore ==
  ASSUME IInv, Order, Fewer, Grows, NEW r \in Requests, NEW y \in Nat, NEW z \in Nat, Emits(r, y, z),
         NEW e \in EvtSet, InTransit' = Append(InTransit, e), NEW w \in Nat, z <= w, w <= gen'[r],
         Tok(e, r) = Run(z, w), Finishes(InTransit, r) => z = w,
         r \in Fin(e) => IsLast(r, w)', Alive' => w = ToldOf(r)'
  PROVE  Emits(r, y, w)'
<1>1. PICK q, p : q = InTransit /\ p = Append(q, e)
  OBVIOUS
<1>2. q \in Seq(EvtSet) /\ Trail(q, r, y, z)
  BY <1>1, TransitIs DEF Emits
<1>3. Trail(p, r, y, w) /\ (Finishes(p, r) => Finishes(q, r) \/ r \in Fin(e))
  BY <1>1, <1>2, TrailAppend
<1>4. Trail(InTransit, r, y, w)' /\ (Finishes(InTransit, r)' => Finishes(p, r))
  <2>1. InTransit' = p
    BY <1>1
  <2> QED BY ONLY <1>3, <2>1 DEF Trail, Finishes, Mapped, Fin, Tok
<1>5. Finishes(q, r) => IsLast(r, w)'
  <2>1. Finishes(q, r) => IsLast(r, z) /\ z = w
    BY <1>1 DEF Emits
  <2> QED BY <2>1, Gone DEF IsLast
<1> QED BY <1>3, <1>4, <1>5 DEF Emits

LEMMA StepEmits ==
  ASSUME IInv, Order, StreamInv, Fewer, Grows, NEW chosen, NEW fin, Stepped(chosen, fin), epc = "step",
         lpc \in {"recv", "deliver"}, event' = event, NEW r \in Requests, NEW y \in Nat, Transit(r, y)
  PROVE  Transit(r, y)'
<1>1. PICK z \in Nat : Emits(r, y, z)
  BY DEF Transit
<1>2. PICK all, told : all = finished \cup fin /\ (told <=> (all # {} \/ AllPairs(chosen) # <<>>))
  <2>1. PICK all : all = finished \cup fin
    OBVIOUS
  <2>2. PICK told : told = (all # {} \/ AllPairs(chosen) # <<>>)
    OBVIOUS
  <2>3. told <=> (all # {} \/ AllPairs(chosen) # <<>>)
    BY <2>2
  <2> QED BY <2>1, <2>3
<1>3. /\ chosen \subseteq sessions /\ fin \subseteq chosen
      /\ gen' = [s \in Requests |-> IF s \in chosen THEN gen[s] + 1 ELSE gen[s]]
      /\ sessions' = sessions \ fin
      /\ events' = IF told THEN Emitted(Event(AllPairs(chosen), all, gen')) ELSE events
      /\ told /\ ~CanEmit => epc' = "dead"
      /\ out' = <<>> /\ ipc' = ipc
  BY <1>2 DEF Stepped, channels
<1>4. PICK g \in Nat : /\ g = gen'[r] /\ ToldOf(r) \in Nat /\ ToldOf(r) <= g
                       /\ TokensIn(AllPairs(chosen), r) = Run(ToldOf(r), g)
  <2>1. gen'[r] = IF r \in chosen THEN gen[r] + 1 ELSE gen[r]
    BY <1>3
  <2>2. PICK g : g = gen'[r]
    OBVIOUS
  <2>3. /\ ToldOf(r) \in Nat /\ g \in Nat /\ ToldOf(r) <= g
        /\ TokensIn(AllPairs(chosen), r) = Run(ToldOf(r), g)
    BY <1>3, <2>1, <2>2, StepTokens
  <2> QED BY <2>2, <2>3
<1>5. z = ToldOf(r)
  BY <1>1 DEF Emits, Alive
<1>6. ToldOf(r)' = g
  BY <1>3, <1>4 DEF ToldOf, Untold
<1>7. \A s \in fin : s \in Requests => s \in Final'
  BY <1>3 DEF Final, IInv, EngineOK, Served
<1>8. r \in all => r \in Final'
  BY <1>2, <1>7, Gone DEF Order, Produced
<1>9. CASE told /\ CanEmit
  <2>1. AllPairs(chosen) \in Seq(PairSet) /\ all \subseteq Requests /\ Modes
    BY <1>2, <1>3, PairsFacts DEF IInv, EngineOK, Served, Reported, Channels
  <2>2. PICK e, list : list = AllPairs(chosen) /\ e = Event(list, all, gen')
    OBVIOUS
  <2>3. e \in EvtSet
    BY <2>1, <2>2, EventFacts
  <2>4. e = Pairs(list, all) \/ e = Tokens(Gathered(list), all)
    BY <2>1, <2>2 DEF Event, Modes
  <2>5. e # Error /\ e.fin = all /\ TokensOf(e, r) = TokensIn(list, r)
    <3>1. list \in Seq(PairSet)
      BY <2>1, <2>2
    <3>2. TokensOf(e, r) = TokensIn(list, r)
      BY <2>4, <3>1, TokensOfFacts
    <3>3. e.fin = all /\ e.type # "error" /\ Error.type = "error"
      BY <2>4 DEF Pairs, Tokens, Error
    <3> QED BY <3>2, <3>3
  <2>6. Tok(e, r) = Run(z, g) /\ Fin(e) = all
    BY <1>4, <1>5, <2>2, <2>5 DEF Tok, Fin
  <2>7. InTransit' = Append(InTransit, e)
    BY <1>3, <1>9, <2>2, <2>3, TransitMoves DEF StreamInv
  <2>8. Finishes(InTransit, r) => z = g
    BY <1>1, <1>4, Gone DEF Emits, IsLast
  <2>9. r \in Fin(e) => IsLast(r, g)'
    BY <1>4, <1>8, <2>6 DEF IsLast
  <2>10. Emits(r, y, g)'
    BY <1>1, <1>4, <1>5, <1>6, <2>3, <2>6, <2>7, <2>8, <2>9, EmitsMore
  <2> QED BY <2>10 DEF Transit
<1>10. CASE ~(told /\ CanEmit)
  <2>1. InTransit' = InTransit
    <3>1. CASE ~told
      BY <1>3, <3>1, TransitMoves DEF StreamInv
    <3>2. CASE told
      <4>1. events' = events
        BY <1>3, <1>10, <3>2 DEF Emitted
      <4> QED BY <1>3, <4>1, TransitMoves DEF StreamInv
    <3> QED BY <3>1, <3>2
  <2>2. Alive' => ToldOf(r)' = ToldOf(r)
    <3>1. CASE told
      BY <1>3, <1>10, <3>1 DEF Alive
    <3>2. CASE ~told
      <4>1. AllPairs(chosen) = <<>> /\ <<>> \in Seq(PairSet)
        BY <1>2, <3>2
      <4>2. PICK list : list = <<>> /\ list = AllPairs(chosen)
        BY <4>1
      <4>3. list \in Seq([rid : Requests, tok : Nat])
        BY <4>1, <4>2 DEF PairSet
      <4>4. Places(list, r) = {}
        BY <4>2 DEF Places
      <4>5. TokensIn(list, r) = <<>>
        BY <4>3, <4>4, TokensInFacts
      <4>6. PICK a : a = ToldOf(r) /\ a \in Nat /\ a <= g /\ Run(a, g) = <<>>
        BY <1>4, <4>2, <4>5
      <4>7. a = g
        BY ONLY <4>6, g \in Nat, RunFacts
      <4> QED BY <1>6, <4>6, <4>7
    <3> QED BY <3>1, <3>2
  <2>3. Alive
    BY DEF Alive
  <2>4. Emits(r, y, z)'
    BY <1>1, <2>1, <2>2, <2>3, EmitsKept
  <2> QED BY <2>4 DEF Transit
<1> QED BY <1>9, <1>10

\* The error is the last event.
LEMMA ErrorEmits ==
  ASSUME IInv, Order, StreamInv, Fewer, Grows, EngineRaises,
         lpc \in {"recv", "deliver"}, event' = event, NEW r \in Requests, NEW y \in Nat, Transit(r, y)
  PROVE  Transit(r, y)'
<1>1. PICK z \in Nat : Emits(r, y, z)
  BY DEF Transit
<1>2. PICK e : e = Error /\ e \in EvtSet
  BY DEF EvtSet
<1>3. epc' = "dead" /\ events' = Emitted(e) /\ ipc' = ipc
  BY <1>2 DEF EngineRaises, channels
<1>4. InTransit' = IF CanEmit THEN Append(InTransit, e) ELSE InTransit
  BY <1>2, <1>3, TransitMoves DEF StreamInv
<1>5. ~Alive'
  BY <1>3 DEF Alive
<1>6. CASE CanEmit
  <2>1. Tok(e, r) = Run(z, z) /\ r \notin Fin(e) /\ z <= gen'[r]
    <3>1. Run(z, z) = <<>>
      BY RunSmall
    <3>2. z <= gen'[r]
      BY <1>1, Gone DEF Emits
    <3> QED BY <1>2, <3>1, <3>2 DEF Tok, Fin
  <2>2. Emits(r, y, z)'
    BY <1>1, <1>2, <1>4, <1>5, <1>6, <2>1, EmitsMore
  <2> QED BY <2>2 DEF Transit
<1>7. CASE ~CanEmit
  <2>1. Emits(r, y, z)'
    BY <1>1, <1>4, <1>5, <1>7, EmitsKept
  <2> QED BY <2>1 DEF Transit
<1> QED BY <1>6, <1>7

\* Nothing is on its way for a request without tokens.
LEMMA Nothing ==
  ASSUME IInv, StreamInv, lpc \in {"recv", "deliver"}, NEW r \in Requests, gen[r] = 0,
         NEW y \in Nat, Transit(r, y)
  PROVE  y = 0 /\ \A e \in event : Tok(e, r) = <<>>
<1>1. PICK z \in Nat : Emits(r, y, z)
  BY DEF Transit
<1>2. z = 0
  BY <1>1 DEF Emits
<1>3. PICK q : q = InTransit /\ q \in Seq(EvtSet)
  BY TransitIs
<1>4. Trail(q, r, y, 0)
  BY <1>1, <1>2, <1>3 DEF Emits
<1>5. y <= 0
  <2>1. PICK cs : Cuts(Mapped(q, r), y, 0, Nat, cs)
    BY <1>4 DEF Trail, Pieced
  <2>2. PICK p : p = Mapped(q, r) /\ p \in Seq(Seq(Nat))
    BY <1>3, MappedFacts
  <2> QED BY <2>1, <2>2, CutFacts
<1>6. ASSUME NEW e \in event PROVE Tok(e, r) = <<>>
  <2>1. event = {e} /\ e \in EvtSet
    BY <1>6 DEF StreamInv, Looked
  <2>2. q # <<>> /\ Head(q) = e
    <3>1. q = <<e>> \o Evts /\ Evts \in Seq(EvtSet)
      BY <1>3, <2>1, TransitIs
    <3> QED BY <2>1, <3>1, ConsMoves
  <2>3. PICK m \in Nat : y <= m /\ m <= 0 /\ Tok(e, r) = Run(y, m)
    <3>1. PICK n \in Nat : n = 0
      OBVIOUS
    <3>2. Trail(q, r, y, n)
      BY <1>4, <3>1
    <3>3. PICK m \in Nat : /\ y <= m /\ m <= n /\ Tok(Head(q), r) = Run(y, m)
                           /\ Trail(Tail(q), r, m, n)
                           /\ Finishes(Tail(q), r) => Finishes(q, r)
                           /\ r \in Fin(Head(q)) => m = n /\ Finishes(q, r)
      BY ONLY <1>3, <2>2, <3>2, y \in Nat, n \in Nat, TrailTail
    <3> QED BY <2>2, <3>1, <3>3
  <2>4. y = 0 /\ m = 0
    BY <2>3
  <2> QED BY <2>3, <2>4, RunSmall
<1> QED BY <1>5, <1>6
-----------------------------------------------------------------------------
(***************************************************************************)
(* The streams: what no token is given to.                                 *)
(***************************************************************************)
\* A stream keeps its pieces, or ends with the manager, or without a token.
LEMMA FlowKept ==
  ASSUME IInv, Order, StreamInv, Fewer, Grows, running' => running, NEW r \in Requests,
         got'[r] = got[r], stream'[r] = stream[r],
         \/ chan'[r] = chan[r]
         \/ chan'[r] = Append(chan[r], None) /\ (running' => gen'[r] = 0),
         NEW d \in Nat, NEW y \in Nat, FlowAt(r, d, y), NEW x \in Nat,
         lpc' \in {"recv", "deliver"} => Follows(r, d, x)'
  PROVE  FlowAt(r, d, x)'
<1>1. PICK q, t, s, g : q = chan[r] /\ t = got[r] /\ s = stream[r] /\ g = gen[r]
  OBVIOUS
<1>2. q \in Seq(Seq(Nat)) /\ t \in Seq(Nat) /\ g \in Nat /\ gen'[r] \in Nat /\ g <= gen'[r]
  BY <1>1, Gone DEF IInv, ManagerOK, Hybrid, Clients, Closing
<1>3. FlowOf(q, t, s, d, Levels(r)) /\ d <= g
  BY <1>1 DEF FlowAt
<1>4. PICK S, T : S = Levels(r) /\ T = Levels(r)'
  OBVIOUS
<1>5. d <= gen'[r]
  BY <1>2, <1>3
<1>6. CASE chan'[r] = chan[r]
  <2>1. S \subseteq T \/ NoNone(q)
    <3>1. CASE ~running'
      BY <1>1, <1>2, <1>4, <3>1 DEF Levels
    <3>2. CASE running' /\ Coming(r)
      BY <1>1, <3>2 DEF StreamInv, Ended
    <3>3. CASE running' /\ ~Coming(r)
      BY <1>4, <3>3, Gone DEF Levels
    <3> QED BY <3>1, <3>2, <3>3
  <2>2. FlowOf(q, t, s, d, T)
    BY <1>2, <1>3, <1>4, <2>1, LevelsMono
  <2>3. FlowOf(chan'[r], got'[r], stream'[r], d, T)
    BY <1>1, <1>6, <2>2
  <2> QED BY <1>4, <1>5, <2>3 DEF FlowAt
<1>7. CASE chan'[r] = Append(chan[r], None) /\ (running' => gen'[r] = 0)
  <2>1. S \subseteq T /\ 0..d \subseteq T
    <3>1. CASE ~running'
      <4>1. T = Nat
        BY <1>4, <3>1 DEF Levels
      <4>2. S \subseteq Nat
        BY ONLY <1>1, <1>2, <1>4 DEF Levels
      <4>3. 0..d \subseteq Nat
        OBVIOUS
      <4> QED BY ONLY <4>1, <4>2, <4>3
    <3>2. CASE running'
      <4>1. g = 0 /\ d = 0 /\ 0..d = {0} /\ gen'[r] = gen[r]
        BY <1>1, <1>2, <1>3, <1>7, <3>2
      <4> QED BY <1>1, <1>4, <3>2, <4>1 DEF Levels
    <3> QED BY <3>1, <3>2
  <2>2. FlowOf(q, t, s, d, T)
    BY <1>2, <1>3, <1>4, <2>1, LevelsMono
  <2>3. FlowOf(Append(q, <<>>), t, s, d, T)
    BY <1>2, <2>1, <2>2, FlowNone
  <2>4. FlowOf(chan'[r], got'[r], stream'[r], d, T)
    BY <1>1, <1>7, <2>3 DEF None
  <2> QED BY <1>4, <1>5, <2>4 DEF FlowAt
<1> QED BY <1>6, <1>7

\* What follows stays on its way.
LEMMA FollowsKept ==
  ASSUME IInv, Order, Fewer, Grows, NEW r \in Requests, NEW d \in Nat, NEW y \in Nat,
         Follows(r, d, y), InTransit' = InTransit, event' = event,
         Alive' => Alive /\ ToldOf(r)' = ToldOf(r),
         r \in queues' \cup seen' => r \in queues \cup seen, r \in queues' \ seen' => r \in queues \ seen
  PROVE  Follows(r, d, y)'
<1>1. PICK z \in Nat : Emits(r, y, z)
  BY DEF Follows, Transit
<1>2. Emits(r, y, z)'
  BY <1>1, EmitsKept
<1>3. Transit(r, y)'
  BY <1>2 DEF Transit
<1>4. (r \in queues \cup seen => d = y) /\ (r \in queues \ seen => \A e \in event : Tok(e, r) = <<>>)
  BY DEF Follows
<1> QED BY <1>3, <1>4 DEF Follows

\* Steps outside the process and the event loop.
LEMMA FlowOutside ==
  ASSUME IInv, Order, StreamInv, Fewer, Grows, EngineQuiet,
         UNCHANGED <<ipc, events, lpc, event, seen, stream, got>>,
         queues' \subseteq queues, running' => running, NEW S,
         \A r \in Requests : chan'[r] = IF r \in S THEN Append(chan[r], None) ELSE chan[r],
         \A r \in Requests : r \in S /\ running' => gen[r] = 0
  PROVE  \A r \in Requests : Flow(r)'
<1> SUFFICES ASSUME NEW r \in Requests PROVE Flow(r)'
  OBVIOUS
<1>1. PICK d \in Nat, y \in Nat : FlowAt(r, d, y)
  BY DEF StreamInv, Flow
<1>2. InTransit' = InTransit
  BY TransitMoves DEF StreamInv
<1>3. Alive' => Alive /\ ToldOf(r)' = ToldOf(r)
  BY DEF EngineQuiet, Alive, ToldOf, Untold
<1>4. lpc' \in {"recv", "deliver"} => Follows(r, d, y)'
  <2> HAVE lpc' \in {"recv", "deliver"}
  <2>1. Follows(r, d, y)
    BY <1>1 DEF FlowAt
  <2> QED BY <1>2, <1>3, <2>1, FollowsKept
<1>5. \/ chan'[r] = chan[r]
      \/ chan'[r] = Append(chan[r], None) /\ (running' => gen'[r] = 0)
  BY DEF EngineQuiet
<1>6. FlowAt(r, d, y)'
  BY <1>1, <1>4, <1>5, FlowKept
<1> QED BY <1>6 DEF Flow

LEMMA NonePut ==
  ASSUME IInv, NEW S, PutNone(S), NEW r \in Requests
  PROVE  /\ chan'[r] = IF r \in S THEN Append(chan[r], None) ELSE chan[r]
         /\ ~NoNone(chan'[r]) => ~NoNone(chan[r]) \/ r \in S
<1>1. PICK q : q = chan[r] /\ q \in Seq(Seq(Nat))
  BY DEF IInv, ManagerOK, Hybrid
<1>2. PICK x : x = None /\ x \in Seq(Nat)
  <2>1. <<>> \in Seq(Nat)
    OBVIOUS
  <2> QED BY <2>1 DEF None
<1>3. q \o <<x>> = Append(q, x) /\ q \o <<>> = q
  BY ONLY <1>1, <1>2, ConcatOne
<1>4. chan'[r] = IF r \in S THEN chan[r] \o <<None>> ELSE chan[r] \o <<>>
  BY DEF PutNone, Put
<1>5. chan'[r] = IF r \in S THEN Append(q, x) ELSE q
  BY <1>1, <1>2, <1>3, <1>4
<1> QED BY <1>1, <1>2, <1>5

LEMMA LookedKept ==
  ASSUME IInv, Order, StreamInv, Fewer, Grows, UNCHANGED <<lpc, event, seen>>, running' => running,
         closer'.at = "tell" => closer.at = "tell" \/ ~running',
         \A t \in Admitters : adm'[t].at = "forget" =>
           adm'[t] = adm[t] \/ \A r \in adm'[t].on : Dropped(r)'
  PROVE  Looked'
<1>1. \A t \in Admitters : adm'[t].at = "forget" => \A r \in adm'[t].on : Dropped(r)'
  <2> TAKE t \in Admitters
  <2> HAVE adm'[t].at = "forget"
  <2>1. CASE adm'[t] = adm[t]
    <3>1. \A r \in adm[t].on : Dropped(r) /\ r \in Requests
      BY <2>1 DEF StreamInv, Looked, IInv, ManagerOK, Admission
    <3> QED BY <2>1, <3>1, Gone
  <2> QED BY <2>1
<1>2. Looked
  BY DEF StreamInv
<1> QED BY <1>1, <1>2 DEF Looked

LEMMA EndedKept ==
  ASSUME IInv, Order, StreamInv, Fewer, Grows, running' => running,
         running' => \A r \in Requests :
           /\ client'[r] \in {"adding", "added"} =>
                \/ r \in queues' \/ (client'[r] = "added" /\ Dropped(r)')
                \/ client'[r] = client[r] /\ (r \in queues => r \in queues')
           /\ ~NoNone(chan'[r]) => ~NoNone(chan[r]) \/ ~Coming(r)'
           /\ r \in Over' => r \in Over \/ ~Coming(r)'
  PROVE  Ended'
<1> SUFFICES ASSUME running', NEW r \in Requests
             PROVE  /\ client'[r] = "adding" => r \in queues'
                    /\ client'[r] = "added" => r \in queues' \/ Dropped(r)'
                    /\ ~NoNone(chan'[r]) \/ r \in Over' => ~Coming(r)'
  BY DEF Ended
<1>1. /\ client[r] = "adding" => r \in queues
      /\ client[r] = "added" => r \in queues \/ Dropped(r)
      /\ ~NoNone(chan[r]) \/ r \in Over => ~Coming(r)
  BY DEF StreamInv, Ended
<1>2. Dropped(r) => Dropped(r)'
  BY Gone
<1>3. ~Coming(r) => ~Coming(r)'
  BY Gone
<1> QED BY <1>1, <1>2, <1>3

\* A request that could not be sent comes no more.
LEMMA SendFails ==
  ASSUME IInv, Order, NEW r \in Requests, Send(r), ~CanSend
  PROVE  gen[r] = 0 /\ ~Coming(r)'
<1>1. r \in Unsent /\ r \notin Unsent'
  BY DEF Send, Unsent, IInv, ManagerOK, Clients
<1>2. Placed(r) /\ Before(r)
  BY <1>1 DEF Order, Forward, Before
<1>3. r \notin Adds /\ r \notin Tasks /\ \A t \in Admitters : r \notin HeldBy(t)
  BY <1>1, <1>2 DEF Placed
<1>4. r \notin Range(pend) /\ gen[r] = 0
  BY <1>2 DEF Order, Forward
<1>5. r \notin byRid /\ r \notin sessions
  BY <1>4 DEF IInv, EngineOK, Queued, Served
<1>6. UNCHANGED <<byRid, sessions, admitQ, adm, ipc, cmds>>
  BY DEF Send, EngineRest, queued, served
<1>7. Cmds' = Cmds
  BY <1>6, CmdsMoved DEF IInv, EngineOK
<1>8. r \notin Adds' /\ r \notin Tasks' /\ \A t \in Admitters : r \notin HeldBy(t)'
  BY <1>3, <1>6, <1>7 DEF Adds, AddsIn, Tasks, HeldBy
<1>9. ~Before(r)'
  BY <1>1, <1>8 DEF Before
<1> QED BY <1>4, <1>5, <1>6, <1>9 DEF Coming

LEMMA AdmitFails ==
  ASSUME IInv, Order, NEW t \in Admitters, AdmitRaises(t), NEW r \in adm[t].on
  PROVE  r \in Requests /\ gen[r] = 0 /\ ~Coming(r)'
<1>0. adm \in [Admitters -> [at : AdmitAt, on : SUBSET Requests]]
  BY DEF IInv, ManagerOK, Admission
<1>1. r \in Requests /\ r \in HeldBy(t)
  BY <1>0 DEF HeldBy, AdmitRaises
<1>2. Placed(r) /\ Before(r)
  BY <1>1 DEF Order, Forward, Before
<1>3. r \notin Adds /\ r \notin Tasks /\ r \notin Unsent
  BY <1>1, <1>2 DEF Placed
<1>4. r \notin Range(pend) /\ gen[r] = 0
  BY <1>1, <1>2 DEF Order, Forward
<1>5. r \notin byRid /\ r \notin sessions
  BY <1>4 DEF IInv, EngineOK, Queued, Served
<1>6. UNCHANGED <<byRid, sessions, admitQ, client, ipc>>
  BY DEF AdmitRaises, EngineRest, queued, served, clients
<1>7. Adds' = Adds
  <2>1. PICK s \in adm[t].on : Sent(<<Cancel(s)>>)
    BY DEF AdmitRaises
  <2>2. s \in Requests
    BY <1>0
  <2> QED BY <1>6, <2>1, <2>2, OneList, CmdsQuiet
<1>8. \A u \in Admitters : r \notin HeldBy(u)'
  <2>1. \A u \in Admitters : u # t => HeldBy(u)' = HeldBy(u)
    BY <1>0 DEF HeldBy, AdmitRaises
  <2>2. HeldBy(t)' = {}
    BY <1>0 DEF HeldBy, AdmitRaises
  <2>3. \A u \in Admitters : r \in HeldBy(u) => u = t
    BY <1>1 DEF Order, Once, OnceHeld
  <2> QED BY <2>1, <2>2, <2>3
<1>9. ~Before(r)'
  BY <1>3, <1>6, <1>7, <1>8 DEF Before, Unsent, Tasks
<1> QED BY <1>1, <1>4, <1>5, <1>6, <1>9 DEF Coming

LEMMA StreamClient ==
  ASSUME IInv, Order, StreamInv, Fewer, Grows, NEW r \in Requests,
         Submit(r) \/ AddRaises(r) \/ Open(r) \/ Await(r) \/ Awake(r) \/ EndStream(r) \/ Abandon(r)
           \/ LoopSets(r) \/ CancelBackend(r) \/ Send(r)
  PROVE  StreamInv'
<1>1. /\ EngineQuiet /\ queues' \subseteq queues
      /\ UNCHANGED <<ipc, events, lpc, event, seen, stream, got, running, closer, adm>>
  BY DEF EngineQuiet, evars, EngineRest, queued, served, result, channels, clients, loop, Submit,
         AddRaises, Open, Await, Awake, EndStream, Abandon, Leave, LoopSets, CancelBackend, Send
<1>2. PICK S : S = IF Send(r) /\ ~CanSend THEN {r} \cap queues ELSE {}
  OBVIOUS
<1>3. /\ \A s \in Requests : chan'[s] = IF s \in S THEN Append(chan[s], None) ELSE chan[s]
      /\ \A s \in Requests : ~NoNone(chan'[s]) => ~NoNone(chan[s]) \/ s \in S
  <2>1. CASE Send(r) /\ ~CanSend
    <3>1. PutNone(S)
      BY <1>2, <2>1 DEF Send
    <3> QED BY <3>1, NonePut
  <2>2. CASE ~(Send(r) /\ ~CanSend)
    <3>1. chan' = chan /\ S = {}
      BY <1>2, <2>2 DEF hybrid, Submit, AddRaises, Open, Await, Awake, EndStream, Abandon, Leave,
                        LoopSets, CancelBackend, Send
    <3> QED BY <3>1
  <2> QED BY <2>1, <2>2
<1>4. \A s \in S : s = r /\ gen[s] = 0 /\ ~Coming(s)'
  BY <1>2, SendFails
<1>5. \A s \in Requests : Flow(s)'
  BY <1>1, <1>3, <1>4, FlowOutside
<1>6. Looked'
  BY <1>1, LookedKept
<1>7. Ended'
  <2>1. ASSUME running', NEW s \in Requests
        PROVE  /\ client'[s] \in {"adding", "added"} =>
                    \/ s \in queues' \/ (client'[s] = "added" /\ Dropped(s)')
                    \/ client'[s] = client[s] /\ (s \in queues => s \in queues')
               /\ s \in Over' => s \in Over \/ ~Coming(s)'
    <3>1. client \in [Requests -> ClientAt] /\ running
      BY <1>1, <2>1 DEF IInv, ManagerOK, Clients
    <3>2. CASE s # r
      <4>1. client'[s] = client[s] /\ (s \in queues => s \in queues')
        BY <3>1, <3>2 DEF Submit, AddRaises, Open, Await, Awake, EndStream, Abandon, Leave, LoopSets,
                          CancelBackend, Send, clients
      <4> QED BY <4>1 DEF Over
    <3>3. CASE s = r /\ Submit(r)
      <4>1. client'[r] = "added" /\ queues' = queues /\ client[r] = "adding"
        BY <3>1, <3>3 DEF Submit
      <4> QED BY <3>1, <3>3, <4>1 DEF StreamInv, Ended, Over
    <3>4. CASE s = r /\ (AddRaises(r) \/ Await(r) \/ Awake(r) \/ Abandon(r))
      <4>1. client'[r] \in {"raised", "await", "open", "gone", "leaving"}
        BY <3>1, <3>4 DEF AddRaises, Await, Awake, Abandon, Leave
      <4> QED BY <3>4, <4>1 DEF Over
    <3>5. CASE s = r /\ (EndStream(r) \/ CancelBackend(r))
      <4>1. client'[r] \in {"canceling", "done", "gone"} /\ (client'[r] # "gone" => client[r] \in {"read", "canceling"})
        BY <3>1, <3>5 DEF EndStream, Leave, CancelBackend
      <4> QED BY <3>5, <4>1 DEF Over
    <3>6. CASE s = r /\ Open(r)
      <4>1. client'[r] \in {"open", "done"} /\ client[r] = "added" /\ (client'[r] = "done" => r \notin queues)
        BY <3>1, <3>6 DEF Open
      <4>2. client'[r] = "done" => ~Coming(r)'
        BY <3>1, <4>1, Gone DEF StreamInv, Ended, Dropped
      <4> QED BY <3>6, <4>1, <4>2 DEF Over
    <3>7. CASE s = r /\ LoopSets(r)
      <4>1. client' = client /\ queues' = queues
        BY <3>7 DEF LoopSets, clients
      <4> QED BY <4>1 DEF Over
    <3>8. CASE s = r /\ Send(r)
      <4>1. client[r] = "adding" /\ (client'[r] = "raised" \/ (client'[r] = "added" /\ queues' = queues))
        BY <3>1, <3>8 DEF Send
      <4> QED BY <3>1, <3>8, <4>1 DEF StreamInv, Ended, Over
    <3> QED BY <3>2, <3>3, <3>4, <3>5, <3>6, <3>7, <3>8
  <2>2. \A s \in Requests : ~NoNone(chan'[s]) => ~NoNone(chan[s]) \/ ~Coming(s)'
    BY <1>3, <1>4
  <2> QED BY <1>1, <2>1, <2>2, EndedKept
<1> QED BY <1>5, <1>6, <1>7 DEF StreamInv

LEMMA StreamRead ==
  ASSUME IInv, Order, StreamInv, Fewer, Grows, NEW r \in Requests, Read(r)
  PROVE  StreamInv'
<1>1. /\ EngineQuiet /\ chan \in [Requests -> Seq(Seq(Nat))] /\ client \in [Requests -> ClientAt]
      /\ UNCHANGED <<ipc, events, lpc, event, seen, stream, queues, running, closer, adm>>
  BY DEF EngineQuiet, evars, queued, served, result, channels, loop, Read, IInv, ManagerOK, Hybrid, Clients
<1>2. PICK q, t, s : q = chan[r] /\ t = got[r] /\ s = stream[r]
  OBVIOUS
<1>3. /\ q \in Seq(Seq(Nat)) /\ t \in Seq(Nat) /\ q # <<>>
      /\ chan'[r] = Tail(q) /\ got'[r] = t \o Head(q) /\ stream'[r] = s
      /\ \A u \in Requests : u # r => chan'[u] = chan[u] /\ got'[u] = got[u] /\ client'[u] = client[u]
      /\ client[r] = "open" /\ client'[r] = IF Head(q) = None THEN "read" ELSE "open"
  BY <1>1, <1>2 DEF Read, IInv, ManagerOK, Clients
<1>4. NoNone(q) => NoNone(Tail(q)) /\ Head(q) # None
  <2>1. PICK d \in Nat, y \in Nat : FlowAt(r, d, y)
    BY DEF StreamInv, Flow
  <2>2. FlowOf(q, t, s, d, Levels(r))
    BY <1>2, <2>1 DEF FlowAt
  <2>3. NoNone(q) => NoNone(Tail(q))
    BY <1>3, <2>2, FlowGet
  <2>4. Head(q) = q[1] /\ 1 \in DOMAIN q
    BY <1>3, TailFacts
  <2> QED BY <2>3, <2>4 DEF NoNone, None
<1>5. ASSUME NEW u \in Requests PROVE Flow(u)'
  <2>1. PICK d \in Nat, y \in Nat : FlowAt(u, d, y)
    BY DEF StreamInv, Flow
  <2>2. lpc' \in {"recv", "deliver"} => Follows(u, d, y)'
    <3> HAVE lpc' \in {"recv", "deliver"}
    <3>1. Follows(u, d, y)
      BY <1>1, <2>1 DEF FlowAt
    <3>2. InTransit' = InTransit
      BY <1>1, TransitMoves DEF StreamInv
    <3>3. Alive' => Alive /\ ToldOf(u)' = ToldOf(u)
      BY <1>1 DEF EngineQuiet, Alive, ToldOf, Untold
    <3> QED BY <1>1, <3>1, <3>2, <3>3, FollowsKept
  <2>3. CASE u # r
    <3>1. FlowAt(u, d, y)'
      BY <1>1, <1>3, <2>1, <2>2, <2>3, FlowKept
    <3> QED BY <3>1 DEF Flow
  <2>4. CASE u = r
    <3>1. FlowOf(q, t, s, d, Levels(r)) /\ d <= gen[r]
      BY <1>2, <2>1, <2>4 DEF FlowAt
    <3>2. FlowOf(Tail(q), t \o Head(q), s, d, Levels(r))
      BY <1>3, <3>1, FlowGet
    <3>3. Levels(r)' = Levels(r) /\ gen' = gen
      BY <1>1 DEF Levels, EngineQuiet
    <3>4. FlowAt(r, d, y)'
      BY <1>3, <2>2, <2>4, <3>1, <3>2, <3>3 DEF FlowAt
    <3> QED BY <2>4, <3>4 DEF Flow
  <2> QED BY <2>3, <2>4
<1>6. Looked'
  BY <1>1, LookedKept
<1>7. Ended'
  <2>1. ASSUME running', NEW u \in Requests
        PROVE  /\ client'[u] \in {"adding", "added"} =>
                    \/ u \in queues' \/ (client'[u] = "added" /\ Dropped(u)')
                    \/ client'[u] = client[u] /\ (u \in queues => u \in queues')
               /\ ~NoNone(chan'[u]) => ~NoNone(chan[u]) \/ ~Coming(u)'
               /\ u \in Over' => u \in Over \/ ~Coming(u)'
    <3>1. CASE u # r
      BY <1>1, <1>3, <3>1 DEF Over
    <3>2. CASE u = r
      <4>1. ~NoNone(q) => ~Coming(r)'
        BY <1>1, <1>2, <2>1, Gone DEF StreamInv, Ended
      <4> QED BY <1>2, <1>3, <1>4, <3>2, <4>1 DEF Over
    <3> QED BY <3>1, <3>2
  <2> QED BY <1>1, <2>1, EndedKept
<1> QED BY <1>5, <1>6, <1>7 DEF StreamInv

LEMMA StreamRegister ==
  ASSUME IInv, Order, StreamInv, Fewer, Grows, NEW r \in Requests, Register(r)
  PROVE  StreamInv'
<1>1. /\ EngineQuiet /\ client \in [Requests -> ClientAt] /\ queues' = queues \cup {r}
      /\ UNCHANGED <<ipc, events, lpc, event, seen, stream, chan, got, running, closer, adm>>
      /\ client[r] = "idle" /\ client' = [client EXCEPT ![r] = "adding"]
  BY DEF EngineQuiet, evars, queued, served, result, channels, hybrid, loop, Register, IInv, ManagerOK, Clients
<1>2. gen[r] = 0
  BY <1>1 DEF Order, Forward, Before, Unsent
<1>3. ASSUME NEW u \in Requests PROVE Flow(u)'
  <2>1. PICK d \in Nat, y \in Nat : FlowAt(u, d, y)
    BY DEF StreamInv, Flow
  <2>2. lpc' \in {"recv", "deliver"} => Follows(u, d, y)'
    <3> HAVE lpc' \in {"recv", "deliver"}
    <3>1. Follows(u, d, y) /\ lpc \in {"recv", "deliver"}
      BY <1>1, <2>1 DEF FlowAt
    <3>2. InTransit' = InTransit
      BY <1>1, TransitMoves DEF StreamInv
    <3>3. Alive' => Alive /\ ToldOf(u)' = ToldOf(u)
      BY <1>1 DEF EngineQuiet, Alive, ToldOf, Untold
    <3>4. CASE u # r
      BY <1>1, <3>1, <3>2, <3>3, <3>4, FollowsKept
    <3>5. CASE u = r
      <4>1. PICK z \in Nat : Emits(r, y, z)
        BY <3>1, <3>5 DEF Follows, Transit
      <4>2. Transit(r, y) /\ Transit(r, y)'
        <5>1. Emits(r, y, z)'
          BY <3>2, <3>3, <3>5, <4>1, EmitsKept
        <5> QED BY <4>1, <5>1 DEF Transit
      <4>3. y = 0 /\ \A e \in event : Tok(e, r) = <<>>
        BY <1>2, <3>1, <4>2, Nothing
      <4>4. d = 0
        BY <1>2, <2>1, <3>5 DEF FlowAt
      <4> QED BY <1>1, <3>5, <4>2, <4>3, <4>4 DEF Follows
    <3> QED BY <3>4, <3>5
  <2>3. FlowAt(u, d, y)'
    BY <1>1, <2>1, <2>2, FlowKept
  <2> QED BY <2>3 DEF Flow
<1>4. Looked'
  BY <1>1, LookedKept
<1>5. Ended'
  <2>1. \A u \in Requests : u # r => client'[u] = client[u]
    BY <1>1
  <2>2. client'[r] = "adding"
    BY <1>1
  <2> QED BY <1>1, <2>1, <2>2, EndedKept DEF Over
<1> QED BY <1>3, <1>4, <1>5 DEF StreamInv

LEMMA StreamAdmitter ==
  ASSUME IInv, Order, StreamInv, Fewer, Grows, NEW t \in Admitters, Admitter(t)
  PROVE  StreamInv'
<1>1. /\ EngineQuiet /\ queues' \subseteq queues
      /\ UNCHANGED <<ipc, events, lpc, event, seen, stream, client, got, running, closer>>
  BY DEF EngineQuiet, evars, EngineRest, queued, served, result, channels, clients, loop, Admitter,
         TakeTask, LookAgain, AdmitSends, AdmitRaises, AdmitForgets
<1>2. adm \in [Admitters -> [at : AdmitAt, on : SUBSET Requests]]
  BY DEF IInv, ManagerOK, Admission
<1>3. PICK S : /\ \A s \in Requests : chan'[s] = IF s \in S THEN Append(chan[s], None) ELSE chan[s]
               /\ \A s \in Requests : ~NoNone(chan'[s]) => ~NoNone(chan[s]) \/ s \in S
               /\ \A s \in S : s \in Requests => gen[s] = 0 /\ ~Coming(s)'
  <2>1. CASE AdmitRaises(t)
    <3>1. PICK r \in adm[t].on : PutNone({r})
      BY <2>1 DEF AdmitRaises
    <3>2. gen[r] = 0 /\ ~Coming(r)'
      BY <2>1, AdmitFails
    <3> QED BY <3>1, <3>2, NonePut
  <2>2. CASE ~AdmitRaises(t)
    <3>1. chan' = chan
      BY <2>2 DEF hybrid, Admitter, TakeTask, LookAgain, AdmitSends, AdmitForgets
    <3>2. PICK T : T = {}
      OBVIOUS
    <3>3. /\ \A s \in Requests : chan'[s] = IF s \in T THEN Append(chan[s], None) ELSE chan[s]
          /\ \A s \in Requests : ~NoNone(chan'[s]) => ~NoNone(chan[s]) \/ s \in T
          /\ \A s \in T : s \in Requests => gen[s] = 0 /\ ~Coming(s)'
      BY <3>1, <3>2
    <3> QED BY ONLY <3>3
  <2> QED BY <2>1, <2>2
<1>4. \A s \in Requests : Flow(s)'
  BY <1>1, <1>3, FlowOutside
<1>5. \A u \in Admitters : adm'[u].at = "forget" =>
        adm'[u] = adm[u] \/ \A r \in adm'[u].on : Dropped(r)'
  <2>1. \A u \in Admitters : u # t => adm'[u] = adm[u]
    BY <1>2 DEF Admitter, TakeTask, LookAgain, AdmitSends, AdmitRaises, AdmitForgets
  <2>2. CASE AdmitRaises(t)
    <3>1. adm'[t].on = adm[t].on
      BY <1>2, <2>2 DEF AdmitRaises
    <3>2. \A r \in adm[t].on : Dropped(r)'
      BY <1>1, <2>2, AdmitFails DEF Dropped, EngineQuiet
    <3> QED BY <2>1, <3>1, <3>2
  <2>3. CASE ~AdmitRaises(t)
    <3>1. adm'[t].at # "forget"
      BY <1>2, <2>3 DEF Admitter, TakeTask, LookAgain, AdmitSends, AdmitForgets, Free
    <3> QED BY <2>1, <3>1
  <2> QED BY <2>2, <2>3
<1>6. Looked'
  BY <1>1, <1>5, LookedKept
<1>7. Ended'
  <2>1. ASSUME running', NEW s \in Requests
        PROVE  client'[s] \in {"adding", "added"} =>
                 \/ s \in queues' \/ (client'[s] = "added" /\ Dropped(s)')
                 \/ client'[s] = client[s] /\ (s \in queues => s \in queues')
    <3>1. CASE AdmitForgets(t) /\ s \in adm[t].on
      <4>1. Dropped(s)
        BY <3>1 DEF AdmitForgets, StreamInv, Looked
      <4>2. Dropped(s)'
        BY <4>1, Gone
      <4>3. client'[s] # "adding"
        BY <4>2 DEF Dropped, Coming, Before, Unsent
      <4> QED BY <4>2, <4>3
    <3>2. CASE ~(AdmitForgets(t) /\ s \in adm[t].on)
      <4>1. s \in queues => s \in queues'
        BY <3>2 DEF Admitter, TakeTask, LookAgain, AdmitSends, AdmitRaises, AdmitForgets
      <4> QED BY <1>1, <4>1
    <3> QED BY <3>1, <3>2
  <2>2. \A s \in Requests : ~NoNone(chan'[s]) => ~NoNone(chan[s]) \/ ~Coming(s)'
    BY <1>3
  <2>3. Over' = Over
    BY <1>1 DEF Over
  <2> QED BY <1>1, <2>1, <2>2, <2>3, EndedKept
<1> QED BY <1>4, <1>6, <1>7 DEF StreamInv

LEMMA StreamCloser ==
  ASSUME IInv, Order, StreamInv, Fewer, Grows, Closer
  PROVE  StreamInv'
<1>1. /\ EngineQuiet /\ queues' \subseteq queues /\ (running' => running)
      /\ UNCHANGED <<ipc, events, lpc, event, seen, stream, client, got, adm>>
  BY DEF EngineQuiet, evars, EngineRest, queued, served, result, channels, clients, loop, Closer,
         Close, CloseLocked, CloseTells, CloseJoins
<1>2. PICK S : /\ \A s \in Requests : chan'[s] = IF s \in S THEN Append(chan[s], None) ELSE chan[s]
               /\ running' => S = {} /\ queues' = queues
  <2>1. CASE CloseTells
    <3>1. ~running /\ running' = running
      BY <2>1 DEF CloseTells, StreamInv, Looked
    <3> QED BY <2>1, <3>1, NonePut DEF CloseTells
  <2>2. CASE ~CloseTells
    <3>1. chan' = chan /\ (running' => queues' = queues)
      BY <2>2 DEF hybrid, Closer, Close, CloseLocked, CloseJoins
    <3> WITNESS {}
    <3> QED BY <3>1
  <2> QED BY <2>1, <2>2
<1>3. \A s \in Requests : Flow(s)'
  BY <1>1, <1>2, FlowOutside
<1>4. closer'.at = "tell" => closer.at = "tell" \/ ~running'
  <2>1. closer \in [at : {"idle", "lock", "tell", "join", "closed"}, found : SUBSET Requests]
    BY DEF IInv, ManagerOK, Closing
  <2> QED BY <2>1 DEF Closer, Close, CloseLocked, CloseTells, CloseJoins
<1>5. Looked'
  BY <1>1, <1>4, LookedKept
<1>6. Ended'
  <2>1. running' => \A s \in Requests : chan'[s] = chan[s]
    BY <1>2
  <2> QED BY <1>1, <1>2, <2>1, EndedKept DEF Over
<1> QED BY <1>3, <1>5, <1>6 DEF StreamInv

\* The event loop ends.
LEMMA StreamStops ==
  ASSUME IInv, Order, StreamInv, Fewer, Grows, Notify \/ HangUp
  PROVE  StreamInv'
<1>1. /\ lpc' = "dead" /\ UNCHANGED <<running, queues, stream, client, got, adm, closer>>
      /\ UNCHANGED gen
  BY DEF Notify, HangUp, clients, evars, served
<1>2. PICK S : /\ \A s \in Requests : chan'[s] = IF s \in S THEN Append(chan[s], None) ELSE chan[s]
               /\ running' => S = {}
  <2>1. CASE Notify
    <3>1. ~running /\ running' = running
      BY <2>1 DEF Notify, StreamInv, Looked
    <3> QED BY <2>1, <3>1, NonePut DEF Notify
  <2>2. CASE HangUp
    <3>1. chan' = chan
      BY <2>2 DEF hybrid, HangUp
    <3> QED BY <3>1
  <2> QED BY <2>1, <2>2
<1>3. ASSUME NEW u \in Requests PROVE Flow(u)'
  <2>1. PICK d \in Nat, y \in Nat : FlowAt(u, d, y)
    BY DEF StreamInv, Flow
  <2>2. \/ chan'[u] = chan[u]
        \/ chan'[u] = Append(chan[u], None) /\ (running' => gen'[u] = 0)
    BY <1>2
  <2>3. FlowAt(u, d, y)'
    BY <1>1, <2>1, <2>2, FlowKept
  <2> QED BY <2>3 DEF Flow
<1>4. Looked'
  <2>1. \A t \in Admitters : adm[t].at = "forget" => \A r \in adm[t].on : Dropped(r) /\ r \in Requests
    BY DEF StreamInv, Looked, IInv, ManagerOK, Admission
  <2>2. \A t \in Admitters : adm'[t].at = "forget" => \A r \in adm'[t].on : Dropped(r)'
    BY <1>1, <2>1, Gone
  <2>3. closer'.at = "tell" => ~running'
    BY <1>1 DEF StreamInv, Looked
  <2> QED BY <1>1, <2>2, <2>3 DEF Looked
<1>5. Ended'
  <2>1. running' => \A s \in Requests : chan'[s] = chan[s]
    BY <1>2
  <2> QED BY <1>1, <2>1, EndedKept DEF Over
<1> QED BY <1>3, <1>4, <1>5 DEF StreamInv

\* It takes an event.
LEMMA StreamReceives ==
  ASSUME IInv, Order, StreamInv, Fewer, Grows, Receive
  PROVE  StreamInv'
<1>1. /\ lpc = "recv" /\ events # <<>> /\ events' = Tail(events) /\ event = {} /\ seen = {}
      /\ EngineQuiet /\ UNCHANGED <<ipc, stream, chan, client, got, adm, closer>>
  BY DEF Receive, StreamInv, Looked, EngineQuiet, channels, queued, served, result, hybrid, clients
<1>2. PICK e \in EvtSet : e = Arrived
  BY <1>1, ArrivedFacts DEF IInv, EngineOK
<1>3. CASE e.type = "error" \/ ~running
  <2>1. lpc' \in {"notify", "dead"} /\ ~running'
    BY <1>2, <1>3 DEF Receive
  <2>2. ASSUME NEW u \in Requests PROVE Flow(u)'
    <3>1. PICK d \in Nat, y \in Nat : FlowAt(u, d, y)
      BY DEF StreamInv, Flow
    <3>2. FlowAt(u, d, y)'
      BY <1>1, <2>1, <3>1, FlowKept
    <3> QED BY <3>2 DEF Flow
  <2>3. Looked'
    <3>1. \A t \in Admitters : adm[t].at = "forget" => \A r \in adm[t].on : Dropped(r) /\ r \in Requests
      BY DEF StreamInv, Looked, IInv, ManagerOK, Admission
    <3>2. \A t \in Admitters : adm'[t].at = "forget" => \A r \in adm'[t].on : Dropped(r)'
      BY <1>1, <3>1, Gone
    <3> QED BY <2>1, <3>2 DEF Looked
  <2>4. Ended'
    BY <2>1 DEF Ended
  <2> QED BY <2>2, <2>3, <2>4 DEF StreamInv
<1>4. CASE e.type # "error" /\ running
  <2>1. /\ lpc' = "deliver" /\ event' = {e} /\ seen' = queues \cap Told(e)
        /\ running' = running /\ queues' = queues
    BY <1>2, <1>4 DEF Receive
  <2>2. e # Error
    BY <1>4 DEF Error
  <2>3. InTransit' = InTransit
    BY <1>1, <1>2, <2>1, TransitMoves DEF StreamInv
  <2>4. ASSUME NEW u \in Requests PROVE Flow(u)'
    <3>1. PICK d \in Nat, y \in Nat : FlowAt(u, d, y)
      BY DEF StreamInv, Flow
    <3>2. Follows(u, d, y)
      BY <1>1, <3>1 DEF FlowAt
    <3>3. PICK z \in Nat : Emits(u, y, z)
      BY <3>2 DEF Follows, Transit
    <3>4. Alive' => Alive /\ ToldOf(u)' = ToldOf(u)
      BY <1>1 DEF EngineQuiet, Alive, ToldOf, Untold
    <3>5. Emits(u, y, z)'
      BY <2>3, <3>3, <3>4, EmitsKept
    <3>6. u \notin Told(e) => Tok(e, u) = <<>>
      BY <2>2, TokFacts
    <3>7. Follows(u, d, y)'
      <4>1. Transit(u, y)'
        BY <3>5 DEF Transit
      <4>2. u \in queues' \cup seen' => d = y
        BY <1>1, <2>1, <3>2 DEF Follows
      <4>3. u \in queues' \ seen' => \A f \in event' : Tok(f, u) = <<>>
        BY <2>1, <3>6
      <4> QED BY <4>1, <4>2, <4>3 DEF Follows
    <3>8. FlowAt(u, d, y)'
      BY <1>1, <2>1, <3>1, <3>7, FlowKept
    <3> QED BY <3>8 DEF Flow
  <2>5. Looked'
    <3>1. \A t \in Admitters : adm[t].at = "forget" => \A r \in adm[t].on : Dropped(r) /\ r \in Requests
      BY DEF StreamInv, Looked, IInv, ManagerOK, Admission
    <3>2. \A t \in Admitters : adm'[t].at = "forget" => \A r \in adm'[t].on : Dropped(r)'
      BY <1>1, <3>1, Gone
    <3>3. closer'.at = "tell" => ~running'
      BY <1>1, <2>1 DEF StreamInv, Looked
    <3> QED BY <2>1, <2>2, <3>2, <3>3 DEF Looked
  <2>6. Ended'
    BY <1>1, <2>1, EndedKept DEF Over
  <2> QED BY <2>4, <2>5, <2>6 DEF StreamInv
<1> QED BY <1>3, <1>4
-----------------------------------------------------------------------------
(***************************************************************************)
(* The streams: what they are given.                                       *)
(***************************************************************************)
LEMMA ThreeJoined ==
  ASSUME NEW q \in Seq(Seq(Nat)), NEW p \in Seq(Seq(Nat)), NEW l \in Seq(Seq(Nat))
  PROVE  (q \o p) \o l = q \o (p \o l)
OBVIOUS

LEMMA GivenIs ==
  ASSUME NEW u, Due(u)
  PROVE  Given(u) = [held |-> u.held, buf |-> <<>>, since |-> 0, sent |-> TRUE]
BY DEF Given, Fresh

\* A stream is given its next token, and what is due of it is put on its queue.
LEMMA FlowOne ==
  ASSUME NEW q \in Seq(Seq(Nat)), NEW t \in Seq(Nat), NEW s \in Buffers, NEW d \in Nat, NEW S,
         FlowOf(q, t, s, d, S), NEW i, i = d + 1, NEW holds \in BOOLEAN,
         NEW u, u = OnToken(s, i, holds)
  PROVE  /\ Given(u) \in Buffers /\ Pieces(u) \in Seq(Seq(Nat)) /\ q \o Pieces(u) \in Seq(Seq(Nat))
         /\ FlowOf(q \o Pieces(u), t, Given(u), i, S)
         /\ NoNone(q) => NoNone(q \o Pieces(u))
<1>1. u = IF holds THEN [s EXCEPT !.held = Append(@, i), !.since = @ + 1]
          ELSE [s EXCEPT !.buf = @ \o s.held \o <<i>>, !.held = <<>>, !.since = @ + 1]
  BY DEF OnToken
<1>2. u \in Buffers /\ FlowOf(q, t, u, i, S) /\ i \in Nat
  <2>1. i \in Nat
    OBVIOUS
  <2>2. u \in Buffers /\ FlowOf(q, t, u, i, S)
    BY <1>1, FlowToken, ZenonT(40)
  <2> QED BY <2>1, <2>2
<1>3. Given(u) \in Buffers /\ Pieces(u) \in Seq(Seq(Nat))
  BY <1>2, TokenFacts
<1>4. CASE Due(u)
  <2>1. PICK g : g = [held |-> u.held, buf |-> <<>>, since |-> 0, sent |-> TRUE]
    OBVIOUS
  <2>2. Given(u) = g /\ Pieces(u) = <<u.buf>> /\ u.buf # <<>>
    <3>1. Given(u) = g
      BY <1>4, <2>1, GivenIs
    <3>2. Pieces(u) = <<u.buf>> /\ u.buf # <<>>
      BY <1>4 DEF Pieces, Due
    <3> QED BY <3>1, <3>2
  <2>3. /\ q \o <<u.buf>> \in Seq(Seq(Nat)) /\ FlowOf(q \o <<u.buf>>, t, g, i, S)
        /\ NoNone(q) => NoNone(q \o <<u.buf>>)
    BY <1>2, <2>1, <2>2, FlowSend
  <2> QED BY <1>3, <2>2, <2>3
<1>5. CASE ~Due(u)
  <2>1. Given(u) = u /\ Pieces(u) = <<>>
    BY <1>5 DEF Given, Pieces
  <2>2. q \o <<>> = q
    OBVIOUS
  <2> QED BY <1>2, <1>3, <2>1, <2>2
<1> QED BY <1>4, <1>5

\* What was put on a stream, after what was in its queue already.
Delivered(q, t, f, d, S, ends) ==
  /\ f.state \in Buffers /\ q \o f.put \in Seq(Seq(Nat)) /\ f.put \in Seq(Seq(Nat))
  /\ FlowOf(q \o f.put, t, f.state, d, S)
  /\ ends = FALSE /\ NoNone(q) => NoNone(q \o f.put)

\* The tokens that follow those it has.
LEMMA FlowRun ==
  ASSUME NEW q \in Seq(Seq(Nat)), NEW t \in Seq(Nat), NEW s \in Buffers, NEW d \in Nat, NEW S,
         FlowOf(q, t, s, d, S), NEW e \in Nat, d <= e, NEW holds \in BOOLEAN
  PROVE  Delivered(q, t, Fed(s, Run(d, e), holds), e, S, FALSE)
<1>1. PICK toks : toks = Run(d, e)
  OBVIOUS
<1>2. PICK n : n = e - d
  OBVIOUS
<1>3. n \in Nat /\ toks \in Seq(Nat) /\ Len(toks) = n /\ \A k \in 1..n : toks[k] = d + k
  <2>1. n \in Nat
    BY <1>2
  <2>2. /\ Run(d, e) \in Seq(Nat) /\ Len(Run(d, e)) = e - d
        /\ \A k \in 1..(e - d) : Run(d, e)[k] = d + k
    BY ONLY d \in Nat, e \in Nat, d <= e, RunFacts
  <2> QED BY <1>1, <1>2, <2>1, <2>2
<1>4. PICK h \in [0..n -> FedAt] : FedSteps(h, s, toks, holds) /\ Fed(s, toks, holds) = h[n]
  BY <1>3, FedFacts
<1>5. /\ h[0] = [state |-> s, put |-> <<>>]
      /\ \A k \in 1..n : LET u == OnToken(h[k - 1].state, toks[k], holds)
                         IN  h[k] = [state |-> Given(u), put |-> h[k - 1].put \o Pieces(u)]
  BY <1>3, <1>4 DEF FedSteps
<1> DEFINE T == {k \in 0..n : Delivered(q, t, h[k], d + k, S, FALSE)}
<1>6. 0 \in T
  <2>1. h[0].state = s /\ h[0].put = <<>> /\ d + 0 = d /\ 0 \in 0..n
    BY <1>3, <1>5
  <2>2. q \o <<>> = q /\ <<>> \in Seq(Seq(Nat))
    OBVIOUS
  <2>3. Delivered(q, t, h[0], d + 0, S, FALSE)
    BY <2>1, <2>2 DEF Delivered
  <2> QED BY <2>1, <2>3
<1>7. \A k \in 1..n : k - 1 \in T => k \in T
  <2> SUFFICES ASSUME NEW k \in 1..n, k - 1 \in T PROVE k \in T
    OBVIOUS
  <2>1. k \in 0..n /\ k - 1 \in 0..n /\ d + (k - 1) \in Nat /\ d + k = (d + (k - 1)) + 1
    BY <1>3
  <2>2. PICK g, p, j : g = h[k - 1].state /\ p = h[k - 1].put /\ j = d + (k - 1)
    OBVIOUS
  <2>3. /\ g \in Buffers /\ p \in Seq(Seq(Nat)) /\ q \o p \in Seq(Seq(Nat)) /\ j \in Nat
        /\ FlowOf(q \o p, t, g, j, S) /\ (NoNone(q) => NoNone(q \o p))
    BY <2>1, <2>2 DEF Delivered
  <2>4. PICK i, u : i = d + k /\ u = OnToken(g, i, holds)
    OBVIOUS
  <2>5. i = j + 1 /\ toks[k] = i
    BY <1>3, <2>1, <2>2, <2>4
  <2>6. h[k] = [state |-> Given(u), put |-> p \o Pieces(u)]
    <3>1. u = OnToken(h[k - 1].state, toks[k], holds)
      BY <2>2, <2>4, <2>5
    <3> QED BY <1>5, <2>2, <3>1
  <2>7. PICK m, l, v : m = q \o p /\ l = Pieces(u) /\ v = Given(u)
    OBVIOUS
  <2>8. m \in Seq(Seq(Nat)) /\ FlowOf(m, t, g, j, S)
    BY <2>3, <2>7
  <2>9. /\ v \in Buffers /\ l \in Seq(Seq(Nat)) /\ m \o l \in Seq(Seq(Nat))
        /\ FlowOf(m \o l, t, v, i, S) /\ (NoNone(m) => NoNone(m \o l))
    BY <2>3, <2>4, <2>5, <2>7, <2>8, FlowOne
  <2>10. m \o l = q \o (p \o l) /\ p \o l \in Seq(Seq(Nat))
    <3>1. p \in Seq(Seq(Nat)) /\ l \in Seq(Seq(Nat))
      BY <2>3, <2>9
    <3>2. (q \o p) \o l = q \o (p \o l)
      BY ONLY <3>1, q \in Seq(Seq(Nat)), ThreeJoined
    <3>3. p \o l \in Seq(Seq(Nat))
      BY ONLY <3>1
    <3> QED BY <2>7, <3>2, <3>3
  <2>11. h[k].state = v /\ h[k].put = p \o l
    BY <2>6, <2>7
  <2>12. Delivered(q, t, h[k], d + k, S, FALSE)
    BY <2>3, <2>4, <2>7, <2>9, <2>10, <2>11 DEF Delivered
  <2> QED BY <2>1, <2>12
<1>8. n \in T
  <2>1. \A k \in 0..n : k \in T
    <3> HIDE DEF T
    <3> QED BY <1>3, <1>6, <1>7, InductionTo
  <2>2. n \in 0..n
    BY <1>3
  <2> HIDE DEF T
  <2> QED BY ONLY <2>1, <2>2
<1>9. d + n = e
  BY <1>2
<1>10. Delivered(q, t, h[n], e, S, FALSE)
  BY <1>8, <1>9
<1> QED BY <1>1, <1>4, <1>10

\* Its end follows them.
LEMMA FlowFed ==
  ASSUME NEW q \in Seq(Seq(Nat)), NEW t \in Seq(Nat), NEW s \in Buffers, NEW d \in Nat, NEW S,
         FlowOf(q, t, s, d, S), NEW e \in Nat, d <= e,
         NEW holds \in BOOLEAN, NEW ends \in BOOLEAN, ends = TRUE => e \in S,
         NEW f, f = FedTo(s, Run(d, e), holds, ends)
  PROVE  Delivered(q, t, f, e, S, ends)
<1>1. PICK b : b = Fed(s, Run(d, e), holds)
  OBVIOUS
<1>2. PICK g, p : g = b.state /\ p = b.put
  OBVIOUS
<1>3. /\ g \in Buffers /\ q \o p \in Seq(Seq(Nat)) /\ p \in Seq(Seq(Nat))
      /\ FlowOf(q \o p, t, g, e, S) /\ (NoNone(q) => NoNone(q \o p))
  BY <1>1, <1>2, FlowRun DEF Delivered
<1>4. CASE ends = FALSE
  <2>1. f = b
    BY <1>1, <1>4 DEF FedTo
  <2> QED BY <1>2, <1>3, <2>1 DEF Delivered
<1>5. CASE ends = TRUE
  <2>1. PICK l, h : l = LastPieces(g) /\ h = Fresh
    OBVIOUS
  <2>2. f = [state |-> h, put |-> p \o l]
    BY <1>1, <1>2, <1>5, <2>1 DEF FedTo
  <2>3. l = (IF g.buf \o g.held = <<>> THEN <<(<<>>)>> ELSE <<g.buf \o g.held, <<>> >>)
        /\ h.buf = <<>> /\ h.held = <<>> /\ h \in Buffers
    BY <2>1 DEF LastPieces, None, Fresh, Buffers
  <2>4. l \in Seq(Seq(Nat))
    <3>1. PICK x, y : x = g.buf \o g.held /\ y = <<>>
      OBVIOUS
    <3>2. x \in Seq(Nat) /\ y \in Seq(Nat)
      BY <1>3, <3>1 DEF Buffers
    <3>3. l = IF x = y THEN <<y>> ELSE <<x, y>>
      BY <2>3, <3>1
    <3> QED BY <3>2, <3>3
  <2>5. PICK m : m = q \o p
    OBVIOUS
  <2>6. m \o l \in Seq(Seq(Nat)) /\ FlowOf(m \o l, t, h, e, S)
    <3>1. m \in Seq(Seq(Nat)) /\ FlowOf(m, t, g, e, S) /\ g \in Buffers /\ e \in S
      BY <1>3, <1>5, <2>5
    <3> QED BY ONLY <2>3, <3>1, e \in Nat, t \in Seq(Nat), FlowEnd
  <2>7. q \o (p \o l) = m \o l /\ p \o l \in Seq(Seq(Nat))
    <3>1. p \in Seq(Seq(Nat))
      BY <1>3
    <3>2. (q \o p) \o l = q \o (p \o l)
      BY ONLY <2>4, <3>1, q \in Seq(Seq(Nat)), ThreeJoined
    <3>3. p \o l \in Seq(Seq(Nat))
      BY ONLY <2>4, <3>1
    <3> QED BY <2>5, <3>2, <3>3
  <2>8. f.state = h /\ f.put = p \o l
    BY <2>2
  <2> QED BY <1>5, <2>3, <2>6, <2>7, <2>8 DEF Delivered
<1> QED BY <1>4, <1>5

\* What an event brings one stream: the first of what is on its way.
LEMMA FirstCarries ==
  ASSUME IInv, Order, StreamInv, Fewer, Grows, NEW e \in EvtSet \ {Error}, event = {e},
         event' = {}, UNCHANGED <<ipc, events, epc, out, gen>>,
         NEW r \in Requests, NEW y \in Nat, Transit(r, y)
  PROVE  \E m \in Nat : /\ y <= m /\ m <= gen[r] /\ TokensOf(e, r) = Run(y, m) /\ Transit(r, m)'
                        /\ r \in e.fin => r \in Final /\ m = gen[r]
<1>1. PICK z \in Nat : Emits(r, y, z)
  BY DEF Transit
<1>2. PICK q : q = InTransit
  OBVIOUS
<1>3. q \in Seq(EvtSet) /\ q # <<>> /\ Head(q) = e /\ InTransit' = Tail(q)
  BY <1>2, TransitIs, TransitMoves DEF StreamInv
<1>4. Trail(q, r, y, z) /\ z <= gen[r] /\ (Finishes(q, r) => IsLast(r, z)) /\ (Alive => z = ToldOf(r))
  BY <1>1, <1>2 DEF Emits
<1>5. PICK m \in Nat : /\ y <= m /\ m <= z /\ Tok(e, r) = Run(y, m) /\ Trail(Tail(q), r, m, z)
                       /\ Finishes(Tail(q), r) => Finishes(q, r)
                       /\ r \in Fin(e) => m = z /\ Finishes(q, r)
  BY <1>3, <1>4, TrailTail
<1>6. Tok(e, r) = TokensOf(e, r) /\ Fin(e) = e.fin
  BY TokFacts
<1>7. gen[r] \in Nat /\ m <= gen[r]
  BY <1>4, <1>5, Gone
<1>8. r \in e.fin => r \in Final /\ m = gen[r]
  BY <1>4, <1>5, <1>6 DEF IsLast
<1>9. Emits(r, m, z)'
  <2>1. IsLast(r, z) => IsLast(r, z)'
    BY Gone DEF IsLast
  <2>2. Alive' = Alive /\ ToldOf(r)' = ToldOf(r)
    BY DEF Alive, ToldOf, Untold
  <2>3. Trail(InTransit, r, m, z)' /\ (Finishes(InTransit, r)' => Finishes(q, r))
    <3>1. PICK p : p = Tail(q)
      OBVIOUS
    <3>2. Trail(p, r, m, z) /\ (Finishes(p, r) => Finishes(q, r)) /\ InTransit' = p
      BY <1>3, <1>5, <3>1
    <3> QED BY ONLY <3>2 DEF Trail, Finishes, Mapped, Pieced
  <2> QED BY <1>4, <2>1, <2>2, <2>3 DEF Emits
<1>10. Transit(r, m)'
  BY <1>9 DEF Transit
<1> QED BY <1>5, <1>6, <1>7, <1>8, <1>10

\* It delivers the event.
LEMMA StreamDelivers ==
  ASSUME IInv, Order, StreamInv, Fewer, Grows, Deliver
  PROVE  StreamInv'
<1>1. PICK e, holding :
        /\ e \in event
        /\ Put([r \in Requests |-> IF r \in seen
                  THEN FedTo(stream[r], TokensOf(e, r), r \in holding, r \in e.fin).put ELSE <<>>])
        /\ stream' = [r \in Requests |-> IF r \in seen
                  THEN FedTo(stream[r], TokensOf(e, r), r \in holding, r \in e.fin).state ELSE stream[r]]
  BY DEF Deliver
<1>2. /\ lpc = "deliver" /\ lpc' = "recv" /\ event' = {} /\ seen' = {}
      /\ UNCHANGED <<ipc, events, epc, out, gen, sessions, running, queues, client, got, adm, closer>>
  BY DEF Deliver, EngineRest, queued, served, result, clients
<1>3. event = {e} /\ e \in EvtSet \ {Error}
  BY <1>1, <1>2 DEF StreamInv, Looked
<1>4. PICK F : F = [r \in Requests |-> FedTo(stream[r], TokensOf(e, r), r \in holding, r \in e.fin)]
  OBVIOUS
<1>5. \A r \in Requests :
        /\ r \in seen => chan'[r] = chan[r] \o F[r].put /\ stream'[r] = F[r].state
        /\ r \notin seen => chan'[r] = chan[r] \o <<>> /\ stream'[r] = stream[r]
  BY <1>1, <1>4 DEF Put
<1>6. \A r \in Requests : chan[r] \in Seq(Seq(Nat)) /\ chan[r] \o <<>> = chan[r]
  <2> TAKE r \in Requests
  <2>1. chan[r] \in Seq(Seq(Nat))
    BY DEF IInv, ManagerOK, Hybrid
  <2> QED BY <2>1
<1>7. ASSUME NEW r \in Requests
      PROVE  Flow(r)' /\ (running' => (~NoNone(chan'[r]) => ~NoNone(chan[r]) \/ ~Coming(r)'))
  <2>1. PICK d, y \in Nat : FlowAt(r, d, y)
    BY DEF StreamInv, Flow
  <2>2. Follows(r, d, y)
    BY <1>2, <2>1 DEF FlowAt
  <2>3. PICK m \in Nat : /\ y <= m /\ m <= gen[r] /\ TokensOf(e, r) = Run(y, m) /\ Transit(r, m)'
                         /\ r \in e.fin => r \in Final /\ m = gen[r]
    BY <1>2, <1>3, <2>2, FirstCarries DEF Follows
  <2>4. Levels(r)' = Levels(r) /\ gen'[r] = gen[r]
    BY <1>2 DEF Levels
  <2>5. CASE r \in seen
    <3>1. d = y
      BY <2>2, <2>5 DEF Follows
    <3>2. PICK holds, ends : holds = (r \in holding) /\ ends = (r \in e.fin)
      OBVIOUS
    <3>3. holds \in BOOLEAN /\ ends \in BOOLEAN
      BY <3>2
    <3>4. F[r] = FedTo(stream[r], Run(d, m), holds, ends)
      BY <1>4, <2>3, <3>1, <3>2
    <3>5. PICK q, t, s, S, f : q = chan[r] /\ t = got[r] /\ s = stream[r] /\ S = Levels(r) /\ f = F[r]
      OBVIOUS
    <3>6. q \in Seq(Seq(Nat)) /\ t \in Seq(Nat) /\ s \in Buffers
      BY <3>5 DEF IInv, ManagerOK, Hybrid, Streams, Clients
    <3>7. FlowOf(q, t, s, d, S) /\ d \in Nat /\ d <= m
      BY <2>1, <2>3, <3>1, <3>5 DEF FlowAt
    <3>8. ends = TRUE => m \in S
      BY <2>3, <3>2, <3>5 DEF Levels
    <3>9. f = FedTo(s, Run(d, m), holds, ends)
      BY <3>4, <3>5
    <3>10. Delivered(q, t, f, m, S, ends)
      BY ONLY <3>3, <3>6, <3>7, <3>8, <3>9, m \in Nat, FlowFed
    <3>11. chan'[r] = q \o f.put /\ stream'[r] = f.state /\ got'[r] = t
      BY <1>2, <1>5, <2>5, <3>5
    <3>12. FlowAt(r, m, m)'
      <4>1. FlowOf(chan'[r], got'[r], stream'[r], m, Levels(r)')
        BY <2>4, <3>5, <3>10, <3>11 DEF Delivered
      <4>2. Follows(r, m, m)'
        BY <1>2, <2>3 DEF Follows
      <4> QED BY <2>3, <2>4, <4>1, <4>2 DEF FlowAt
    <3>13. ~NoNone(chan'[r]) => ~NoNone(chan[r]) \/ ~Coming(r)'
      <4>1. CASE ends = TRUE
        <5>1. ~Coming(r)
          BY <2>3, <3>2, <4>1, Gone
        <5> QED BY <5>1, Gone
      <4>2. CASE ends = FALSE
        BY <3>5, <3>10, <3>11, <4>2 DEF Delivered
      <4> QED BY <3>3, <4>1, <4>2
    <3> QED BY <3>12, <3>13 DEF Flow
  <2>6. CASE r \notin seen
    <3>1. chan'[r] = chan[r] /\ stream'[r] = stream[r]
      BY <1>5, <1>6, <2>6
    <3>2. r \in queues => d = m
      <4>1. ASSUME r \in queues PROVE d = m
        <5>1. d = y /\ Tok(e, r) = <<>>
          BY <1>3, <2>2, <2>6, <4>1 DEF Follows
        <5>2. Run(y, m) = <<>>
          BY <1>3, <2>3, <5>1, TokFacts
        <5>3. m = y
          <6>1. Len(Run(y, m)) = m - y
            BY ONLY y \in Nat, m \in Nat, <2>3, RunFacts
          <6> QED BY <5>2, <6>1
        <5> QED BY <5>1, <5>3
      <4> QED BY <4>1
    <3>3. FlowAt(r, d, m)'
      <4>1. Follows(r, d, m)'
        BY <1>2, <2>3, <3>2 DEF Follows
      <4> QED BY <1>2, <2>1, <2>4, <3>1, <4>1 DEF FlowAt
    <3> QED BY <3>1, <3>3 DEF Flow
  <2> QED BY <2>5, <2>6
<1>8. Looked'
  <2>1. \A t \in Admitters : adm[t].at = "forget" => \A r \in adm[t].on : Dropped(r) /\ r \in Requests
    BY DEF StreamInv, Looked, IInv, ManagerOK, Admission
  <2>2. \A t \in Admitters : adm'[t].at = "forget" => \A r \in adm'[t].on : Dropped(r)'
    BY <1>2, <2>1, Gone
  <2>3. closer'.at = "tell" => ~running'
    BY <1>2 DEF StreamInv, Looked
  <2> QED BY <1>2, <2>2, <2>3 DEF Looked
<1>9. Ended'
  BY <1>2, <1>7, EndedKept DEF Over
<1> QED BY <1>7, <1>8, <1>9 DEF StreamInv

\* The process handles a command: it says nothing of a request.
LEMMA HandlesQuiet ==
  ASSUME IInv, cmds # <<>>, Handle(Command)
  PROVE  UNCHANGED <<ipc, events, gen, out>>
<1>1. Command \in CmdSet
  BY CommandFacts DEF IInv, EngineOK
<1>2. PICK c : c = Command
  OBVIOUS
<1>3. c.op \in {"add", "cancel", "shutdown"}
  BY <1>1, <1>2, CmdCases
<1>4. \/ c.op \in {"add", "add_batch"} /\ Enqueued(c) /\ UNCHANGED events
      \/ c.op = "cancel" /\ Canceled(Head(c.on)) /\ UNCHANGED events
      \/ c.op \in {"start", "stop"}
      \/ c.op = "shutdown" /\ UNCHANGED <<queued, served, events>>
  BY <1>2 DEF Handle
<1>5. gen' = gen /\ events' = events
  BY <1>3, <1>4 DEF Enqueued, Canceled, served
<1> QED BY <1>5 DEF Handle, channels, result

\* What is on its way stays so, whatever the process does.
LEMMA ProcessEmits ==
  ASSUME IInv, Order, StreamInv, Fewer, Grows, Process, lpc \in {"recv", "deliver"},
         NEW r \in Requests, NEW y \in Nat, Transit(r, y)
  PROVE  Transit(r, y)'
<1>0. event' = event
  BY DEF Process, mvars, loop
<1>1. PICK z \in Nat : Emits(r, y, z)
  BY DEF Transit
<1>2. ASSUME UNCHANGED <<ipc, events>>, Alive' => Alive /\ ToldOf(r)' = ToldOf(r)
      PROVE  Transit(r, y)'
  <2>1. InTransit' = InTransit
    BY <1>0, <1>2, TransitMoves DEF StreamInv
  <2>2. Emits(r, y, z)'
    BY <1>1, <1>2, <2>1, EmitsKept
  <2> QED BY <2>2 DEF Transit
<1>3. CASE GetBlocking \/ DrainOne
  <2>1. cmds # <<>> /\ Handle(Command) /\ Alive
    BY <1>3 DEF GetBlocking, DrainOne, Alive
  <2>2. UNCHANGED <<ipc, events, gen, out>>
    BY <2>1, HandlesQuiet
  <2>3. ToldOf(r)' = ToldOf(r)
    BY <2>2 DEF ToldOf, Untold
  <2> QED BY <1>2, <2>1, <2>2, <2>3
<1>4. CASE Admit
  <2>1. PICK b, fin : Admitted(b, fin)
    BY <1>4, AdmitShape
  <2>2. /\ b = Taken /\ gen' = [s \in Requests |-> IF s \in Range(b) THEN 1 ELSE gen[s]]
        /\ out' = [i \in DOMAIN b |-> [rid |-> b[i], tok |-> 1]]
        /\ UNCHANGED <<ipc, events>>
    BY <2>1 DEF Admitted, channels
  <2>3. out = <<>> /\ Alive
    BY <1>4 DEF Admit, Admitting, Order, Produced, Alive
  <2>4. AdmitLimit \in Nat /\ Queued
    <3>1. IsFiniteSet(sessions) /\ active = sessions /\ Cardinality(sessions) <= KVConc
      BY <2>3, FS_Subset, MessagesAssumption DEF IInv, EngineOK, Served
    <3> QED BY <3>1, LimitFacts DEF IInv, EngineOK
  <2>5. Range(b) \subseteq byRid
    BY <2>2, <2>4, TakenFacts
  <2>6. Untold = {} /\ Untold' = Range(b)
    <3>1. DOMAIN out = {} /\ DOMAIN out' = DOMAIN b /\ \A i \in DOMAIN b : out'[i].rid = b[i]
      BY <2>2, <2>3
    <3> QED BY <3>1 DEF Untold, Range
  <2>7. ToldOf(r)' = ToldOf(r)
    BY <2>2, <2>5, <2>6 DEF ToldOf, Order, Forward
  <2> QED BY <1>2, <2>2, <2>3, <2>7
<1>5. CASE Step
  <2>1. PICK chosen, fin : Stepped(chosen, fin)
    BY <1>5, StepShape DEF IInv, EngineOK, Channels
  <2> QED BY <1>0, <1>5, <2>1, StepEmits DEF Step
<1>6. CASE EngineRaises
  BY <1>0, <1>6, ErrorEmits
<1>7. CASE Dies
  BY <1>2, <1>7 DEF Dies, channels, Alive
<1> QED BY <1>3, <1>4, <1>5, <1>6, <1>7 DEF Process, Engine

LEMMA StreamProcess ==
  ASSUME IInv, Order, StreamInv, Fewer, Grows, Process
  PROVE  StreamInv'
<1>1. UNCHANGED <<running, queues, stream, chan, admitQ, adm, client, got, lpc, event, seen, closer>>
  BY DEF Process, mvars, hybrid, clients, loop
<1>2. ASSUME NEW r \in Requests PROVE Flow(r)'
  <2>1. PICK d \in Nat, y \in Nat : FlowAt(r, d, y)
    BY DEF StreamInv, Flow
  <2>2. lpc' \in {"recv", "deliver"} => Follows(r, d, y)'
    <3>1. ASSUME lpc \in {"recv", "deliver"} PROVE Follows(r, d, y)'
      <4>1. Follows(r, d, y)
        BY <2>1, <3>1 DEF FlowAt
      <4>2. Transit(r, y)'
        BY <3>1, <4>1, ProcessEmits DEF Follows
      <4> QED BY <1>1, <4>1, <4>2 DEF Follows
    <3> QED BY <1>1, <3>1
  <2>3. FlowAt(r, d, y)'
    BY <1>1, <2>1, <2>2, FlowKept
  <2> QED BY <2>3 DEF Flow
<1>3. Looked'
  BY <1>1, LookedKept
<1>4. Ended'
  BY <1>1, EndedKept DEF Over
<1> QED BY <1>2, <1>3, <1>4 DEF StreamInv

\* Every step.
LEMMA StreamKept == ASSUME IInv, Order, StreamInv, [Next]_vars PROVE StreamInv'
<1>0. Fewer /\ Grows
  BY OrderKept DEF Forth
<1>1. CASE UNCHANGED vars
  <2>1. /\ UNCHANGED <<ipc, events, lpc, event, seen, stream, got, queues, running, chan, client>>
        /\ UNCHANGED <<adm, closer>> /\ EngineQuiet
    BY <1>1 DEF vars, evars, channels, queued, served, result, mvars, hybrid, clients, loop, EngineQuiet
  <2>2. PICK S : S = {}
    OBVIOUS
  <2>3. \A r \in Requests : chan'[r] = IF r \in S THEN Append(chan[r], None) ELSE chan[r]
    BY <2>1, <2>2
  <2>4. \A r \in Requests : Flow(r)'
    BY <1>0, <2>1, <2>2, <2>3, FlowOutside
  <2>5. Looked'
    BY <1>0, <2>1, LookedKept
  <2>6. Ended'
    BY <1>0, <2>1, EndedKept DEF Over
  <2> QED BY <2>4, <2>5, <2>6 DEF StreamInv
<1>2. CASE \E r \in Requests : Register(r) \/ Adder(r) \/ Open(r) \/ Reader(r) \/ Abandon(r) \/ LoopSets(r)
  BY <1>0, <1>2, StreamClient, StreamRead, StreamRegister DEF Adder, Reader
<1>3. CASE \E t \in Admitters : Admitter(t)
  BY <1>0, <1>3, StreamAdmitter
<1>4. CASE Loop \/ Closer
  BY <1>0, <1>4, StreamReceives, StreamDelivers, StreamStops, StreamCloser DEF Loop
<1>5. CASE Process
  BY <1>0, <1>5, StreamProcess
<1> QED BY <1>1, <1>2, <1>3, <1>4, <1>5 DEF Next

LEMMA StreamInit == Init => StreamInv
<1> SUFFICES ASSUME Init PROVE StreamInv
  OBVIOUS
<1>1. /\ gen = [r \in Requests |-> 0] /\ got = [r \in Requests |-> <<>>]
      /\ chan = [r \in Requests |-> <<>>] /\ stream = [r \in Requests |-> Fresh]
      /\ events = <<>> /\ out = <<>> /\ event = {} /\ seen = {} /\ queues = {} /\ lpc = "recv"
      /\ client = [r \in Requests |-> "idle"] /\ adm = [t \in Admitters |-> Free] /\ closer.at = "idle"
  BY DEF Init, EngineInit
<1>2. InTransit = Evts /\ DOMAIN Evts = {} /\ Evts = <<>>
  BY <1>1 DEF InTransit, Evts
<1>3. Looked
  BY <1>1 DEF Looked, Free
<1>4. Ended
  <2>1. \A r \in Requests : DOMAIN chan[r] = {}
    BY <1>1
  <2> QED BY <1>1, <2>1 DEF Ended, NoNone, Over
<1>5. ASSUME NEW r \in Requests PROVE Flow(r)
  <2>1. PICK q, s : q = <<>> /\ s = Fresh
    OBVIOUS
  <2>2. s.buf = <<>> /\ s.held = <<>>
    BY <2>1 DEF Fresh
  <2>3. q \in Seq(Nat) /\ q \in Seq(Seq(Nat)) /\ Len(q) = 0 /\ DOMAIN q = {}
    BY <2>1
  <2>4. Run(0, 0) = <<>>
    BY RunSmall
  <2>5. \A S : Pieced(q, 0, 0, S)
    BY <2>1, PiecedEmpty
  <2>6. FlowOf(q, q, s, 0, Levels(r))
    BY <2>1, <2>2, <2>3, <2>4, <2>5 DEF FlowOf
  <2>7. FlowOf(chan[r], got[r], stream[r], 0, Levels(r))
    BY <1>1, <2>1, <2>6
  <2>8. Transit(r, 0)
    <3>1. Mapped(q, r) = q
      BY <2>1, <2>3 DEF Mapped
    <3>2. Trail(q, r, 0, 0) /\ ~Finishes(q, r)
      BY <2>3, <2>5, <3>1 DEF Trail, Finishes
    <3>3. DOMAIN out = {}
      BY <1>1
    <3>4. ToldOf(r) = 0 /\ gen[r] = 0
      BY <1>1, <3>3 DEF ToldOf, Untold
    <3>5. InTransit = q
      BY <1>2, <2>1
    <3>6. Emits(r, 0, 0)
      BY <3>2, <3>4, <3>5 DEF Emits
    <3> QED BY <3>6 DEF Transit
  <2>9. FlowAt(r, 0, 0)
    BY <1>1, <2>7, <2>8 DEF FlowAt, Follows
  <2> QED BY <2>9 DEF Flow
<1> QED BY <1>3, <1>4, <1>5 DEF StreamInv

-----------------------------------------------------------------------------
(***************************************************************************)
(* A step of a client is a step of StreamContract, as is an error that     *)
(* comes, or close; all else generates, or does not.                       *)
(***************************************************************************)
AbstractStep ==
  \/ /\ \A r \in Requests : \/ gen'[r] = gen[r]
                            \/ (~running \/ r \notin Final \cup Over) /\ gen'[r] = gen[r] + 1
     /\ DOMAIN gen' = Requests
     /\ Final \subseteq Final'
     /\ UNCHANGED <<got, Over, running>>
  \/ \E r \in Requests \ Over :
       /\ \E n \in (Len(got[r]) + 1)..gen[r] : got' = [got EXCEPT ![r] = [i \in 1..n |-> i]]
       /\ UNCHANGED <<gen, Final, Over, running>>
  \/ \E r \in Requests \ Over :
       /\ ~running \/ gen[r] = 0 \/ (r \in Final /\ Len(got[r]) = gen[r])
       /\ Over' = Over \cup {r}
       /\ UNCHANGED <<gen, Final, got, running>>
  \/ ~running' /\ UNCHANGED <<gen, Final, got, Over>>

\* AbstractStep is a step of StreamContract under the refinement mapping.
LEMMA AbstractIs == AbstractStep => Contract!SNext
<1>1. Final = {r \in Requests : gen[r] > 0 /\ r \notin sessions}
      /\ Final' = {r \in Requests : gen'[r] > 0 /\ r \notin sessions'}
  BY DEF Final
<1>2. Over = {r \in Requests : client[r] \in {"read", "canceling", "done"}}
      /\ Over' = {r \in Requests : client'[r] \in {"read", "canceling", "done"}}
  BY DEF Over
<1>3. Final \subseteq Requests /\ Final' \subseteq Requests /\ Over \subseteq Requests
  BY <1>1, <1>2
<1>4. CASE /\ \A r \in Requests : \/ gen'[r] = gen[r]
                                  \/ (~running \/ r \notin Final \cup Over) /\ gen'[r] = gen[r] + 1
           /\ DOMAIN gen' = Requests
           /\ Final \subseteq Final'
           /\ UNCHANGED <<got, Over, running>>
  <2>1. Contract!Generate
    BY <1>1, <1>2, <1>3, <1>4 DEF Contract!Generate, Contract!MayGrow
  <2> QED BY <2>1 DEF Contract!SNext
<1>5. ASSUME NEW r \in Requests \ Over,
             \E n \in (Len(got[r]) + 1)..gen[r] : got' = [got EXCEPT ![r] = [i \in 1..n |-> i]],
             UNCHANGED <<gen, Final, Over, running>>
      PROVE  Contract!SNext
  <2>1. Contract!Receive(r)
    BY <1>1, <1>2, <1>5 DEF Contract!Receive
  <2> QED BY <2>1 DEF Contract!SNext
<1>6. ASSUME NEW r \in Requests \ Over,
             ~running \/ gen[r] = 0 \/ (r \in Final /\ Len(got[r]) = gen[r]),
             Over' = Over \cup {r},
             UNCHANGED <<gen, Final, got, running>>
      PROVE  Contract!SNext
  <2>1. Contract!End(r)
    BY <1>1, <1>2, <1>6 DEF Contract!End
  <2> QED BY <2>1 DEF Contract!SNext
<1>7. CASE ~running' /\ UNCHANGED <<gen, Final, got, Over>>
  <2>1. Contract!Stop
    BY <1>1, <1>2, <1>7 DEF Contract!Stop
  <2> QED BY <2>1 DEF Contract!SNext
<1> QED BY <1>4, <1>5, <1>6, <1>7 DEF AbstractStep

\* A step that a client does not notice.
LEMMA QuietIs ==
  ASSUME IInv, IInv', Order, StreamInv, Fewer, Grows, UNCHANGED <<got, Over, running>>
  PROVE  AbstractStep
<1>1. DOMAIN gen' = Requests
  BY DEF IInv, EngineOK, Served
<1>2. Final \subseteq Final'
  BY Gone
<1>3. ASSUME NEW r \in Requests, gen'[r] # gen[r]
      PROVE  (~running \/ r \notin Final \cup Over) /\ gen'[r] = gen[r] + 1
  <2>1. Coming(r) /\ gen'[r] = gen[r] + 1
    BY <1>3 DEF Grows
  <2>2. r \notin Final
    BY <2>1, Gone
  <2>3. running => r \notin Over
    BY <2>1 DEF StreamInv, Ended
  <2> QED BY <2>1, <2>2, <2>3
<1> QED BY <1>1, <1>2, <1>3 DEF AbstractStep

\* A client reads the next tokens, or the end.
LEMMA ReadIs == ASSUME IInv, Order, StreamInv, Fewer, Grows, NEW r \in Requests, Read(r) PROVE AbstractStep
<1>1. /\ client[r] = "open" /\ chan[r] # <<>>
      /\ got' = [got EXCEPT ![r] = got[r] \o Head(chan[r])]
      /\ client' = [client EXCEPT ![r] = IF Head(chan[r]) = <<>> THEN "read" ELSE client[r]]
      /\ UNCHANGED <<gen, sessions, running>>
  BY DEF Read, None, evars, served
<1>2. client'[r] = (IF Head(chan[r]) = <<>> THEN "read" ELSE "open")
      /\ \A p \in Requests \ {r} : client'[p] = client[p]
  BY <1>1 DEF IInv, ManagerOK, Clients
<1>3. Final' = Final /\ r \notin Over
  BY <1>1 DEF Final, Over
<1>4. PICK q, t, g, s : q = chan[r] /\ t = got[r] /\ g = gen[r] /\ s = stream[r]
  OBVIOUS
<1>5. /\ q \in Seq(Seq(Nat)) /\ t \in Seq(Nat) /\ q # <<>> /\ g \in Nat
      /\ got \in [Requests -> Seq(Nat)]
  BY <1>1, <1>4, Gone DEF IInv, ManagerOK, Hybrid, Clients
<1>6. PICK d \in Nat : FlowOf(q, t, s, d, Levels(r)) /\ d <= g
  BY <1>4 DEF StreamInv, Flow, FlowAt
<1>7. PICK m \in Nat : /\ m <= d /\ t \o Head(q) = Run(0, m) /\ t = Run(0, Len(t)) /\ Len(t) <= m
                       /\ Head(q) = <<>> <=> Len(t) = m
                       /\ Len(t) = m => m \in Levels(r)
  BY ONLY <1>5, <1>6, FlowGet
<1>8. CASE Head(q) = <<>>
  <2>1. Len(t) = m /\ t \o Head(q) = t
    BY <1>7, <1>8
  <2>2. got' = got
    BY <1>1, <1>4, <1>5, <2>1
  <2>3. Over' = Over \cup {r}
    BY <1>2, <1>4, <1>8 DEF Over
  <2>4. running => m = g
    BY <1>4, <1>7, <2>1 DEF Levels
  <2>5. ~NoNone(q)
    BY <1>5, <1>8, TailFacts DEF NoNone
  <2>6. running => r \notin sessions
    BY <1>4, <2>5 DEF StreamInv, Ended, Coming
  <2>7. ~running \/ gen[r] = 0 \/ (r \in Final /\ Len(got[r]) = gen[r])
    BY <1>4, <1>5, <2>1, <2>4, <2>6 DEF Final
  <2> QED BY <1>1, <1>3, <2>2, <2>3, <2>7 DEF AbstractStep
<1>9. CASE Head(q) # <<>>
  <2>1. UNCHANGED Over
    BY <1>1, <1>2, <1>4, <1>9 DEF Over
  <2>2. m \in (Len(t) + 1)..g
    BY <1>5, <1>6, <1>7, <1>9
  <2>3. Run(0, m) = [i \in 1..m |-> i]
    <3>1. m - 0 = m /\ \A i \in 1..m : 0 + i = i
      OBVIOUS
    <3> QED BY <3>1 DEF Run
  <2>4. got' = [got EXCEPT ![r] = [i \in 1..m |-> i]]
    BY ONLY <1>1, <1>4, <1>7, <2>3
  <2>5. \E n \in (Len(got[r]) + 1)..gen[r] : got' = [got EXCEPT ![r] = [i \in 1..n |-> i]]
    BY ONLY <1>4, <2>2, <2>4
  <2> QED BY <1>1, <1>3, <2>1, <2>5 DEF AbstractStep
<1> QED BY <1>8, <1>9

\* The other steps of a client.
LEMMA ClientIs ==
  ASSUME IInv, IInv', Order, StreamInv, Fewer, Grows, NEW r \in Requests,
         Register(r) \/ Adder(r) \/ Open(r) \/ Await(r) \/ Awake(r) \/ EndStream(r) \/ Abandon(r)
           \/ LoopSets(r) \/ CancelBackend(r)
  PROVE  AbstractStep
<1>1. UNCHANGED <<gen, sessions, got, running>>
  BY DEF Register, Adder, Submit, AddRaises, Send, Open, Await, Awake, EndStream, Abandon, Leave,
         LoopSets, CancelBackend, clients, evars, EngineRest, served
<1>2. client \in [Requests -> ClientAt]
  BY DEF IInv, ManagerOK, Clients
<1>3. CASE Open(r) /\ r \notin queues
  <2>1. client[r] = "added" /\ client' = [client EXCEPT ![r] = "done"]
    BY <1>3 DEF Open
  <2>2. r \notin Over /\ Over' = Over \cup {r}
    BY <1>2, <2>1 DEF Over
  <2>3. ~running \/ gen[r] = 0
    BY <1>3, <2>1 DEF StreamInv, Ended, Dropped
  <2>4. Final' = Final
    BY <1>1 DEF Final
  <2> QED BY <1>1, <2>2, <2>3, <2>4 DEF AbstractStep
<1>4. CASE ~(Open(r) /\ r \notin queues)
  <2>1. /\ \A q \in Requests \ {r} : client'[q] = client[q]
        /\ client[r] \in {"read", "canceling", "done"} <=> client'[r] \in {"read", "canceling", "done"}
    <3>1. CASE Register(r) \/ Adder(r) \/ Await(r) \/ Awake(r)
      BY <1>2, <3>1 DEF Register, Adder, Submit, AddRaises, Send, Await, Awake
    <3>2. CASE Open(r)
      BY <1>2, <1>4, <3>2 DEF Open
    <3>3. CASE EndStream(r) \/ Abandon(r) \/ CancelBackend(r)
      BY <1>2, <3>3 DEF EndStream, Abandon, Leave, CancelBackend
    <3>4. CASE LoopSets(r)
      BY <3>4 DEF LoopSets, clients
    <3> QED BY <3>1, <3>2, <3>3, <3>4
  <2>2. Over' = Over
    BY <2>1 DEF Over
  <2> QED BY <1>1, <2>2, QuietIs
<1> QED BY <1>3, <1>4

\* The steps of the threads and of the process.
LEMMA ThreadIs ==
  ASSUME IInv, IInv', Order, StreamInv, Fewer, Grows,
         (\E t \in Admitters : Admitter(t)) \/ Loop \/ Closer \/ Process \/ UNCHANGED vars
  PROVE  AbstractStep
<1>1. client' = client /\ got' = got
  BY DEF Admitter, TakeTask, LookAgain, AdmitSends, AdmitRaises, AdmitForgets, Loop, Receive, Deliver,
         Notify, HangUp, Closer, Close, CloseLocked, CloseTells, CloseJoins, Process, vars, mvars, clients
<1>2. Over' = Over
  BY <1>1 DEF Over
<1>3. CASE running' = running
  BY <1>1, <1>2, <1>3, QuietIs
<1>4. CASE running' # running
  <2>1. Receive \/ CloseLocked
    BY <1>4 DEF Admitter, TakeTask, LookAgain, AdmitSends, AdmitRaises, AdmitForgets, Loop, Deliver,
         Notify, HangUp, Closer, Close, CloseTells, CloseJoins, Process, vars, mvars
  <2>2. UNCHANGED <<gen, sessions>> /\ ~running'
    BY <1>4, <2>1 DEF Receive, CloseLocked, evars, served
  <2> QED BY <1>1, <1>2, <2>2 DEF AbstractStep, Final
<1> QED BY <1>3, <1>4

\* Every step is a step of StreamContract.
LEMMA NextIs ==
  ASSUME IInv, IInv', Order, StreamInv, [Next]_vars
  PROVE  Contract!SNext
<1>0. Fewer /\ Grows
  BY OrderKept DEF Forth
<1>1. CASE \E r \in Requests : Read(r)
  BY <1>0, <1>1, ReadIs, AbstractIs
<1>2. CASE \E r \in Requests : \/ Register(r) \/ Adder(r) \/ Open(r) \/ Await(r) \/ Awake(r)
                               \/ EndStream(r) \/ Abandon(r) \/ LoopSets(r) \/ CancelBackend(r)
  BY <1>0, <1>2, ClientIs, AbstractIs
<1>3. CASE (\E t \in Admitters : Admitter(t)) \/ Loop \/ Closer \/ Process \/ UNCHANGED vars
  BY <1>0, <1>3, ThreadIs, AbstractIs
<1> QED BY <1>1, <1>2, <1>3 DEF Next, Reader

\* The initial states are initial states of StreamContract.
LEMMA InitIs == Init => Contract!SInit
<1> SUFFICES ASSUME Init PROVE Contract!SInit
  OBVIOUS
<1>1. /\ gen = [r \in Requests |-> 0] /\ got = [r \in Requests |-> <<>>] /\ running = TRUE
      /\ client = [r \in Requests |-> "idle"]
  BY DEF Init, EngineInit
<1>2. {r \in Requests : gen[r] > 0 /\ r \notin sessions} = {}
  BY <1>1
<1>3. Over = {}
  BY <1>1 DEF Over
<1> QED BY <1>1, <1>2, <1>3 DEF Contract!SInit

\* Every behaviour of the two processes is one of StreamContract: although tokens,
\* cancellations, failures and close cross between them, each client sees its tokens in
\* order, without gaps or repetitions, and one end, after the last of them unless the
\* manager stopped or its request came to nothing.
THEOREM StreamsInOrder == Spec => ImplementsStreams
<1>1. Init => IInv /\ Order /\ StreamInv
  BY InitInv, OrderInit, StreamInit
<1>2. IInv /\ Order /\ StreamInv /\ [Next]_vars => (IInv /\ Order /\ StreamInv)'
  BY StepInv, OrderKept, StreamKept DEF Forth
<1>3. IInv /\ IInv' /\ Order /\ StreamInv /\ [Next]_vars => [Contract!SNext]_(Contract!svars)
  BY NextIs
<1> QED BY <1>1, <1>2, <1>3, InitIs, PTL DEF Spec, ImplementsStreams, Contract!SSpec
=============================================================================
