------------------------------ MODULE PDManager ------------------------------
(***************************************************************************)
(* PDDisaggregatedSchedulerManager: one thread prefills requests in its    *)
(* own engine, another decodes them in a second engine into whose pool the *)
(* blocks of the prompt are copied.  A queue of results leads from the     *)
(* first to the second, a queue of ids whose copy is complete leads back,  *)
(* and the maps of streams, under one lock, connect both with the clients. *)
(*                                                                         *)
(* The schedulers are those of the engine: prefilling gives a request its  *)
(* first token, each step of the decoder one more for every session.       *)
(***************************************************************************)
EXTENDS TextStream, SequencesExt

CONSTANTS
  Requests,    \* request ids; an id is used once
  MaxNew,      \* max_new_tokens of every request
  MaxPrefill,  \* prefill_max_batch_size
  MaxTokens,   \* prefill_max_tokens, of prompts of one token (0: None)
  MaxActive,   \* max_active_requests (0: None)
  MaxInflight, \* max_inflight_requests (0: None)
  Tokenizers,  \* tokenize threads
  AsyncCopy,   \* blocks are copied on a CUDA device
  Errors       \* whether the tokenizer and the engines may raise

ASSUME PDAssumption ==
  /\ IsFiniteSet(Requests) /\ IsFiniteSet(Tokenizers)
  /\ MaxNew \in Nat \ {0} /\ MaxPrefill \in Nat \ {0}
  /\ MaxTokens \in Nat /\ MaxActive \in Nat /\ MaxInflight \in Nat
  /\ AsyncCopy \in BOOLEAN /\ Errors \in BOOLEAN

VARIABLES
  running,   \* _running
  queues,    \* keys of _queues, _detoks and _stream_states
  stream,    \* a stream's detokenizer and _StreamState
  chan,      \* what is in a stream's queue
  canceled,  \* _canceled
  tokQ,      \* _tokenize_q
  toker,     \* where a tokenize thread is, and the request it serves
  pending,   \* _pending_buf, then _pending
  ppc,       \* where the prefill thread is
  batch,     \* the requests it has taken
  cap,       \* admit_cap
  psess,     \* sessions of _prefill_sched
  leaked,    \* requests whose blocks an add_requests that raised took for good
  results,   \* _prefill_results
  dpc,       \* where the decode thread is
  hand,      \* the result it handles
  step,      \* what a step gave: requests with a token, those that finished
  found,     \* the streams it found under the lock
  dsess,     \* sessions of _decode_sched
  gen,       \* tokens generated for a request
  copying,   \* _pending_release_events
  copied,    \* those of them whose copy is complete
  release,   \* _release_prefill
  client,    \* where the client of a request is
  got,       \* tokens it has read
  closer     \* where the call of close is, and the streams it found

streams == <<queues, stream, chan, canceled>>
tokenize == <<tokQ, toker>>
prefill == <<ppc, batch, cap, leaked>>
decode  == <<dpc, hand, step, found>>
copies  == <<copying, copied, release>>
clients == <<client, got>>
vars == <<running, streams, tokenize, pending, prefill, psess, results, decode, dsess,
          gen, copies, clients, closer>>

Idle == [at |-> "idle", on |-> {}]
Nothing == [fed |-> {}, fin |-> {}]

Result(r, fin, err) == [rid |-> r, fin |-> fin, err |-> err]

Put(S, p) == chan' = [r \in Requests |-> IF r \in S THEN chan[r] \o p ELSE chan[r]]
-----------------------------------------------------------------------------
(***************************************************************************)
(* The client: add_request, stream_text and astream_text.                  *)
(***************************************************************************)
Register(r) ==
  /\ client[r] = "idle" /\ running
  /\ MaxInflight = 0 \/ Cardinality(queues) < MaxInflight
  /\ queues' = queues \cup {r}
  /\ client' = [client EXCEPT ![r] = "adding"]
  /\ UNCHANGED <<running, stream, chan, canceled, tokenize, pending, prefill, psess,
                 results, decode, dsess, gen, copies, got, closer>>

\* A request given as token ids, and any without tokenize threads, is pending at
\* once; text goes to the threads.
Submit(r) ==
  /\ client[r] = "adding"
  /\ client' = [client EXCEPT ![r] = "added"]
  /\ \/ pending' = Append(pending, r) /\ UNCHANGED tokQ
     \/ Tokenizers # {} /\ tokQ' = Append(tokQ, {r}) /\ UNCHANGED pending
  /\ UNCHANGED <<running, streams, toker, prefill, psess, results, decode, dsess, gen,
                 copies, got, closer>>

\* Preparing the prompt raises in add_request: the stream stays registered.
AddRaises(r) ==
  /\ Errors
  /\ client[r] = "adding"
  /\ client' = [client EXCEPT ![r] = "raised"]
  /\ UNCHANGED <<running, streams, tokenize, pending, prefill, psess, results, decode,
                 dsess, gen, copies, got, closer>>

Open(r) ==
  /\ client[r] = "added"
  /\ client' = [client EXCEPT ![r] = IF r \in queues THEN "open" ELSE "done"]
  /\ UNCHANGED <<running, streams, tokenize, pending, prefill, psess, results, decode,
                 dsess, gen, copies, got, closer>>

Read(r) ==
  /\ client[r] = "open" /\ chan[r] # <<>>
  /\ chan' = [chan EXCEPT ![r] = Tail(@)]
  /\ got' = [got EXCEPT ![r] = @ \o Head(chan[r])]
  /\ client' = [client EXCEPT ![r] = IF Head(chan[r]) = None THEN "read" ELSE @]
  /\ UNCHANGED <<running, queues, stream, canceled, tokenize, pending, prefill, psess,
                 results, decode, dsess, gen, copies, closer>>

\* The `finally' block cancels the request, at the end of the stream or before.
Leave(r, to) ==
  /\ queues' = queues \ {r}
  /\ canceled' = canceled \cup {r}
  /\ client' = [client EXCEPT ![r] = to]
  /\ UNCHANGED <<running, stream, chan, tokenize, pending, prefill, psess, results,
                 decode, dsess, gen, copies, got, closer>>

EndStream(r) == client[r] = "read" /\ Leave(r, "done")
Abandon(r)   == client[r] = "open" /\ Leave(r, "gone")
-----------------------------------------------------------------------------
(***************************************************************************)
(* _tokenize_loop.                                                         *)
(***************************************************************************)
TakeTask(t) ==
  /\ toker[t].at = "idle" /\ tokQ # <<>>
  /\ tokQ' = Tail(tokQ)
  /\ toker' = [toker EXCEPT ![t] =
                 IF Head(tokQ) = {} \/ ~running THEN [at |-> "dead", on |-> {}]
                 ELSE IF Head(tokQ) \subseteq queues
                 THEN [at |-> "encode", on |-> Head(tokQ)] ELSE Idle]
  /\ UNCHANGED <<running, streams, pending, prefill, psess, results, decode, dsess, gen,
                 copies, clients, closer>>

Encode(t) ==
  /\ toker[t].at = "encode"
  /\ toker' = [toker EXCEPT ![t] = Idle]
  /\ \/ /\ pending' = pending \o SetToSeq(toker[t].on)
        /\ UNCHANGED chan
     \/ Errors /\ Put(toker[t].on, <<None>>) /\ UNCHANGED pending
  /\ UNCHANGED <<running, queues, stream, canceled, tokQ, prefill, psess, results, decode,
                 dsess, gen, copies, clients, closer>>
-----------------------------------------------------------------------------
(***************************************************************************)
(* _prefill_loop.                                                          *)
(***************************************************************************)
\* Everybody is told that the manager has failed.
NotifiedNobody(c) == c                                       \* a mutation
NotifiedAll(c) == [r \in Requests |-> IF r \in queues THEN Append(c[r], None) ELSE c[r]]

\* The copies that are complete release their sessions, then the sessions of
\* both schedulers are counted.
Decoding == dsess \ step.fin
ActiveDecoding == Cardinality(Decoding)                      \* a mutation
ActiveUnfinished == Cardinality(Decoding) + Cardinality(psess \ Range(release))

AdmitCap ==
  IF MaxActive = 0 THEN MaxPrefill
  ELSE LET room == MaxActive - ActiveUnfinished
       IN  IF room < MaxPrefill THEN room ELSE MaxPrefill

Counting == ppc = "count" \/ (ppc = "take" /\ pending = <<>> /\ batch = <<>>)

Count ==
  /\ Counting
  /\ psess' = psess \ Range(release)
  /\ release' = <<>>
  /\ ppc' = IF ~running THEN "dead" ELSE IF AdmitCap <= 0 THEN "count" ELSE "take"
  /\ cap' = IF ppc' = "take" THEN AdmitCap ELSE 0
  /\ UNCHANGED <<running, streams, tokenize, pending, batch, leaked, results, decode, dsess,
                 gen, copying, copied, clients, closer>>

\* Meanwhile the decode thread may change the dictionary that is counted.
CountRaises ==
  /\ Counting /\ running
  /\ dsess # {} \/ results # <<>> \/ hand # {}
  /\ running' = FALSE /\ ppc' = "dead"
  /\ chan' = NotifiedAll(chan)
  /\ UNCHANGED <<queues, stream, canceled, tokenize, pending, batch, cap, psess, leaked,
                 results, decode, dsess, gen, copies, clients, closer>>

BatchFull == Len(batch) >= cap \/ (MaxTokens # 0 /\ batch # <<>> /\ Len(batch) + 1 > MaxTokens)

TakeOne ==
  /\ ppc = "take" /\ ~BatchFull /\ pending # <<>>
  /\ pending' = Tail(pending)
  /\ batch' = IF Head(pending) \in queues \ canceled THEN Append(batch, Head(pending))
              ELSE batch
  /\ UNCHANGED <<running, streams, tokenize, ppc, cap, psess, leaked, results, decode,
                 dsess, gen, copies, clients, closer>>

\* add_requests, and a result for each request.  Sessions are registered once all of
\* them are prefilled: where that raises, nobody has those that got blocks until then.
Prefill ==
  /\ ppc = "take" /\ batch # <<>> /\ (BatchFull \/ pending = <<>>)
  /\ ppc' = "count" /\ cap' = 0 /\ batch' = <<>>
  /\ \/ \E eos \in SUBSET Range(batch) :
          LET fin == IF MaxNew = 1 THEN Range(batch) ELSE eos
          IN  /\ gen' = [r \in Requests |-> IF r \in Range(batch) THEN 1 ELSE gen[r]]
              /\ psess' = psess \cup (Range(batch) \ fin)
              /\ results' = results \o
                   [i \in DOMAIN batch |-> Result(batch[i], batch[i] \in fin, FALSE)]
              /\ UNCHANGED leaked
     \/ /\ Errors
        /\ results' = results \o [i \in DOMAIN batch |-> Result(batch[i], TRUE, TRUE)]
        /\ \E took \in SUBSET Range(batch) : leaked' = leaked \cup took
        /\ UNCHANGED <<gen, psess>>
  /\ UNCHANGED <<running, streams, tokenize, pending, decode, dsess, copies, clients, closer>>
-----------------------------------------------------------------------------
(***************************************************************************)
(* _decode_loop.  Each round releases what was copied, takes all results,  *)
(* then makes one step.                                                    *)
(***************************************************************************)
StartRound ==
  /\ \/ dpc = "top"
     \/ dpc = "ingest" /\ results = <<>> /\ dsess = {}
  /\ dpc' = IF running THEN "ingest" ELSE "dead"
  /\ release' = IF running THEN release \o SetToSeq(copied) ELSE release
  /\ copying' = IF running THEN copying \ copied ELSE copying
  /\ copied' = IF running THEN {} ELSE copied
  /\ UNCHANGED <<running, streams, tokenize, pending, prefill, psess, results, hand, step,
                 found, dsess, gen, clients, closer>>

\* A result, and its stream as it is now.
Ingest ==
  /\ dpc = "ingest" /\ results # <<>>
  /\ results' = Tail(results)
  /\ hand' = {Head(results)}
  /\ found' = {Head(results).rid} \cap (queues \ canceled)
  /\ dpc' = "handle"
  /\ UNCHANGED <<running, streams, tokenize, pending, prefill, psess, step, dsess, gen,
                 copies, clients, closer>>

NoTokens(res) == <<>>                                        \* a mutation
Initial(res) == IF res.err THEN <<>> ELSE <<1>>

\* The session of a canceled request is released, not adopted.
DroppedAsIs(res) == {}                                       \* a mutation
Dropped(res) == IF res.rid \notin found /\ ~res.fin THEN {res.rid} ELSE {}
Adopted(res) == IF res.rid \in found /\ ~res.fin THEN {res.rid} ELSE {}

\* Where the copy is done by the device, the release waits for it.
ReleasedAtOnce(S) == S                                       \* a mutation
ReleasedNow(S) == IF AsyncCopy THEN {} ELSE S

FedByResult(res, holding) == FedTo(stream[res.rid], Initial(res), holding # {}, res.fin)

\* _handle_prefill_result: the stream gets the first token; the session is
\* copied into the other engine and adopted there.
HandleResult ==
  /\ dpc = "handle"
  /\ \E res \in hand : \E holding \in Holding({res.rid}) :
       LET r   == res.rid
           fed == FedByResult(res, holding)
           now == Dropped(res) \cup ReleasedNow(Adopted(res))
       IN  /\ IF r \in found
              THEN chan' = [chan EXCEPT ![r] = @ \o fed.put]
                   /\ stream' = [stream EXCEPT ![r] = fed.state]
              ELSE UNCHANGED <<chan, stream>>
           /\ dsess' = dsess \cup Adopted(res)
           /\ release' = release \o SetToSeq(now)
           /\ copying' = copying \cup (IF AsyncCopy THEN Adopted(res) ELSE {})
  /\ hand' = {} /\ found' = {} /\ dpc' = "ingest"
  /\ UNCHANGED <<running, queues, canceled, tokenize, pending, prefill, psess, results,
                 step, gen, copied, clients, closer>>

\* One step, and the streams of its requests as they are after it.
Step ==
  /\ dpc = "ingest" /\ results = <<>> /\ dsess # {}
  /\ gen' = [r \in Requests |-> IF r \in dsess THEN gen[r] + 1 ELSE gen[r]]
  /\ \E eos \in SUBSET dsess :
       step' = [fed |-> dsess, fin |-> eos \cup {r \in dsess : gen'[r] = MaxNew}]
  /\ found' = queues
  /\ dpc' = "emit"
  /\ UNCHANGED <<running, streams, tokenize, pending, prefill, psess, results, hand, dsess,
                 copies, clients, closer>>

\* Sessions without a stream and finished ones are discarded.
Keeps == dsess \ (step.fin \cup (step.fed \ found))

Emit ==
  /\ dpc = "emit"
  /\ \E holding \in Holding(step.fed \cap found) :
       LET to == step.fed \cap found
           fed(r) == FedTo(stream[r], <<gen[r]>>, r \in holding, r \in step.fin)
       IN  /\ chan' = [r \in Requests |-> IF r \in to THEN chan[r] \o fed(r).put ELSE chan[r]]
           /\ stream' = [r \in Requests |-> IF r \in to THEN fed(r).state ELSE stream[r]]
  /\ dsess' = Keeps
  /\ step' = Nothing /\ found' = {} /\ dpc' = "top"
  /\ UNCHANGED <<running, queues, canceled, tokenize, pending, prefill, psess, results,
                 hand, gen, copies, clients, closer>>

\* A step raises, or the copy does not find room in the pool of the decoder,
\* after the first token was put.
StepRaises ==
  /\ dpc = "ingest" /\ results = <<>> /\ dsess # {}
  /\ chan' = NotifiedAll(chan)

CopyRaises ==
  /\ dpc = "handle"
  /\ \E res \in hand : \E holding \in Holding({res.rid}) :
       /\ Adopted(res) # {}
       /\ chan' = NotifiedAll([chan EXCEPT ![res.rid] = @ \o FedByResult(res, holding).put])

DecodeRaises ==
  /\ Errors
  /\ StepRaises \/ CopyRaises
  /\ running' = FALSE /\ dpc' = "dead"
  /\ UNCHANGED <<queues, stream, canceled, tokenize, pending, prefill, psess, results,
                 hand, step, found, dsess, gen, copies, clients, closer>>

CopyEnds(r) ==
  /\ r \in copying \ copied
  /\ copied' = copied \cup {r}
  /\ UNCHANGED <<running, streams, tokenize, pending, prefill, psess, results, decode,
                 dsess, gen, copying, release, clients, closer>>
-----------------------------------------------------------------------------
(***************************************************************************)
(* close: the streams end under the lock; when the threads have stopped or *)
(* its joins have timed out, the sessions it found streams for are         *)
(* discarded.                                                              *)
(***************************************************************************)
Close ==
  /\ closer.at = "idle" /\ running
  /\ running' = FALSE
  /\ Put(queues, <<None>>)
  /\ queues' = {} /\ canceled' = {}
  /\ tokQ' = tokQ \o [i \in 1..Cardinality(Tokenizers) |-> {}]
  /\ closer' = [at |-> "join", on |-> queues]
  /\ UNCHANGED <<stream, toker, pending, prefill, psess, results, decode, dsess, gen,
                 copies, clients>>

CloseDiscards ==
  /\ closer.at = "join"
  /\ psess' = psess \ closer.on /\ dsess' = dsess \ closer.on
  /\ closer' = [closer EXCEPT !.at = "closed"]
  /\ UNCHANGED <<running, streams, tokenize, pending, prefill, results, decode, gen,
                 copies, clients>>
-----------------------------------------------------------------------------
Init ==
  /\ running = TRUE /\ queues = {} /\ canceled = {}
  /\ stream = [r \in Requests |-> Fresh] /\ chan = [r \in Requests |-> <<>>]
  /\ tokQ = <<>> /\ toker = [t \in Tokenizers |-> Idle] /\ pending = <<>>
  /\ ppc = "count" /\ batch = <<>> /\ cap = 0 /\ psess = {} /\ leaked = {} /\ results = <<>>
  /\ dpc = "top" /\ hand = {} /\ step = Nothing /\ found = {} /\ dsess = {}
  /\ gen = [r \in Requests |-> 0]
  /\ copying = {} /\ copied = {} /\ release = <<>>
  /\ client = [r \in Requests |-> "idle"] /\ got = [r \in Requests |-> <<>>]
  /\ closer = Idle

Reader(r) == Submit(r) \/ Read(r) \/ EndStream(r)
Tokenizer(t) == TakeTask(t) \/ Encode(t)
Prefiller == Count \/ TakeOne \/ Prefill
Decoder == StartRound \/ Ingest \/ HandleResult \/ Step \/ Emit

Next == \/ \E r \in Requests : \/ Register(r) \/ AddRaises(r) \/ Open(r) \/ Reader(r)
                               \/ Abandon(r) \/ CopyEnds(r)
        \/ \E t \in Tokenizers : Tokenizer(t)
        \/ Prefiller \/ CountRaises \/ Decoder \/ DecodeRaises
        \/ Close \/ CloseDiscards

Spec == Init /\ [][Next]_vars

\* Threads and the device run; clients need not come, read or stay.
Fairness == /\ WF_vars(\E r \in Requests : Reader(r))
            /\ WF_vars(\E r \in Requests : CopyEnds(r))
            /\ WF_vars(\E t \in Tokenizers : Tokenizer(t))
            /\ WF_vars(Prefiller) /\ WF_vars(Decoder)
LiveSpec == Spec /\ Fairness
-----------------------------------------------------------------------------
(***************************************************************************)
(* Properties.                                                             *)
(***************************************************************************)
\* While the device copies the blocks of a prompt into the decoder's pool, the
\* prefill scheduler holds them: no release overtakes a copy.
CopySafe == running => copying \subseteq psess

\* The requests that are being served in one engine or the other are never more than
\* max_active_requests, although one thread counts the sessions that two change.  The
\* blocks that a failed add_requests left behind belong to no session: nobody counts them.
ActiveBounded == MaxActive # 0 => Cardinality(psess \cup Decoding) <= MaxActive

\* Each client sees a stream in order, without gaps, that ends once and after
\* the last token, although its request moves from one engine to another.
InFlight == {res.rid : res \in {x \in Range(results) \cup hand : ~x.fin}}
Contract == INSTANCE StreamContract WITH
              made <- gen,
              final <- {r \in Requests : gen[r] > 0 /\ r \notin dsess \cup InFlight},
              over <- {r \in Requests : client[r] \in {"read", "done"}},
              stopped <- ~running
ImplementsStreams == Contract!SSpec

\* A client that reads its stream comes to the end of it: a stream is read once,
\* so after some time none is being read.
StreamsEnd == <>[](\A r \in Requests : client[r] # "open")

\* The blocks of every prompt that was prefilled are given back to the prefill pool,
\* whether its request is decoded, ends, or is canceled between the engines: from some
\* time on the requests that hold blocks there are of an add_requests that raised, so
\* that they never had a token.  Theirs are not given back.
PrefillHeld == psess \cup leaked
PrefillReleased == <>[](running => \A r \in PrefillHeld : gen[r] = 0)
=============================================================================
