-------------------------- MODULE SchedulerManager --------------------------
(***************************************************************************)
(* The server's front end to the scheduler (SchedulerManager): client      *)
(* threads add requests and read their streams, tokenizer threads turn     *)
(* prompts into token ids, and one worker thread admits requests, runs the *)
(* scheduler and delivers what it generates.  They share the map of        *)
(* streams under _lock, the thread-safe queues _tokenize_q and _pending,   *)
(* one HybridQueue per stream and the event _wakeup.                       *)
(*                                                                         *)
(* An action is what a thread does between two points where another may    *)
(* see it or be seen.  The scheduler belongs to the worker thread; it is   *)
(* OnlineScheduler with synchronous steps, and which of its unfinished     *)
(* requests make up the batch of a step is left open here.  Admission is   *)
(* first come first served without a token budget                          *)
(* (prefill_max_tokens=None), which leaves _pending_buf empty.  The i-th   *)
(* token of a request is the number i.                                     *)
(***************************************************************************)
EXTENDS Integers, SequencesExt

CONSTANTS
  Requests,        \* requests of the clients
  Tokenizers,      \* tokenizer threads ({}: add_request tokenizes)
  MaxNew,          \* max_new_tokens of every request
  MaxBatch,        \* max_batch_size
  PrefillBatch,    \* prefill_max_batch_size
  MaxActive,       \* max_active_requests (0: None)
  MaxInflight,     \* max_inflight_requests (0: None)
  StreamInterval,  \* stream_interval
  DecodeFirst,     \* decode_first
  Errors           \* whether calls of the tokenizer and the engine may raise

ASSUME ConstantsAssumption ==
  /\ IsFiniteSet(Requests)
  /\ MaxNew \in Nat \ {0} /\ StreamInterval \in Nat \ {0}
  /\ MaxBatch \in Nat \ {0} /\ PrefillBatch \in Nat \ {0}
  /\ MaxActive \in Nat /\ MaxInflight \in Nat
  /\ DecodeFirst \in BOOLEAN /\ Errors \in BOOLEAN

VARIABLES
  running,    \* _running
  wakeup,     \* the flag of the event _wakeup
  queues,     \* keys of _queues, _detoks and _stream_states
  chan,       \* contents of a stream's HybridQueue: pieces, and None
  stream,     \* a stream's detokenizer and _StreamState
  tasks,      \* _tokenize_q
  pending,    \* _pending
  client,     \* where the client thread of a request is
  got,        \* tokens the client has read
  tok,        \* where a tokenizer thread is, and the request it serves
  closer,     \* where the call of close is, and the streams it found
  pc,         \* where the worker thread is
  decoded,    \* did_decode
  took,       \* `pending' of this iteration was not empty
  taken,      \* what is left of `pending' to be filtered
  batch,      \* `batch', then the rids whose first tokens are to be delivered
  stepped,    \* requests a token is to be delivered for
  ending,     \* those of them that finished
  seen,       \* streams that the worker found under the lock
  sessions,   \* keys of the scheduler's _sessions
  active,     \* those of them that are not finished
  gen         \* tokens generated for a request

threads == <<client, got, tok, closer>>
worker  == <<pc, decoded, took, taken, batch, stepped, ending, seen>>
sched   == <<sessions, active, gen>>
streams == <<chan, stream>>
vars == <<running, wakeup, queues, chan, stream, tasks, pending, threads, worker,
          sched>>

None  == <<>>                       \* end of a stream; a piece is never empty
Fresh == [held |-> <<>>, buf |-> <<>>, since |-> 0, sent |-> FALSE]

ClientAt == {"idle", "adding", "waking", "added", "raised", "open", "read", "done",
             "gone"}
TokAt == [at : {"idle", "encode", "wake", "dead"}, on : SUBSET Requests]

Put(ch, r, items) == [ch EXCEPT ![r] = @ \o items]
-----------------------------------------------------------------------------
(***************************************************************************)
(* add_request.                                                            *)
(***************************************************************************)
InflightFree == MaxInflight = 0 \/ Cardinality(queues) < MaxInflight

\* Under the lock: a stream is registered.
Register(r) ==
  /\ client[r] = "idle"
  /\ running
  /\ InflightFree
  /\ queues' = queues \cup {r}
  /\ client' = [client EXCEPT ![r] = "adding"]
  /\ UNCHANGED <<running, wakeup, streams, tasks, pending, got, tok, closer, worker,
                 sched>>

\* After it: the request goes to a tokenizer thread, while there are any, or it
\* is tokenized here.
Enqueue(r) ==
  /\ client[r] = "adding"
  /\ IF Tokenizers # {} /\ closer.at = "idle"
     THEN tasks' = Append(tasks, r) /\ pending' = pending
     ELSE pending' = Append(pending, r) /\ tasks' = tasks
  /\ client' = [client EXCEPT ![r] = "waking"]
  /\ UNCHANGED <<running, wakeup, queues, streams, got, tok, closer, worker, sched>>

\* Tokenizing raises: the caller gets an exception, the stream stays registered.
AddRaises(r) ==
  /\ Errors
  /\ client[r] = "adding" /\ (Tokenizers = {} \/ closer.at # "idle")
  /\ client' = [client EXCEPT ![r] = "raised"]
  /\ UNCHANGED <<running, wakeup, queues, streams, tasks, pending, got, tok, closer,
                 worker, sched>>

Wake(r) ==
  /\ client[r] = "waking"
  /\ wakeup' = TRUE
  /\ client' = [client EXCEPT ![r] = "added"]
  /\ UNCHANGED <<running, queues, streams, tasks, pending, got, tok, closer, worker,
                 sched>>

(***************************************************************************)
(* stream_text: the client reads until None, or drops the iterator; the    *)
(* `finally' block takes the stream out of the maps.                       *)
(***************************************************************************)
Open(r) ==
  /\ client[r] = "added"
  /\ client' = [client EXCEPT ![r] = IF r \in queues THEN "open" ELSE "done"]
  /\ UNCHANGED <<running, wakeup, queues, streams, tasks, pending, got, tok, closer,
                 worker, sched>>

Get(r) ==
  /\ client[r] = "open" /\ chan[r] # <<>>
  /\ chan' = [chan EXCEPT ![r] = Tail(@)]
  /\ got' = [got EXCEPT ![r] = @ \o Head(chan[r])]
  /\ client' = IF Head(chan[r]) = None THEN [client EXCEPT ![r] = "read"]
                                       ELSE client
  /\ UNCHANGED <<running, wakeup, queues, stream, tasks, pending, tok, closer, worker,
                 sched>>

Leave(r, from, to) ==
  /\ client[r] = from
  /\ queues' = queues \ {r}
  /\ client' = [client EXCEPT ![r] = to]
  /\ UNCHANGED <<running, wakeup, streams, tasks, pending, got, tok, closer, worker,
                 sched>>

EndStream(r) == Leave(r, "read", "done")
Abandon(r)   == Leave(r, "open", "gone")
-----------------------------------------------------------------------------
(***************************************************************************)
(* _tokenize_loop.                                                         *)
(***************************************************************************)
\* A task is taken and checked under the lock.
TakeTask(t) ==
  /\ tok[t].at = "idle" /\ tasks # <<>>
  /\ tasks' = Tail(tasks)
  /\ tok' = [tok EXCEPT ![t] =
               IF ~running THEN [at |-> "dead", on |-> {}]
               ELSE IF Head(tasks) \in queues THEN [at |-> "encode", on |-> {Head(tasks)}]
               ELSE @]
  /\ UNCHANGED <<running, wakeup, queues, streams, pending, client, got, closer,
                 worker, sched>>

Tokenized(t) ==
  /\ tok[t].at = "encode"
  /\ \E r \in tok[t].on : pending' = Append(pending, r)
  /\ tok' = [tok EXCEPT ![t].at = "wake"]
  /\ UNCHANGED <<running, wakeup, queues, streams, tasks, client, got, closer, worker,
                 sched>>

TokenizeFails(t) ==
  /\ Errors
  /\ tok[t].at = "encode"
  /\ \E r \in tok[t].on : chan' = Put(chan, r, <<None>>)
  /\ tok' = [tok EXCEPT ![t] = [at |-> "idle", on |-> {}]]
  /\ UNCHANGED <<running, wakeup, queues, stream, tasks, pending, client, got, closer,
                 worker, sched>>

TokenizerWakes(t) ==
  /\ tok[t].at = "wake"
  /\ wakeup' = TRUE
  /\ tok' = [tok EXCEPT ![t] = [at |-> "idle", on |-> {}]]
  /\ UNCHANGED <<running, queues, streams, tasks, pending, client, got, closer, worker,
                 sched>>
-----------------------------------------------------------------------------
(***************************************************************************)
(* close: under the lock, then once the worker is dead, or without the     *)
(* rest when joining it times out.  The tokenizer threads find a None      *)
(* behind the tasks; they leave on it as they do on finding ~running.      *)
(***************************************************************************)
Close ==
  /\ closer.at = "idle" /\ running
  /\ running' = FALSE /\ wakeup' = TRUE /\ queues' = {}
  /\ chan' = [r \in Requests |-> IF r \in queues THEN Append(chan[r], None)
                                                 ELSE chan[r]]
  /\ closer' = [at |-> "joining", found |-> queues]
  /\ UNCHANGED <<stream, tasks, pending, client, got, tok, worker, sched>>

Joined ==
  /\ closer.at = "joining" /\ pc = "dead"
  /\ closer' = [at |-> "closed", found |-> {}]
  /\ sessions' = sessions \ closer.found
  /\ active' = active \ closer.found
  /\ UNCHANGED <<running, wakeup, queues, streams, tasks, pending, client, got, tok,
                 worker, gen>>

JoinTimesOut ==
  /\ closer.at = "joining" /\ pc # "dead"
  /\ closer' = [at |-> "closed", found |-> {}]
  /\ UNCHANGED <<running, wakeup, queues, streams, tasks, pending, client, got, tok,
                 worker, sched>>
-----------------------------------------------------------------------------
(***************************************************************************)
(* The worker thread, _worker_loop.  Whatever it does, these are its to    *)
(* change only where an action says so.                                    *)
(***************************************************************************)
Shared == <<running, wakeup, queues, tasks, pending, threads>>

HasUnfinished == active # {}
NumUnfinished == Cardinality(active)

Discarded(S) == /\ sessions' = sessions \ S
                /\ active' = active \ S

Top ==
  /\ pc = "top"
  /\ pc' = IF ~running THEN "dead"
           ELSE IF DecodeFirst /\ HasUnfinished THEN "step" ELSE "admit"
  /\ decoded' = (DecodeFirst /\ HasUnfinished)
  /\ UNCHANGED <<took, taken, batch, stepped, ending, seen, sched, streams, Shared>>

\* _cap_prefill_max_reqs.
AdmitCapUnlimited == PrefillBatch                            \* a mutation
AdmitCap ==
  IF MaxActive = 0 THEN PrefillBatch
  ELSE IF MaxActive <= NumUnfinished THEN 0
  ELSE IF MaxActive - NumUnfinished < PrefillBatch THEN MaxActive - NumUnfinished
  ELSE PrefillBatch

\* _take_pending_for_prefill.
Admit ==
  /\ pc = "admit"
  /\ LET n == IF Len(pending) < AdmitCap THEN Len(pending) ELSE AdmitCap
     IN  /\ taken' = SubSeq(pending, 1, n)
         /\ pending' = SubSeq(pending, n + 1, Len(pending))
         /\ took' = (n > 0)
  /\ pc' = "filter"
  /\ UNCHANGED <<decoded, batch, stepped, ending, seen, sched, streams, running, wakeup,
                 queues, tasks, threads>>

\* Each request taken is looked up under the lock; when the server has stopped,
\* the rest is dropped.
FilterOne ==
  /\ pc = "filter" /\ taken # <<>>
  /\ IF running
     THEN /\ taken' = Tail(taken)
          /\ batch' = IF Head(taken) \in queues THEN Append(batch, Head(taken))
                                                ELSE batch
     ELSE taken' = <<>> /\ batch' = batch
  /\ UNCHANGED <<pc, decoded, took, stepped, ending, seen, sched, streams, Shared>>

\* add_requests: each request gets a session and its first token, which may be
\* EOS.
Prefill ==
  /\ pc = "filter" /\ taken = <<>>
  /\ \E eos \in SUBSET Range(batch) :
       LET fin == IF MaxNew = 1 THEN Range(batch) ELSE eos
       IN  /\ sessions' = sessions \cup Range(batch)
           /\ active' = active \cup (Range(batch) \ fin)
           /\ gen' = [r \in Requests |-> IF r \in Range(batch) THEN 1 ELSE gen[r]]
  /\ pc' = "first"
  /\ UNCHANGED <<decoded, took, taken, batch, stepped, ending, seen, streams, Shared>>

PrefillRaises ==
  /\ Errors
  /\ pc = "filter" /\ taken = <<>> /\ batch # <<>>
  /\ pc' = "handler"
  /\ UNCHANGED <<decoded, took, taken, batch, stepped, ending, seen, sched, streams,
                 Shared>>

\* The stream of the next request of the batch is looked up under the lock.
FirstLookup ==
  /\ pc = "first" /\ batch # <<>>
  /\ IF Head(batch) \in queues
     THEN /\ pc' = "give"
          /\ stepped' = {Head(batch)}
          /\ ending' = {Head(batch)} \ active
          /\ UNCHANGED sched
     ELSE /\ Discarded({Head(batch)})
          /\ UNCHANGED <<pc, stepped, ending, gen>>
  /\ batch' = Tail(batch)
  /\ UNCHANGED <<decoded, took, taken, seen, streams, Shared>>

FirstDone ==
  /\ pc = "first" /\ batch = <<>>
  /\ pc' = IF decoded \/ ~HasUnfinished THEN "park" ELSE "step"
  /\ UNCHANGED <<decoded, took, taken, batch, stepped, ending, seen, sched, streams,
                 Shared>>

(***************************************************************************)
(* A token goes through the detokenizer, which may hold its text back      *)
(* (part of a character), and the pieces it returns are put in the queue   *)
(* every stream_interval tokens, the first one at once.  A stream that     *)
(* finishes is flushed and gets None.                                      *)
(***************************************************************************)
OnToken(s, i, holds) ==
  IF holds THEN [s EXCEPT !.held = Append(@, i), !.since = @ + 1]
  ELSE [s EXCEPT !.buf = @ \o s.held \o <<i>>, !.held = <<>>, !.since = @ + 1]

Due(s) == s.buf # <<>> /\ (~s.sent \/ s.since >= StreamInterval)

Given(s) == IF Due(s) THEN [Fresh EXCEPT !.held = s.held, !.sent = TRUE] ELSE s
Pieces(s) == IF Due(s) THEN <<s.buf>> ELSE <<>>

LastPiecesUnflushed(s) == <<None>>                           \* a mutation
LastPieces(s) == IF s.buf \o s.held = <<>> THEN <<None>>
                                           ELSE <<s.buf \o s.held, None>>

Deliver(S, fin, holding) ==
  LET fed(r) == OnToken(stream[r], gen[r], r \in holding)
  IN  /\ stream' = [r \in Requests |-> IF r \notin S THEN stream[r]
                                       ELSE IF r \in fin THEN Fresh
                                       ELSE Given(fed(r))]
      /\ chan' = [r \in Requests |->
                    IF r \notin S THEN chan[r]
                    ELSE IF r \in fin
                    THEN chan[r] \o Pieces(fed(r)) \o LastPieces(Given(fed(r)))
                    ELSE chan[r] \o Pieces(fed(r))]

GiveFirst ==
  /\ pc = "give"
  /\ \E holding \in SUBSET stepped : Deliver(stepped, ending, holding)
  /\ Discarded(ending)
  /\ pc' = "first" /\ stepped' = {} /\ ending' = {}
  /\ UNCHANGED <<decoded, took, taken, batch, seen, gen, Shared>>

(***************************************************************************)
(* run_decode_once: a step of the scheduler over a batch of its unfinished *)
(* requests, each of which gets a token and may finish; the streams are    *)
(* looked up under the lock; the tokens are delivered, and sessions that   *)
(* finished or whose stream is gone are discarded.                         *)
(***************************************************************************)
ExhaustedLate(r) == gen[r] = MaxNew                          \* a mutation
Exhausted(r) == gen[r] + 1 = MaxNew

Step ==
  /\ pc = "step"
  /\ \E chosen \in SUBSET active : \E eos \in SUBSET chosen :
       /\ Cardinality(chosen) = IF NumUnfinished < MaxBatch THEN NumUnfinished
                                                            ELSE MaxBatch
       /\ ending' = eos \cup {r \in chosen : Exhausted(r)}
       /\ stepped' = chosen
       /\ active' = active \ ending'
       /\ gen' = [r \in Requests |-> IF r \in chosen THEN gen[r] + 1 ELSE gen[r]]
  /\ pc' = "lookup"
  /\ UNCHANGED <<decoded, took, taken, batch, seen, sessions, streams, Shared>>

StepRaises ==
  /\ Errors
  /\ pc = "step"
  /\ pc' = "handler"
  /\ UNCHANGED <<decoded, took, taken, batch, stepped, ending, seen, sched, streams,
                 Shared>>

Lookup ==
  /\ pc = "lookup"
  /\ seen' = stepped \cap queues
  /\ pc' = "deliver"
  /\ UNCHANGED <<decoded, took, taken, batch, stepped, ending, sched, streams, Shared>>

OrphansKept == ending \cap seen                                 \* a mutation
Unwanted == ending \cup (stepped \ seen)

DeliverStep ==
  /\ pc = "deliver"
  /\ \E holding \in SUBSET seen : Deliver(seen, ending, holding)
  /\ Discarded(Unwanted)
  /\ stepped' = {} /\ ending' = {} /\ seen' = {}
  /\ pc' = IF decoded THEN "admit" ELSE "park"
  /\ UNCHANGED <<decoded, took, taken, batch, gen, Shared>>

\* The end of an iteration: with nothing taken and nothing unfinished, wait.
IdleTaken == ~HasUnfinished                                  \* a mutation
Idle == ~took /\ ~HasUnfinished

Park ==
  /\ pc = "park"
  /\ pc' = IF Idle THEN "wait" ELSE "top"
  /\ UNCHANGED <<decoded, took, taken, batch, stepped, ending, seen, sched, streams,
                 Shared>>

WakeUp ==
  /\ pc = "wait" /\ wakeup
  /\ pc' = "clear"
  /\ UNCHANGED <<decoded, took, taken, batch, stepped, ending, seen, sched, streams,
                 Shared>>

ClearWakeup ==
  /\ pc = "clear"
  /\ wakeup' = FALSE
  /\ pc' = "top"
  /\ UNCHANGED <<decoded, took, taken, batch, stepped, ending, seen, sched, streams,
                 running, queues, tasks, pending, threads>>

\* The exception handler: under the lock, then every stream gets None.
Handler ==
  /\ pc = "handler"
  /\ running' = FALSE /\ wakeup' = TRUE
  /\ seen' = queues
  /\ pc' = "notify"
  /\ UNCHANGED <<decoded, took, taken, batch, stepped, ending, sched, streams, queues,
                 tasks, pending, threads>>

NotifiedBatch == Range(batch)                                \* a mutation
Notified == seen

Notify ==
  /\ pc = "notify"
  /\ chan' = [r \in Requests |-> IF r \in Notified THEN Append(chan[r], None)
                                                   ELSE chan[r]]
  /\ seen' = {}
  /\ pc' = "dead"
  /\ UNCHANGED <<decoded, took, taken, batch, stepped, ending, sched, stream, Shared>>
-----------------------------------------------------------------------------
Init ==
  /\ running = TRUE /\ wakeup = FALSE
  /\ queues = {} /\ tasks = <<>> /\ pending = <<>>
  /\ chan = [r \in Requests |-> <<>>]
  /\ stream = [r \in Requests |-> Fresh]
  /\ client = [r \in Requests |-> "idle"]
  /\ got = [r \in Requests |-> <<>>]
  /\ tok = [t \in Tokenizers |-> [at |-> "idle", on |-> {}]]
  /\ closer = [at |-> "idle", found |-> {}]
  /\ pc = "top" /\ decoded = FALSE /\ took = FALSE
  /\ taken = <<>> /\ batch = <<>> /\ stepped = {} /\ ending = {} /\ seen = {}
  /\ sessions = {} /\ active = {}
  /\ gen = [r \in Requests |-> 0]

Adder(r)     == Enqueue(r) \/ AddRaises(r) \/ Wake(r)
Reader(r)    == Get(r) \/ EndStream(r)
Tokenizer(t) == TakeTask(t) \/ Tokenized(t) \/ TokenizeFails(t) \/ TokenizerWakes(t)
Worker == \/ Top \/ Admit \/ FilterOne \/ Prefill \/ PrefillRaises
          \/ FirstLookup \/ FirstDone \/ GiveFirst
          \/ Step \/ StepRaises \/ Lookup \/ DeliverStep
          \/ Park \/ WakeUp \/ ClearWakeup \/ Handler \/ Notify

Next == \/ \E r \in Requests : \/ Register(r) \/ Adder(r)
                               \/ Open(r) \/ Reader(r) \/ Abandon(r)
        \/ \E t \in Tokenizers : Tokenizer(t)
        \/ Close \/ Joined \/ JoinTimesOut
        \/ Worker

Spec == Init /\ [][Next]_vars

\* Threads run; a client need not come, nor read its stream, nor stay.
Fairness == /\ \A r \in Requests : WF_vars(Adder(r)) /\ WF_vars(Reader(r))
            /\ \A t \in Tokenizers : WF_vars(Tokenizer(t))
            /\ WF_vars(Worker)
LiveSpec == Spec /\ Fairness
-----------------------------------------------------------------------------
(***************************************************************************)
(* Properties.                                                             *)
(***************************************************************************)
\* Type invariant of the streams, the queues, the worker and the scheduler.
TypeOK ==
  /\ running \in BOOLEAN /\ wakeup \in BOOLEAN
  /\ decoded \in BOOLEAN /\ took \in BOOLEAN
  /\ queues \subseteq Requests /\ stepped \subseteq Requests
  /\ ending \subseteq Requests /\ seen \subseteq Requests
  /\ sessions \subseteq Requests /\ active \subseteq Requests
  /\ tasks \in Seq(Requests) /\ pending \in Seq(Requests)
  /\ taken \in Seq(Requests) /\ batch \in Seq(Requests)
  /\ client \in [Requests -> ClientAt]
  /\ tok \in [Tokenizers -> TokAt]
  /\ gen \in [Requests -> 0..MaxNew]

\* The limits of the configuration hold however adding, finishing, leaving and
\* discarding interleave: no more streams than max_inflight_requests, no more
\* unfinished sessions than max_active_requests.
WithinLimits ==
  /\ MaxInflight > 0 => Cardinality(queues) <= MaxInflight
  /\ MaxActive > 0 => NumUnfinished <= MaxActive

\* The worker does not sleep on a request: while it waits for _wakeup, _pending
\* is empty or a thread that has put a request there is about to set the event.
\* Stated for the configurations in which the code ensures it.
WakeComing == \/ wakeup
              \/ \E r \in Requests : client[r] = "waking"
              \/ \E t \in Tokenizers : tok[t].at = "wake"

NoLostWakeup ==
  MaxActive = 0 \/ DecodeFirst =>
    (pc = "wait" /\ pending # <<>> => WakeComing)

\* Each client sees a stream in order, without gaps, that ends once and after
\* the last token, through detokenizer, buffering, close and failure.
Contract == INSTANCE StreamContract WITH
              made <- gen,
              final <- {r \in Requests : gen[r] > 0 /\ r \notin active},
              over <- {r \in Requests : client[r] \in {"read", "done"}},
              stopped <- ~running
ImplementsStreams == Contract!SSpec

\* A client that reads its stream comes to the end of it, also when the worker
\* fails or the server is closed: in the end no client still reads.
StreamsEnd == <>[](\A r \in Requests : client[r] # "open")

\* The session of a stream nobody reads any more does not stay in the scheduler.
OrphansDropped ==
  <>[](\A r \in Requests : client[r] = "gone" => r \notin sessions \/ ~running)
=============================================================================
