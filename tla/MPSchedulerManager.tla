-------------------------- MODULE MPSchedulerManager --------------------------
(***************************************************************************)
(* The server's side of the engine process (MPSchedulerManager): clients   *)
(* add requests and read their streams, admit threads tokenize in their    *)
(* place (async_admit), and the event loop delivers what the process       *)
(* reports.  Streams are HybridQueues: a thread reads them with get, a     *)
(* coroutine with aget, which waits for an asyncio event that put sets     *)
(* through the asyncio loop.  An action is what a thread does between two  *)
(* points where another may see it or be seen.                             *)
(***************************************************************************)
EXTENDS EngineProcess, TextStream

CONSTANTS
  MaxInflight,   \* max_inflight_requests (0: None)
  Admitters,     \* admit threads ({}: add_request tokenizes and sends)
  AsyncReaders   \* requests read with astream_text; the others with stream_text

ASSUME ManagerAssumption ==
  /\ MaxInflight \in Nat /\ IsFiniteSet(Admitters)
  /\ AsyncReaders \subseteq Requests
  /\ EmitModes \subseteq {"pairs", "tokens"}   \* mp_emit_token_events stays True here

VARIABLES
  running,   \* _running
  queues,    \* keys of _queues, _detoks and _stream_states
  stream,    \* a stream's detokenizer and _StreamState
  chan,      \* _buf of a stream's HybridQueue
  evt,       \* the flag of its asyncio event
  sets,      \* calls of event.set waiting in the asyncio loop
  admitQ,    \* _admit_q
  adm,       \* where an admit thread is, and the request it serves
  client,    \* where the client of a request is
  got,       \* tokens it has read
  lpc,       \* where the event loop is
  event,     \* the event it delivers
  seen,      \* the streams it found under the lock
  closer     \* where the call of close is, and the streams it found

hybrid  == <<chan, evt, sets>>
clients == <<client, got>>
loop    == <<lpc, event, seen>>
mvars == <<running, queues, stream, hybrid, admitQ, adm, clients, loop, closer>>
vars  == <<evars, mvars>>

Poison == "None"
Free == [at |-> "idle", on |-> {}]
-----------------------------------------------------------------------------
(***************************************************************************)
(* HybridQueue.                                                            *)
(***************************************************************************)
\* put on each of the streams: under the condition variable, then event.set is
\* handed to the asyncio loop.
Sets(r, n) == IF r \in AsyncReaders THEN n ELSE 0

Put(put) ==
  /\ chan' = [r \in Requests |-> chan[r] \o put[r]]
  /\ sets' = [r \in Requests |-> sets[r] + Sets(r, Len(put[r]))]
  /\ UNCHANGED evt

PutNone(S) == Put([r \in Requests |-> IF r \in S THEN <<None>> ELSE <<>>])

\* The asyncio loop runs a call of event.set.
LoopSets(r) ==
  /\ sets[r] > 0
  /\ sets' = [sets EXCEPT ![r] = @ - 1]
  /\ evt' = [evt EXCEPT ![r] = TRUE]
  /\ UNCHANGED <<evars, running, queues, stream, chan, admitQ, adm, clients, loop, closer>>

\* get, and aget when there is something.
Read(r) ==
  /\ client[r] = "open" /\ chan[r] # <<>>
  /\ chan' = [chan EXCEPT ![r] = Tail(@)]
  /\ got' = [got EXCEPT ![r] = @ \o Head(chan[r])]
  /\ client' = [client EXCEPT ![r] = IF Head(chan[r]) = None THEN "read" ELSE @]
  /\ UNCHANGED <<evars, running, queues, stream, evt, sets, admitQ, adm, loop, closer>>

\* aget clears the event under the condition variable and waits outside it.
Await(r) ==
  /\ r \in AsyncReaders
  /\ client[r] = "open" /\ chan[r] = <<>>
  /\ evt' = [evt EXCEPT ![r] = FALSE]
  /\ client' = [client EXCEPT ![r] = "await"]
  /\ UNCHANGED <<evars, running, queues, stream, chan, sets, admitQ, adm, got, loop,
                 closer>>

Awake(r) ==
  /\ client[r] = "await" /\ evt[r]
  /\ client' = [client EXCEPT ![r] = "open"]
  /\ UNCHANGED <<evars, running, queues, stream, hybrid, admitQ, adm, got, loop, closer>>
-----------------------------------------------------------------------------
(***************************************************************************)
(* add_request.                                                            *)
(***************************************************************************)
InflightFree == MaxInflight = 0 \/ Cardinality(queues) < MaxInflight

Register(r) ==
  /\ client[r] = "idle" /\ running /\ InflightFree
  /\ queues' = queues \cup {r}
  /\ client' = [client EXCEPT ![r] = "adding"]
  /\ UNCHANGED <<evars, running, stream, hybrid, admitQ, adm, got, loop, closer>>

Submit(r) ==
  /\ client[r] = "adding" /\ Admitters # {}
  /\ admitQ' = Append(admitQ, r)
  /\ client' = [client EXCEPT ![r] = "added"]
  /\ UNCHANGED <<evars, running, queues, stream, hybrid, adm, got, loop, closer>>

\* Tokenizing raises outside the try block: the stream stays registered.
AddRaises(r) ==
  /\ Errors
  /\ client[r] = "adding" /\ Admitters = {}
  /\ client' = [client EXCEPT ![r] = "raised"]
  /\ UNCHANGED <<evars, running, queues, stream, hybrid, admitQ, adm, got, loop, closer>>

\* The command is sent; when that raises, the request is canceled and forgotten.
Send(r) ==
  /\ client[r] = "adding" /\ Admitters = {}
  /\ IF CanSend
     THEN /\ Sent(<<Add(r)>>)
          /\ client' = [client EXCEPT ![r] = "added"]
          /\ UNCHANGED <<queues, hybrid>>
     ELSE /\ queues' = queues \ {r}
          /\ PutNone({r} \cap queues)
          /\ client' = [client EXCEPT ![r] = "raised"]
          /\ UNCHANGED cmds
  /\ UNCHANGED <<EngineRest, cut, running, stream, admitQ, adm, got, loop, closer>>

(***************************************************************************)
(* _admit_loop.  The last look at the maps is the one that counts; after   *)
(* it the request may still be canceled before its command is sent.        *)
(***************************************************************************)
TakeTask(t) ==
  /\ adm[t].at = "idle" /\ admitQ # <<>>
  /\ admitQ' = Tail(admitQ)
  /\ adm' = [adm EXCEPT ![t] =
               IF Head(admitQ) = Poison THEN [at |-> "dead", on |-> {}]
               ELSE IF running /\ Head(admitQ) \in queues
               THEN [at |-> "encode", on |-> {Head(admitQ)}] ELSE Free]
  /\ UNCHANGED <<evars, running, queues, stream, hybrid, clients, loop, closer>>

LookAgain(t) ==
  /\ adm[t].at = "encode"
  /\ adm' = [adm EXCEPT ![t] = IF running /\ adm[t].on \subseteq queues
                               THEN [@ EXCEPT !.at = "send"] ELSE Free]
  /\ UNCHANGED <<evars, running, queues, stream, hybrid, admitQ, clients, loop, closer>>

AdmitSends(t) ==
  /\ adm[t].at = "send" /\ CanSend
  /\ \E r \in adm[t].on : Sent(<<Add(r)>>)
  /\ adm' = [adm EXCEPT ![t] = Free]
  /\ UNCHANGED <<EngineRest, cut, running, queues, stream, hybrid, admitQ, clients, loop,
                 closer>>

\* Tokenizing or sending raises: cancel, end the stream, then forget it.
AdmitRaises(t) ==
  /\ \/ adm[t].at = "encode" /\ Errors
     \/ adm[t].at = "send" /\ ~CanSend
  /\ \E r \in adm[t].on : Sent(<<Cancel(r)>>) /\ PutNone({r})
  /\ adm' = [adm EXCEPT ![t].at = "forget"]
  /\ UNCHANGED <<EngineRest, cut, running, queues, stream, admitQ, clients, loop, closer>>

AdmitForgets(t) ==
  /\ adm[t].at = "forget"
  /\ queues' = queues \ adm[t].on
  /\ adm' = [adm EXCEPT ![t] = Free]
  /\ UNCHANGED <<evars, running, stream, hybrid, admitQ, clients, loop, closer>>

(***************************************************************************)
(* stream_text and astream_text.  The `finally' block takes the stream out *)
(* of the maps; that of astream_text cancels the request as well, however  *)
(* the stream came to its end.                                             *)
(***************************************************************************)
Open(r) ==
  /\ client[r] = "added"
  /\ client' = [client EXCEPT ![r] = IF r \in queues THEN "open" ELSE "done"]
  /\ UNCHANGED <<evars, running, queues, stream, hybrid, admitQ, adm, got, loop, closer>>

Leave(r, to) ==
  /\ queues' = queues \ {r}
  /\ client' = [client EXCEPT ![r] = to]
  /\ UNCHANGED <<evars, running, stream, hybrid, admitQ, adm, got, loop, closer>>

EndStream(r) ==
  client[r] = "read" /\ Leave(r, IF r \in AsyncReaders THEN "canceling" ELSE "done")
Abandon(r) ==
  client[r] \in {"open", "await"} /\ Leave(r, IF r \in AsyncReaders THEN "leaving" ELSE "gone")

CancelBackend(r) ==
  /\ client[r] \in {"canceling", "leaving"}
  /\ Sent(<<Cancel(r)>>)
  /\ client' = [client EXCEPT ![r] = IF @ = "leaving" THEN "gone" ELSE "done"]
  /\ UNCHANGED <<EngineRest, cut, running, queues, stream, hybrid, admitQ, adm, got, loop,
                 closer>>
-----------------------------------------------------------------------------
(***************************************************************************)
(* _event_loop.                                                            *)
(***************************************************************************)
\* Rids of an event.
Told(e) == {e.toks[i].rid : i \in DOMAIN e.toks} \cup e.fin

Receive ==
  /\ lpc = "recv" /\ ~cut /\ events # <<>>
  /\ events' = Tail(events)
  /\ LET e == Arrived
     IN  IF e.type = "error"
         THEN /\ running' = FALSE /\ queues' = {}
              /\ lpc' = "notify" /\ event' = {} /\ seen' = queues
         ELSE /\ IF running THEN lpc' = "deliver" /\ event' = {e} /\ seen' = queues \cap Told(e)
                            ELSE lpc' = "dead" /\ UNCHANGED <<event, seen>>
              /\ UNCHANGED <<running, queues>>
  /\ UNCHANGED <<channels, cmds, epc, died, boot, recvCt, queued, served, result, prof,
                 stream, hybrid, admitQ, adm, clients, closer>>

\* Tokens and ends go to the streams found; for tokens without one the request is
\* canceled, once for each pair or list.
Unknown(e, found) ==
  EntriesAt(e.toks, {i \in DOMAIN e.toks : e.toks[i].rid \notin found})

Deliver ==
  /\ lpc = "deliver"
  /\ \E e \in event : \E holding \in Holding(seen) :
       LET fed(r) == FedTo(stream[r], TokensOf(e, r), r \in holding, r \in e.fin)
           lost == Unknown(e, seen)
       IN  /\ Put([r \in Requests |-> IF r \in seen THEN fed(r).put ELSE <<>>])
           /\ stream' = [r \in Requests |-> IF r \in seen THEN fed(r).state ELSE stream[r]]
           /\ Sent([i \in DOMAIN lost |-> Cancel(lost[i].rid)])
  /\ lpc' = "recv" /\ event' = {} /\ seen' = {}
  /\ UNCHANGED <<EngineRest, cut, running, queues, admitQ, adm, clients, closer>>

\* After an ErrorEvent every stream ends.
NotifiedQueues == queues                                     \* a mutation
Notified == seen

Notify ==
  /\ lpc = "notify"
  /\ PutNone(Notified)
  /\ lpc' = "dead" /\ seen' = {}
  /\ UNCHANGED <<evars, running, queues, stream, admitQ, adm, clients, event, closer>>

\* The end of the pipe, and nobody is told; or close has closed it here, which
\* is handled like an error, but finds no stream any more.
HangUp ==
  /\ lpc = "recv" /\ ipc = "pipe"
  /\ cut \/ (~Alive /\ events = <<>>)
  /\ lpc' = "dead"
  /\ UNCHANGED <<evars, running, queues, stream, hybrid, admitQ, adm, clients, event,
                 seen, closer>>
-----------------------------------------------------------------------------
(***************************************************************************)
(* close.                                                                  *)
(***************************************************************************)
Close ==
  /\ closer.at = "idle"
  /\ admitQ' = admitQ \o [i \in 1..Cardinality(Admitters) |-> Poison]
  /\ closer' = [closer EXCEPT !.at = "lock"]
  /\ UNCHANGED <<evars, running, queues, stream, hybrid, adm, clients, loop>>

CloseLocked ==
  /\ closer.at = "lock"
  /\ running' = FALSE
  /\ IF running THEN queues' = {} /\ closer' = [at |-> "tell", found |-> queues]
                ELSE UNCHANGED queues /\ closer' = [closer EXCEPT !.at = "closed"]
  /\ UNCHANGED <<evars, stream, hybrid, admitQ, adm, clients, loop>>

CloseTells ==
  /\ closer.at = "tell"
  /\ PutNone(closer.found)
  /\ Sent(<<Shutdown>>)
  /\ cut' = (ipc = "pipe")
  /\ closer' = [at |-> "join", found |-> {}]
  /\ UNCHANGED <<EngineRest, running, queues, stream, admitQ, adm, clients, loop>>

\* The process is joined, and killed when that times out.
CloseJoins ==
  /\ closer.at = "join"
  /\ epc' = "dead"
  /\ closer' = [closer EXCEPT !.at = "closed"]
  /\ UNCHANGED <<channels, cmds, events, died, boot, recvCt, queued, served, result, prof,
                 running, queues, stream, hybrid, admitQ, adm, clients, loop>>
-----------------------------------------------------------------------------
Init ==
  /\ EngineInit
  /\ running = TRUE /\ queues = {} /\ admitQ = <<>>
  /\ stream = [r \in Requests |-> Fresh]
  /\ chan = [r \in Requests |-> <<>>]
  /\ evt = [r \in Requests |-> FALSE] /\ sets = [r \in Requests |-> 0]
  /\ adm = [t \in Admitters |-> Free]
  /\ client = [r \in Requests |-> "idle"] /\ got = [r \in Requests |-> <<>>]
  /\ lpc = "recv" /\ event = {} /\ seen = {}
  /\ closer = [at |-> "idle", found |-> {}]

Adder(r)  == Submit(r) \/ AddRaises(r) \/ Send(r)
Reader(r) == Read(r) \/ Await(r) \/ Awake(r) \/ EndStream(r) \/ CancelBackend(r)
Admitter(t) == \/ TakeTask(t) \/ LookAgain(t) \/ AdmitSends(t)
               \/ AdmitRaises(t) \/ AdmitForgets(t)
Loop   == Receive \/ Deliver \/ Notify \/ HangUp
Closer == Close \/ CloseLocked \/ CloseTells \/ CloseJoins
Process == (Engine \/ EngineRaises \/ Dies) /\ UNCHANGED mvars

Next == \/ \E r \in Requests : \/ Register(r) \/ Adder(r) \/ Open(r)
                               \/ Reader(r) \/ Abandon(r) \/ LoopSets(r)
        \/ \E t \in Admitters : Admitter(t)
        \/ Loop \/ Closer \/ Process

Spec == Init /\ [][Next]_vars

\* Threads and the process run; a client need not come, read, or stay.
Fairness == /\ \A r \in Requests : /\ WF_vars(Adder(r)) /\ WF_vars(Reader(r))
                                   /\ WF_vars(LoopSets(r))
            /\ \A t \in Admitters : WF_vars(Admitter(t))
            /\ WF_vars(Loop)
            /\ WF_vars(CloseLocked \/ CloseTells \/ CloseJoins)
            /\ WF_vars(Engine /\ UNCHANGED mvars)
LiveSpec == Spec /\ Fairness
-----------------------------------------------------------------------------
(***************************************************************************)
(* Properties.                                                             *)
(***************************************************************************)
\* Type invariant of the process, the streams and the threads.
TypeOK ==
  /\ EngineTypeOK
  /\ running \in BOOLEAN
  /\ queues \subseteq Requests /\ seen \subseteq Requests
  /\ evt \in [Requests -> BOOLEAN] /\ sets \in [Requests -> Nat]
  /\ admitQ \in Seq(Requests \cup {Poison})
  /\ lpc \in {"recv", "deliver", "notify", "dead"}

\* Each client sees a stream in order, without gaps, that ends once and after
\* the last token, although tokens, cancellations, failures and close cross
\* between two processes.
Over == {r \in Requests : client[r] \in {"read", "canceling", "done"}}
Contract == INSTANCE StreamContract WITH
              made <- gen,
              final <- {r \in Requests : gen[r] > 0 /\ r \notin sessions},
              over <- Over,
              stopped <- ~running
ImplementsStreams == Contract!SSpec

\* A client that reads its stream comes to the end of it, unless the process
\* died without a word: then nothing tells the readers.
StreamsEnd == <>[](died \/ \A r \in Requests : client[r] \notin {"open", "await"})
=============================================================================
