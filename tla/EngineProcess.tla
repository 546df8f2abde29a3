---------------------------- MODULE EngineProcess ----------------------------
(***************************************************************************)
(* The process that owns the engine and the scheduler (_engine_process_main *)
(* over queues, _engine_process_main_pipe over pipes) and the two channels *)
(* between it and the manager in the server's process: commands to it,     *)
(* events from it.  The scheduler is OnlineScheduler with synchronous      *)
(* steps; which of its sessions make up the batch of a step is left open.  *)
(*                                                                         *)
(* The process may die at any time without a word (Crashes), or with an    *)
(* ErrorEvent when the engine raises (Errors).  Over a queue, a command    *)
(* that was put may not have arrived when the process looks for it.        *)
(***************************************************************************)
EXTENDS Messages

CONSTANTS
  MaxNew,       \* max_new_tokens of every request
  MaxBatch,     \* max_batch_size
  KVConc,       \* kv_cache_max_concurrency
  MaxRecv,      \* mp_max_recv_per_iter (0: no bound)
  FillTarget,   \* mp_fill_target
  IpcModes,     \* values of ipc_mode to choose from
  EmitModes,    \* kinds of token events to choose from (mp_emit_token_events,
                \* mp_flat_events)
  Errors,       \* whether calls of the tokenizer and the engine may raise
  Crashes       \* whether the process may die silently

ASSUME EngineAssumption ==
  /\ MaxNew \in Nat \ {0} /\ MaxBatch \in Nat \ {0} /\ KVConc \in Nat \ {0}
  /\ MaxRecv \in Nat
  /\ IpcModes \subseteq {"queue", "pipe"} /\ EmitModes \subseteq {"pairs", "tokens", "counts"}
  /\ FillTarget \in BOOLEAN /\ Errors \in BOOLEAN /\ Crashes \in BOOLEAN

VARIABLES
  ipc,        \* ipc_mode
  emit,       \* the kind of token events: emit_tokens and flat_events
  cut,        \* the manager has closed its ends of the pipes
  cmds,       \* commands on their way
  events,     \* events on their way
  epc,        \* where the process is
  died,       \* it has died without an event
  boot,       \* bootstrap
  recvCt,     \* recv_ct
  pend,       \* pending
  byRid,      \* keys of pending_by_rid
  prompts,    \* prompt_token_ids of the requests that came
  active,     \* active
  sessions,   \* the scheduler's unfinished sessions
  gen,        \* tokens generated for a request
  out,        \* token pairs of this iteration
  finished,   \* finished ids of this iteration
  prof        \* whether the profiler runs

channels == <<ipc, emit, cut>>
queued   == <<pend, byRid, prompts>>
served   == <<active, sessions, gen>>
result   == <<out, finished>>
evars == <<channels, cmds, events, epc, died, boot, recvCt, queued, served, result,
           prof>>

EngineRest == <<ipc, emit, events, epc, died, boot, recvCt, queued, served, result, prof>>

Alive == epc # "dead"

\* A pipe tells the writer that the other side is gone; a queue does not.
CanSend == ipc = "queue" \/ (Alive /\ ~cut)
CanEmit == ipc = "queue" \/ ~cut
Emitted(e) ==
  IF CanEmit THEN Append(events, IF ipc = "pipe" THEN EncodeEvt(e) ELSE e) ELSE events

\* The manager sends commands: over a pipe that may raise.
Sent(list) ==
  cmds' = IF ~CanSend THEN cmds
          ELSE cmds \o [i \in DOMAIN list |->
                         IF ipc = "pipe" THEN EncodeCmd(list[i]) ELSE list[i]]

\* What has arrived first.
Command == IF ipc = "pipe" THEN DecodeCmd(Head(cmds)) ELSE Head(cmds)
Arrived == IF ipc = "pipe" THEN DecodeEvt(Head(events)) ELSE Head(events)
-----------------------------------------------------------------------------
(***************************************************************************)
(* Receiving commands.                                                     *)
(***************************************************************************)
Target == IF KVConc < MaxBatch THEN KVConc ELSE MaxBatch     \* bootstrap_target

\* cancel_request: wherever the request is; its entry in `pending' stays.
ActiveKept(r) == active                                      \* a mutation
ActiveWithout(r) == active \ {r}

Canceled(r) ==
  /\ byRid' = byRid \ {r}
  /\ active' = ActiveWithout(r)
  /\ sessions' = sessions \ {r}
  /\ UNCHANGED <<pend, prompts, gen>>

\* Where the prompt of the i-th request of a batch begins.
OffsetFront(lens, i) == 0                                    \* a mutation
Offset(lens, i) == FoldLeft(+, 0, SubSeq(lens, 1, i - 1))

Enqueued(cmd) ==
  /\ pend' = pend \o cmd.on
  /\ byRid' = byRid \cup Range(cmd.on)
  /\ prompts' = [r \in Requests |->
       IF r \notin Range(cmd.on) THEN prompts[r]
       ELSE LET i == CHOOSE i \in DOMAIN cmd.on : cmd.on[i] = r
            IN  Slice(cmd.toks, Offset(cmd.lens, i), cmd.lens[i])]
  /\ UNCHANGED served

\* A profiler that runs cannot be started, one that does not cannot be stopped;
\* starting or stopping may fail for reasons of its own.
Profiled(cmd) ==
  /\ \E ok \in BOOLEAN :
       /\ ok => prof = (cmd.op = "stop")
       /\ prof' = IF ok THEN cmd.op = "start" ELSE prof
       /\ events' = Emitted(Ack(cmd.id, ok))
  /\ UNCHANGED <<queued, served>>

\* The top of the loop: with nothing to do the process waits for a command,
\* else it goes on to drain them, for a first batch (bootstrap) or not.
Resume(b, a, s) ==
  /\ epc' = IF b = {} /\ s = {} THEN "top" ELSE "drain"
  /\ boot' = (a = {} /\ s = {})
  /\ recvCt' = 0

\* One command is handled.
Handle(cmd) ==
  /\ cmds' = Tail(cmds)
  /\ \/ /\ cmd.op \in {"add", "add_batch"} /\ Enqueued(cmd)
        /\ UNCHANGED <<prof, events>>
     \/ /\ cmd.op = "cancel" /\ Canceled(Head(cmd.on))
        /\ UNCHANGED <<prof, events>>
     \/ cmd.op \in {"start", "stop"} /\ Profiled(cmd)
     \/ /\ cmd.op = "shutdown"
        /\ UNCHANGED <<queued, served, prof, events>>
  /\ UNCHANGED <<channels, died, result>>

\* It ends with a shutdown, and when it cannot tell that the profiler started.
Ends(cmd) == cmd.op = "shutdown" \/ (cmd.op \in {"start", "stop"} /\ ~CanEmit)

\* A single request that was waited for is admitted at once.
GetBlocking ==
  /\ epc = "top" /\ cmds # <<>>
  /\ Handle(Command)
  /\ IF Ends(Command) \/ Command.op = "add"
     THEN epc' = (IF Ends(Command) THEN "dead" ELSE "admit") /\ UNCHANGED <<boot, recvCt>>
     ELSE Resume(byRid', active', sessions')

\* How many commands an iteration takes: as many as a first batch needs, or
\* until the running batch is full, or max_recv.
FillNeeded == ~boot /\ FillTarget /\ Cardinality(active) + Len(pend) < Target

DrainFull ==
  \/ boot /\ Len(pend) >= Target
  \/ ~boot /\ ~FillNeeded /\ MaxRecv # 0 /\ recvCt >= MaxRecv

DrainOne ==
  /\ epc = "drain" /\ ~DrainFull /\ cmds # <<>>
  /\ Handle(Command)
  /\ epc' = IF Ends(Command) THEN "dead" ELSE "drain"
  /\ recvCt' = recvCt + 1
  /\ UNCHANGED boot

DrainOver == DrainFull \/ cmds = <<>> \/ ipc = "queue"
-----------------------------------------------------------------------------
(***************************************************************************)
(* Admission: requests are taken from `pending' up to a limit, and those   *)
(* canceled meanwhile are passed over.                                     *)
(***************************************************************************)
AdmitLimit ==
  LET free == IF KVConc > Cardinality(active) THEN KVConc - Cardinality(active) ELSE 0
  IN  IF free < MaxBatch THEN free ELSE MaxBatch

\* Taking goes on while fewer than the limit have been found live.
Live   == {i \in DOMAIN pend : pend[i] \in byRid}
Popped == {i \in DOMAIN pend : Cardinality({j \in Live : j < i}) < AdmitLimit}
Taken  == EntriesAt(pend, Live \cap Popped)

\* add_requests: each request gets a session and its first token, which may be
\* EOS; sessions that are finished are discarded.
Admitting == epc = "admit" \/ (epc = "drain" /\ DrainOver)

Admit ==
  /\ Admitting
  /\ \E batch \in {Taken} : \E eos \in SUBSET Range(batch) :
       LET fin == IF MaxNew = 1 THEN Range(batch) ELSE eos
       IN  /\ gen' = [r \in Requests |-> IF r \in Range(batch) THEN 1 ELSE gen[r]]
           /\ active' = active \cup (Range(batch) \ fin)
           /\ sessions' = sessions \cup (Range(batch) \ fin)
           /\ byRid' = byRid \ Range(batch)
           /\ out' = [i \in DOMAIN batch |-> [rid |-> batch[i], tok |-> 1]]
           /\ finished' = fin
  /\ pend' = SubSeq(pend, Cardinality(Popped) + 1, Len(pend))
  /\ epc' = "step"
  /\ UNCHANGED <<channels, cmds, events, died, boot, recvCt, prompts, prof>>

(***************************************************************************)
(* One step of the scheduler, if there is anything unfinished, and then    *)
(* the event with everything this iteration has to tell: the tokens, or    *)
(* only the token counts of the requests that finished.                    *)
(***************************************************************************)
BatchOf(S) == IF Cardinality(S) < MaxBatch THEN Cardinality(S) ELSE MaxBatch

\* get_step_count (mp_fast_finish_counts), before the session is discarded.
CountedAfter(made) == [r \in Requests |-> 0]                 \* a mutation
Counted(made) == made

\* Finished sessions are discarded.
Left(fin) == sessions \ fin

Event(toks, fin, made) ==
  CASE emit = "pairs"  -> Pairs(toks, fin)
    [] emit = "tokens" -> Tokens(Gathered(toks), fin)
    [] emit = "counts" -> Counts(fin, Counted(made))

Step ==
  /\ epc = "step"
  /\ \E chosen \in SUBSET sessions : \E eos \in SUBSET chosen :
     \E toks \in {out \o SetToSeq({[rid |-> r, tok |-> gen[r] + 1] : r \in chosen})} :
       LET fin == eos \cup {r \in chosen : gen[r] + 1 = MaxNew}
           all == finished \cup fin
           told == all # {} \/ (emit # "counts" /\ toks # <<>>)
       IN  /\ Cardinality(chosen) = BatchOf(sessions)
           /\ gen' = [r \in Requests |-> IF r \in chosen THEN gen[r] + 1 ELSE gen[r]]
           /\ sessions' = Left(fin)
           /\ active' = active \ fin
           /\ events' = IF told THEN Emitted(Event(toks, all, gen')) ELSE events
           /\ IF told /\ ~CanEmit
              THEN epc' = "dead" /\ UNCHANGED <<boot, recvCt>>
              ELSE Resume(byRid, active', sessions')
  /\ out' = <<>> /\ finished' = {}
  /\ UNCHANGED <<channels, cmds, died, queued, prof>>

\* The engine raises; the handler reports it and the process ends.
EngineRaises ==
  /\ Errors
  /\ \/ Admitting /\ Taken # <<>>
     \/ epc = "step" /\ sessions # {}
  /\ epc' = "dead"
  /\ events' = Emitted(Error)
  /\ UNCHANGED <<channels, cmds, died, boot, recvCt, queued, served, result, prof>>

\* It is killed, or interrupted, and says nothing.
Dies ==
  /\ Crashes /\ Alive
  /\ epc' = "dead" /\ died' = TRUE
  /\ UNCHANGED <<channels, cmds, events, boot, recvCt, queued, served, result, prof>>

Engine == GetBlocking \/ DrainOne \/ Admit \/ Step

EngineInit ==
  /\ ipc \in IpcModes /\ emit \in EmitModes /\ cut = FALSE
  /\ cmds = <<>> /\ events = <<>>
  /\ epc = "top" /\ died = FALSE /\ boot = FALSE /\ recvCt = 0
  /\ pend = <<>> /\ byRid = {} /\ prompts = [r \in Requests |-> <<>>]
  /\ active = {} /\ sessions = {}
  /\ gen = [r \in Requests |-> 0]
  /\ out = <<>> /\ finished = {}
  /\ prof = FALSE
-----------------------------------------------------------------------------
(***************************************************************************)
(* Properties of the process.                                              *)
(***************************************************************************)
EngineTypeOK ==
  /\ ipc \in {"queue", "pipe"} /\ emit \in EmitModes /\ cut \in BOOLEAN
  /\ epc \in {"top", "drain", "admit", "step", "dead"}
  /\ died \in BOOLEAN /\ boot \in BOOLEAN /\ prof \in BOOLEAN
  /\ recvCt \in Nat
  /\ pend \in Seq(Requests)
  /\ out \in Seq([rid : Requests, tok : 1..MaxNew])
  /\ byRid \subseteq Range(pend)
  /\ prompts \in [Requests -> Seq(Nat)]
  /\ active \subseteq Requests /\ finished \subseteq Requests
  /\ sessions \subseteq Requests
  /\ gen \in [Requests -> 0..MaxNew]

\* `active' is what admission counts against the KV cache, and it is kept apart
\* from the scheduler: through admission, finishing, and cancellation at any
\* time it names exactly the sessions that hold blocks, which are never more
\* than the cache was sized for.
PlacesExact == Alive => /\ active = sessions
                        /\ Cardinality(sessions) <= KVConc

\* The engine is given the prompt that the client gave: a request that came to the
\* process has it, word for word, while it waits and once it was admitted, whatever
\* else came in between, over a queue or encoded for a pipe, alone or cut out of
\* a batch.
PromptsArrive ==
  \A r \in Requests : r \in Range(pend) \/ gen[r] > 0 => prompts[r] = PromptOf[r]
=============================================================================
