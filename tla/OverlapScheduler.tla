-------------------------- MODULE OverlapScheduler --------------------------
(***************************************************************************)
(* OnlineScheduler with overlapped steps (_step_overlap).  A step launches *)
(* the decode of a batch before the tokens of the batch before it are      *)
(* known: the input of a session is then a placeholder -k, which the       *)
(* device resolves to slot k of the map of future token ids.  The step     *)
(* then takes the results of the oldest batch in flight.  A session that   *)
(* turns out to have finished, or was discarded, may thus have one step    *)
(* too many in flight.                                                     *)
(*                                                                         *)
(* The host runs the loops of a call one request at a time; between any    *)
(* two of its actions the device may carry out the oldest batch launched.  *)
(* The i-th token of a request is the number i, and so is the K/V of the   *)
(* i-th token; anything the device computes from wrong inputs is Garbage.  *)
(***************************************************************************)
EXTENDS Integers, SequencesExt

CONSTANTS
  Requests,      \* ids of requests; an id is used once
  MaxNew,        \* max_new_tokens of every request
  MaxBatch,      \* max_batch_size
  MaxRunning,    \* kv_cache_max_concurrency
  CudaGraph,     \* use_cuda_graph: inputs go through the graph's host buffers
  BlockSize,     \* positions per KV block
  PromptLen      \* tokens in every prompt

ASSUME ConstantsAssumption ==
  /\ IsFiniteSet(Requests)
  /\ MaxNew \in Nat \ {0} /\ MaxBatch \in Nat \ {0} /\ MaxRunning \in Nat \ {0}
  /\ BlockSize \in Nat \ {0} /\ PromptLen \in Nat \ {0}
  /\ CudaGraph \in BOOLEAN

VARIABLES
  known,       \* keys of _sessions
  finished,    \* sessions whose `finished' is set
  held,        \* sessions that have not released their blocks
  ids,         \* generated_ids: tokens, and placeholders below 0
  activeRids,  \* _active_rids
  inflight,    \* _overlap_inflight (0: no key)
  canceled,    \* _overlap_canceled
  batches,     \* _overlap_pending, with what the device has to work on
  ct,          \* _overlap_future_token_ids_ct
  future,      \* _overlap_future_token_ids_map
  host,        \* host buffers of the graph of a batch size
  kv,          \* K/V of the generated tokens, by position
  pc,          \* where the host is
  examine,     \* max_examine
  selected,    \* rids of selected_pairs
  item,        \* what is left of the batch whose results are taken
  tokens,      \* tokens returned to the caller; its length is the
               \* session's committed_step_count
  ended,       \* times a request was among the finished ids
  dropped      \* requests the caller has discarded

sessions == <<known, finished, held, ids, inflight, canceled>>
device   == <<batches, ct, future, host, kv>>
loop     == <<pc, examine, selected, item>>
caller   == <<tokens, ended, dropped>>
vars     == <<sessions, activeRids, device, loop, caller>>

Garbage == 0
Limit   == 3 * MaxRunning                      \* of ct
MapSize == 5 * MaxRunning + MaxBatch + 8
-----------------------------------------------------------------------------
(***************************************************************************)
(* The caller, between two steps.                                          *)
(***************************************************************************)
\* add_requests prefills and takes the first token, which may be EOS.
AddRequest(r) ==
  /\ pc = "idle"
  /\ tokens[r] = <<>>
  /\ tokens' = [tokens EXCEPT ![r] = <<1>>]
  /\ ids' = [ids EXCEPT ![r] = <<1>>]
  /\ known' = known \cup {r}
  /\ \E eos \in BOOLEAN :
       IF eos \/ MaxNew = 1
       THEN /\ finished' = finished \cup {r}
            /\ ended' = [ended EXCEPT ![r] = 1]
            /\ UNCHANGED <<held, activeRids>>
       ELSE /\ activeRids' = Append(activeRids, r)
            /\ held' = held \cup {r}
            /\ UNCHANGED <<finished, ended>>
  /\ UNCHANGED <<inflight, canceled, device, loop, dropped>>

\* discard_request: a session with a step in flight is only marked.
Discard(r) ==
  /\ pc = "idle"
  /\ r \in known \ canceled
  /\ dropped' = dropped \cup {r}
  /\ IF inflight[r] > 0
     THEN /\ finished' = finished \cup {r}
          /\ canceled' = canceled \cup {r}
          /\ UNCHANGED <<known, held, ids>>
     ELSE /\ known' = known \ {r}
          /\ held' = held \ {r}
          /\ ids' = [ids EXCEPT ![r] = <<>>]
          /\ UNCHANGED <<finished, canceled>>
  /\ UNCHANGED <<activeRids, inflight, device, loop, tokens, ended>>

Alive(r) == r \in known \ finished
HasUnfinished == batches # <<>> \/ \E r \in Range(activeRids) : Alive(r)

\* has_unfinished takes sessions that are over from the head of the queue.
LiveFrom == CHOOSE i \in 1..Len(activeRids) :
              /\ Alive(activeRids[i])
              /\ \A j \in 1..(i - 1) : ~Alive(activeRids[j])

\* The caller steps while has_unfinished says so.
StepCall ==
  /\ pc = "idle" /\ HasUnfinished
  /\ activeRids' = IF batches # <<>> THEN activeRids
                   ELSE SubSeq(activeRids, LiveFrom, Len(activeRids))
  /\ pc' = "select" /\ examine' = Len(activeRids')
  /\ UNCHANGED <<sessions, device, selected, item, caller>>

AllOver ==
  /\ pc = "idle" /\ ~HasUnfinished /\ activeRids # <<>>
  /\ activeRids' = <<>>
  /\ UNCHANGED <<sessions, device, loop, caller>>
-----------------------------------------------------------------------------
(***************************************************************************)
(* _step_overlap: select the sessions of a batch, round robin.             *)
(***************************************************************************)
\* Another token may be due: step_count, which counts placeholders, is below
\* max_new_tokens.
Eligible(r) == Alive(r) /\ Len(ids[r]) < MaxNew

MoreToSelect == examine > 0 /\ Len(selected) < MaxBatch /\ activeRids # <<>>

SelectOne ==
  /\ pc = "select" /\ MoreToSelect
  /\ examine' = examine - 1
  /\ activeRids' = Tail(activeRids)
  /\ selected' = IF Eligible(Head(activeRids)) THEN Append(selected, Head(activeRids))
                                               ELSE selected
  /\ UNCHANGED <<sessions, device, pc, item, caller>>

SelectNone ==
  /\ pc = "select" /\ ~MoreToSelect /\ selected = <<>>
  /\ pc' = "take"
  /\ UNCHANGED <<sessions, activeRids, device, examine, selected, item, caller>>

(***************************************************************************)
(* Launch the batch.  With a graph, its inputs are written to the host     *)
(* buffers of the graph, from which the device copies them when it comes   *)
(* to it; otherwise they are copied at once.  Capturing a graph, and a row *)
(* of the block table that has changed, wait for the device before that.   *)
(***************************************************************************)
Input(r) == [rid |-> r, id |-> Last(ids[r]), at |-> Len(ids[r])]

Queued == {i \in DOMAIN batches : batches[i].out = <<>>}
RowChanged(r) == Len(ids[r]) = 1 \/ (PromptLen + Len(ids[r]) - 1) % BlockSize = 0
Synchronized == \/ Queued = {}
                \/ /\ host[Len(selected)] # <<>>
                   /\ \A r \in Range(selected) : ~RowChanged(r)

SlotBefore(i) == ct + i - 1                                  \* a mutation
Slot(i) == ct + i
Placeholder(r) == -Slot(CHOOSE i \in 1..Len(selected) : selected[i] = r)

Launch ==
  /\ pc = "select" /\ ~MoreToSelect /\ selected # <<>>
  /\ CudaGraph => Synchronized
  /\ LET inputs == [i \in 1..Len(selected) |-> Input(selected[i])]
     IN  /\ batches' = Append(batches,
                         [inputs |-> inputs, base |-> ct, out |-> <<>>])
         /\ host' = IF CudaGraph THEN [host EXCEPT ![Len(selected)] = inputs] ELSE host
  /\ ids' = [r \in Requests |-> IF r \in Range(selected)
                                THEN Append(ids[r], Placeholder(r)) ELSE ids[r]]
  /\ inflight' = [r \in Requests |-> IF r \in Range(selected)
                                     THEN inflight[r] + 1 ELSE inflight[r]]
  /\ ct' = (ct + Len(selected)) % Limit
  /\ activeRids' = activeRids \o selected
  /\ pc' = "take"
  /\ UNCHANGED <<known, finished, held, canceled, future, kv, examine, selected, item,
                 caller>>

(***************************************************************************)
(* The device carries out the oldest batch it has not: it resolves the     *)
(* inputs, stores their K/V, samples the next tokens from what it reads,   *)
(* and stores them in the slots of the map and for the host.               *)
(***************************************************************************)
Value(x) == IF x.id < 0 THEN future[-x.id] ELSE x.id

Stored(inputs) ==
  [r \in Requests |-> [p \in 1..MaxNew |->
     IF \E i \in DOMAIN inputs : inputs[i].rid = r /\ inputs[i].at = p
     THEN Value(CHOOSE x \in Range(inputs) : x.rid = r /\ x.at = p)
     ELSE kv[r][p]]]

Sampled(inputs, cache) ==
  [i \in DOMAIN inputs |->
     IF \A p \in 1..inputs[i].at : cache[inputs[i].rid][p] = p
     THEN inputs[i].at + 1 ELSE Garbage]

Execute ==
  /\ Queued # {}
  /\ LET i == CHOOSE j \in Queued : \A k \in Queued : j <= k
         b == batches[i]
         read == IF CudaGraph THEN host[Len(b.inputs)] ELSE b.inputs
         out == Sampled(read, Stored(read))
     IN  /\ kv' = Stored(read)
         /\ future' = [s \in 0..(MapSize - 1) |->
                         IF s - b.base \in DOMAIN out THEN out[s - b.base] ELSE future[s]]
         /\ batches' = [batches EXCEPT ![i].out = out]
  /\ UNCHANGED <<sessions, activeRids, ct, host, loop, caller>>
-----------------------------------------------------------------------------
(***************************************************************************)
(* Take the results of the oldest batch, unless it is the one just         *)
(* launched.                                                               *)
(***************************************************************************)
ResultsDue == Len(batches) > 1 \/ (batches # <<>> /\ selected = <<>>)

Synchronize ==
  /\ pc = "take" /\ ResultsDue
  /\ Head(batches).out # <<>>
  /\ item' = [i \in DOMAIN Head(batches).inputs |->
                [rid |-> Head(batches).inputs[i].rid,
                 pos |-> Head(batches).inputs[i].at + 1,
                 tok |-> Head(batches).out[i]]]
  /\ batches' = Tail(batches)
  /\ pc' = "results"
  /\ UNCHANGED <<sessions, activeRids, ct, future, host, kv, examine, selected, caller>>

NothingDue ==
  /\ pc = "take" /\ ~ResultsDue
  /\ pc' = "idle" /\ selected' = <<>> /\ examine' = 0
  /\ UNCHANGED <<sessions, activeRids, device, item, caller>>

\* One request of the batch.
Rid == Head(item).rid
PosAfter == Head(item).pos + 1                               \* a mutation
Pos == Head(item).pos
Left == inflight[Rid] - 1

NoneLeftEarly == Left <= 1                                   \* a mutation
NoneLeftLate == Left < 0                                     \* a mutation
NoneLeft == Left <= 0

InRange == Pos <= Len(ids[Rid])
Unresolved == InRange /\ ids[Rid][Pos] < 0

\* Discarded meanwhile: gone for good with its last step in flight.
TakeCanceled ==
  /\ Rid \in canceled
  /\ IF NoneLeft
     THEN /\ canceled' = canceled \ {Rid}
          /\ known' = known \ {Rid} /\ held' = held \ {Rid}
          /\ ids' = [ids EXCEPT ![Rid] = <<>>]
     ELSE /\ ids' = IF Unresolved THEN [ids EXCEPT ![Rid][Pos] = Head(item).tok] ELSE ids
          /\ UNCHANGED <<canceled, known, held>>
  /\ UNCHANGED <<finished, pc, caller>>

\* Finished meanwhile: the token of the extra step is dropped.
TakeExtra ==
  /\ Rid \in finished \ canceled
  /\ ids' = IF InRange THEN [ids EXCEPT ![Rid] = RemoveAt(@, Pos)] ELSE ids
  /\ IF NoneLeft THEN /\ held' = held \ {Rid}
                      /\ ended' = [ended EXCEPT ![Rid] = @ + 1]
                 ELSE UNCHANGED <<held, ended>>
  /\ UNCHANGED <<known, finished, canceled, pc, tokens, dropped>>

\* The token is returned; it may be EOS or the last one.
TakeToken ==
  /\ Rid \notin finished
  /\ ids' = [ids EXCEPT ![Rid][Pos] = Head(item).tok]
  /\ tokens' = [tokens EXCEPT ![Rid] = Append(@, Head(item).tok)]
  /\ \E eos \in BOOLEAN :
       IF eos \/ Len(tokens[Rid]) + 1 = MaxNew
       THEN /\ finished' = finished \cup {Rid}
            /\ IF NoneLeft THEN /\ held' = held \ {Rid}
                                /\ ended' = [ended EXCEPT ![Rid] = @ + 1]
                           ELSE UNCHANGED <<held, ended>>
       ELSE UNCHANGED <<finished, held, ended>>
  /\ UNCHANGED <<known, canceled, pc, dropped>>

\* "overlap placeholder position out of range", "... already resolved".
Raises == IF Rid \in finished THEN Rid \in canceled /\ ~InRange ELSE ~Unresolved

TakeOne ==
  /\ pc = "results" /\ item # <<>>
  /\ inflight' = [inflight EXCEPT ![Rid] = Left]
  /\ item' = Tail(item)
  /\ IF Raises
     THEN /\ pc' = "raised"
          /\ UNCHANGED <<known, finished, held, ids, canceled, caller>>
     ELSE TakeCanceled \/ TakeExtra \/ TakeToken
  /\ UNCHANGED <<activeRids, device, examine, selected>>

Taken ==
  /\ pc = "results" /\ item = <<>>
  /\ pc' = "idle" /\ selected' = <<>> /\ examine' = 0
  /\ UNCHANGED <<sessions, activeRids, device, item, caller>>
-----------------------------------------------------------------------------
Init ==
  /\ known = {} /\ finished = {} /\ held = {} /\ canceled = {} /\ dropped = {}
  /\ ids = [r \in Requests |-> <<>>]
  /\ inflight = [r \in Requests |-> 0]
  /\ activeRids = <<>> /\ batches = <<>>
  /\ ct = 0
  /\ future = [s \in 0..(MapSize - 1) |-> 0]
  /\ host = [n \in 1..MaxBatch |-> <<>>]
  /\ kv = [r \in Requests |-> [p \in 1..MaxNew |-> 0]]
  /\ pc = "idle" /\ examine = 0 /\ selected = <<>> /\ item = <<>>
  /\ tokens = [r \in Requests |-> <<>>]
  /\ ended = [r \in Requests |-> 0]

Step == \/ StepCall \/ AllOver \/ SelectOne \/ SelectNone \/ Launch
        \/ Synchronize \/ NothingDue \/ TakeOne \/ Taken

Next == \/ \E r \in Requests : AddRequest(r) \/ Discard(r)
        \/ Step
        \/ Execute

Spec == Init /\ [][Next]_vars

\* The caller goes on stepping while there is something unfinished, and the
\* device carries out what it is given.
LiveSpec == Spec /\ WF_vars(Step) /\ WF_vars(Execute)
-----------------------------------------------------------------------------
(***************************************************************************)
(* Properties.                                                             *)
(***************************************************************************)
Inputs == [rid : Requests, id : Int, at : 1..MaxNew]

\* Type invariant of the sessions, the batches in flight and the map.
TypeOK ==
  /\ known \subseteq Requests /\ finished \subseteq Requests /\ held \subseteq Requests
  /\ canceled \subseteq Requests /\ dropped \subseteq Requests
  /\ ids \in [Requests -> Seq(Int)]
  /\ \A r \in Requests : Len(ids[r]) <= MaxNew
  /\ activeRids \in Seq(Requests) /\ selected \in Seq(Requests)
  /\ inflight \in [Requests -> Nat]
  /\ ct \in 0..(Limit - 1)
  /\ examine \in Nat
  /\ tokens \in [Requests -> Seq(0..MaxNew)]
  /\ ended \in [Requests -> Nat]

\* Whoever has a step in flight, as _overlap_inflight counts them, still holds
\* its blocks: the device never works on blocks that were given back.
InFlight(r) ==
  Cardinality({i \in DOMAIN batches : \E x \in Range(batches[i].inputs) : x.rid = r})
    + Cardinality({i \in DOMAIN item : item[i].rid = r})

BlocksHeld ==
  \A r \in Requests : /\ inflight[r] = InFlight(r)
                      /\ inflight[r] > 0 => r \in known \cap held

\* A placeholder finds its own entry of generated_ids when its token arrives:
\* neither of the RuntimeErrors of _step_overlap is ever raised.
NeverRaises == pc # "raised"

\* What the device is given next resolves to the session's last token: the
\* slots of the ring are not reused while a placeholder still names them.
InputsResolve ==
  \A i \in Queued : (\A j \in Queued : i <= j) =>
    \A x \in Range(batches[i].inputs) : Value(x) = x.at

\* Overlapped steps return what one step after the other would: the same
\* tokens in order, the end once, nothing for a discarded request.
Contract == INSTANCE DecodeContract WITH final <- finished \cup dropped, late <- {}
ImplementsSync == Contract!CSpec

\* Each session gives its blocks back, in the end: those that finish, with or
\* without an extra step in flight, and those discarded at any time, which then
\* leave the scheduler as well.
BlocksReturned == <>[](held = {} /\ canceled = {})
=============================================================================
