--------------------------- MODULE ChunkedScheduler ---------------------------
(***************************************************************************)
(* ChunkedOnlineScheduler: prompts are prefilled in chunks, a step at a    *)
(* time, next to the decoding of those that are through.  With overlapped  *)
(* steps (Overlap) a step launches a batch of decodes and one of chunks,   *)
(* and takes the results of a batch launched before; the tokens in flight  *)
(* are placeholders, and the next chunk of a prompt may be launched while  *)
(* the last one is in flight.                                              *)
(*                                                                         *)
(* A step is run phase by phase.  The i-th token of a request is i; which  *)
(* slot and buffer the device reads is in OverlapScheduler.                *)
(***************************************************************************)
EXTENDS Integers, SequencesExt

CONSTANTS
  Requests,    \* ids of requests; an id is used once
  MaxNew,      \* max_new_tokens of every request
  MaxChunks,   \* bound: chunks in a prompt
  MaxBatch,    \* max_batch_size
  MaxPrefill,  \* prefill_max_batch_size
  Overlaps     \* values of overlap_schedule to choose from

ASSUME ChunkedAssumption ==
  /\ IsFiniteSet(Requests) /\ Overlaps \subseteq BOOLEAN
  /\ MaxNew \in Nat \ {0} /\ MaxChunks \in Nat \ {0}
  /\ MaxBatch \in Nat \ {0} /\ MaxPrefill \in Nat \ {0}

VARIABLES
  overlap,     \* _overlap_schedule
  known,       \* keys of _sessions
  finished,    \* sessions whose `finished' is set
  held,        \* sessions that have not released their blocks
  left,        \* chunks of the prompt not yet given to the engine
  ids,         \* generated_ids: tokens, and placeholders
  prefillRids, \* _prefill_rids
  decodeRids,  \* _decode_rids
  inflight,    \* _overlap_inflight (0: no key)
  canceled,    \* _overlap_canceled
  decodes,     \* _overlap_decode_pending
  prefills,    \* _overlap_prefill_pending
  pc,          \* the phase of the step
  launched,    \* which batches this step has launched
  tokens,      \* tokens returned to the caller for a request
  ended,       \* times a request was among the finished ids
  dropped      \* requests the caller has discarded

sessions == <<known, finished, held, left, ids>>
queued   == <<prefillRids, decodeRids>>
pending  == <<inflight, canceled, decodes, prefills>>
caller   == <<tokens, ended, dropped>>
vars     == <<overlap, sessions, queued, pending, pc, launched, caller>>

Placeholder == 0
Alive(r) == r \in known \ finished

\* What a step returns: a token for some requests, and the ids of finished ones.
Returned(toks) ==
  tokens' = [r \in Requests |-> IF r \in DOMAIN toks THEN Append(tokens[r], toks[r])
                                                     ELSE tokens[r]]
Reported(S) ==
  ended' = [r \in Requests |-> IF r \in S THEN ended[r] + 1 ELSE ended[r]]

\* Tokens of a session that are no placeholders: committed_step_count.
Committed(r) == Cardinality({i \in DOMAIN ids[r] : ids[r][i] # Placeholder})
-----------------------------------------------------------------------------
(***************************************************************************)
(* The caller, between two steps.                                          *)
(***************************************************************************)
Fresh(r) == pc = "idle" /\ r \notin known \cup dropped

\* The prefix cache may hold a part of the prompt.
AddRequest(r) ==
  /\ Fresh(r)
  /\ known' = known \cup {r} /\ held' = held \cup {r}
  /\ \E n \in 1..MaxChunks : left' = [left EXCEPT ![r] = n]
  /\ prefillRids' = Append(prefillRids, r)
  /\ UNCHANGED <<overlap, finished, ids, decodeRids, pending, pc, launched, caller>>

\* It holds all of it: the first token is there at once, and may be the last.
AddCached(r) ==
  /\ Fresh(r)
  /\ known' = known \cup {r}
  /\ ids' = [ids EXCEPT ![r] = <<1>>]
  /\ Returned([q \in {r} |-> 1])
  /\ \E eos \in BOOLEAN :
       IF eos \/ MaxNew = 1
       THEN /\ finished' = finished \cup {r}
            /\ Reported({r})
            /\ UNCHANGED <<held, decodeRids>>
       ELSE /\ held' = held \cup {r}
            /\ decodeRids' = Append(decodeRids, r)
            /\ UNCHANGED <<finished, ended>>
  /\ UNCHANGED <<overlap, left, prefillRids, pending, pc, launched, dropped>>

\* discard_request: a session with a batch in flight is only marked.
DiscardsAtOnce(r) == TRUE                                    \* a mutation
Discards(r) == inflight[r] = 0

Discard(r) ==
  /\ pc = "idle" /\ r \in known \ canceled
  /\ dropped' = dropped \cup {r}
  /\ IF Discards(r)
     THEN /\ known' = known \ {r} /\ held' = held \ {r}
          /\ UNCHANGED <<finished, canceled>>
     ELSE /\ finished' = finished \cup {r} /\ canceled' = canceled \cup {r}
          /\ UNCHANGED <<known, held>>
  /\ UNCHANGED <<overlap, left, ids, queued, inflight, decodes, prefills, pc, launched,
                 tokens, ended>>

\* has_unfinished takes sessions that are over from the heads of the queues.
Trim(q) == LET over == {i \in 1..Len(q) : \A j \in 1..i : ~Alive(q[j])}
           IN  SubSeq(q, Cardinality(over) + 1, Len(q))

HasUnfinished ==
  decodes # <<>> \/ prefills # <<>> \/ Trim(decodeRids) # <<>> \/ Trim(prefillRids) # <<>>

StepCall ==
  /\ pc = "idle" /\ HasUnfinished
  /\ IF decodes # <<>> \/ prefills # <<>> THEN UNCHANGED queued
     ELSE /\ decodeRids' = Trim(decodeRids)
          /\ prefillRids' = IF decodeRids' = <<>> THEN Trim(prefillRids) ELSE prefillRids
  /\ pc' = "decode"
  /\ UNCHANGED <<overlap, sessions, pending, launched, caller>>

AllOver ==
  /\ pc = "idle" /\ ~HasUnfinished
  /\ decodeRids' = <<>> /\ prefillRids' = <<>>
  /\ UNCHANGED <<overlap, sessions, pending, pc, launched, caller>>
-----------------------------------------------------------------------------
(***************************************************************************)
(* Selecting a batch: the queue is taken up to the last request selected.  *)
(***************************************************************************)
\* How many of the first k entries are in S, those that are in order, and those of
\* all entries.
Picked(q, S, k) == Cardinality({i \in 1..k : q[i] \in S})
Chosen(q, S, k) ==
  LET nth(n) == CHOOSE i \in 1..k : q[i] \in S /\ Picked(q, S, i) = n
  IN  [n \in 1..Picked(q, S, k) |-> q[nth(n)]]
Among(q, S) == Chosen(q, S, Len(q))

Scanned(q, S, max) ==
  CHOOSE k \in 0..Len(q) : /\ k = Len(q) \/ Picked(q, S, k) >= max
                          /\ \A j \in 0..(k - 1) : Picked(q, S, j) < max

Selected(q, S, max) == Chosen(q, S, Scanned(q, S, max))
Rest(q, S, max)     == SubSeq(q, Scanned(q, S, max) + 1, Len(q))

\* With overlapped steps the placeholders count as tokens (step_count).
DecodableFull(r) == Alive(r) /\ ids[r] # <<>>                \* a mutation
Decodable(r) == Alive(r) /\ ids[r] # <<>> /\ (overlap => Len(ids[r]) < MaxNew)
Prefillable(r) == Alive(r) /\ left[r] > 0

ToDecode    == {r \in Requests : Decodable(r)}
ToPrefill   == {r \in Requests : Prefillable(r)}
DecodeBatch == Selected(decodeRids, ToDecode, MaxBatch)
DecodeRest  == Rest(decodeRids, ToDecode, MaxBatch)
ChunkBatch  == Selected(prefillRids, ToPrefill, MaxPrefill)
ChunkRest   == Rest(prefillRids, ToPrefill, MaxPrefill)

\* Requests of the batch of chunks with another chunk to come, and those ready.
UnfinishedNone(r) == FALSE                                   \* a mutation
Unfinished(r) == left[r] > 1
Ready(r) == left[r] = 1
UnfinishedOnes == Among(ChunkBatch, {r \in Requests : Unfinished(r)})
ReadyOnes      == Among(ChunkBatch, {r \in Requests : Ready(r)})
GivenChunks ==
  left' = [r \in Requests |-> IF r \in Range(ChunkBatch) THEN left[r] - 1 ELSE left[r]]

(***************************************************************************)
(* step, without overlap.                                                  *)
(***************************************************************************)
\* A next token for each of S, which may be EOS: those that end give their
\* blocks back.
Gets(S, fin) ==
  /\ ids' = [r \in Requests |-> IF r \in S THEN Append(ids[r], Len(ids[r]) + 1) ELSE ids[r]]
  /\ Returned([r \in S |-> Len(ids[r]) + 1])
  /\ finished' = finished \cup fin /\ held' = held \ fin
  /\ Reported(fin)

\* Requests that get their last token: EOS, or max_new_tokens reached.
LastOf(S, eos) == eos \cup {r \in S : Committed(r) + 1 >= MaxNew}

SyncDecode ==
  /\ pc = "decode" /\ ~overlap
  /\ \E eos \in SUBSET Range(DecodeBatch) :
       LET fin == LastOf(Range(DecodeBatch), eos)
       IN  /\ Gets(Range(DecodeBatch), fin)
           /\ decodeRids' = DecodeRest \o Among(DecodeBatch, Requests \ fin)
  /\ pc' = "prefill"
  /\ UNCHANGED <<overlap, known, left, prefillRids, pending, launched, dropped>>

SyncPrefill ==
  /\ pc = "prefill" /\ ~overlap
  /\ GivenChunks
  /\ prefillRids' = ChunkRest \o UnfinishedOnes
  /\ LET ready == ReadyOnes
     IN  \E eos \in SUBSET Range(ready) :
           LET fin == LastOf(Range(ready), eos)
           IN  /\ Gets(Range(ready), fin)
               /\ decodeRids' = decodeRids \o Among(ready, Requests \ fin)
  /\ pc' = "idle"
  /\ UNCHANGED <<overlap, known, pending, launched, dropped>>
-----------------------------------------------------------------------------
(***************************************************************************)
(* _step_overlap: launch a batch of decodes, then a batch of chunks.       *)
(***************************************************************************)
Launched(S) == inflight' = [r \in Requests |-> IF r \in S THEN inflight[r] + 1 ELSE inflight[r]]

\* placeholder_positions: where the placeholder is appended.
PosAfter(r) == Len(ids[r]) + 2                               \* a mutation
Pos(r) == Len(ids[r]) + 1

LaunchDecode ==
  /\ pc = "decode" /\ overlap
  /\ decodeRids' = DecodeRest \o DecodeBatch
  /\ decodes' = IF DecodeBatch = <<>> THEN decodes
                ELSE Append(decodes, {[rid |-> r, pos |-> Pos(r)] : r \in Range(DecodeBatch)})
  /\ ids' = [r \in Requests |-> IF r \in Range(DecodeBatch)
                                THEN Append(ids[r], Placeholder) ELSE ids[r]]
  /\ Launched(Range(DecodeBatch))
  /\ launched' = IF DecodeBatch = <<>> THEN {} ELSE {"decode"}
  /\ pc' = "prefill"
  /\ UNCHANGED <<overlap, known, finished, held, left, prefillRids, canceled, prefills, caller>>

LaunchPrefill ==
  /\ pc = "prefill" /\ overlap
  /\ GivenChunks
  /\ prefillRids' = ChunkRest \o UnfinishedOnes
  /\ prefills' = IF ChunkBatch = <<>> THEN prefills
                 ELSE Append(prefills, [all |-> Range(ChunkBatch),
                                        ready |-> ReadyOnes])
  /\ Launched(Range(ChunkBatch))
  /\ launched' = IF ChunkBatch = <<>> THEN launched ELSE launched \cup {"prefill"}
  /\ pc' = "takeDecode"
  /\ UNCHANGED <<overlap, known, finished, held, ids, decodeRids, canceled, decodes, caller>>

(***************************************************************************)
(* Then take the oldest batch of decodes and the oldest batch of chunks,   *)
(* unless it is the one just launched.                                     *)
(***************************************************************************)
Landed(S) == inflight' = [r \in Requests |-> IF r \in S THEN inflight[r] - 1 ELSE inflight[r]]

NoneLeftEarly(r) == TRUE                                     \* a mutation
NoneLeft(r) == inflight[r] <= 1

\* Sessions of canceled requests, gone with their last batch in flight.
Forgotten(gone) ==
  /\ known' = known \ gone
  /\ canceled' = canceled \ gone

DecodesDue == Len(decodes) > 1 \/ (decodes # <<>> /\ "decode" \notin launched)

\* The entries of a batch: of canceled requests, of sessions that finished
\* meanwhile, and those that are a token.
Entries == Head(decodes)
IdOf(x) == x.rid
InRange(x)  == x.pos <= Len(ids[x.rid])
OfCanceled  == {x \in Entries : x.rid \in canceled}
OfExtra     == {x \in Entries : x.rid \in finished \ canceled}
OfToken     == {x \in Entries : x.rid \notin finished}

\* "overlap placeholder position out of range", "... already resolved".
Raises == \/ \E x \in OfCanceled : ~InRange(x)
          \/ \E x \in OfToken : ~InRange(x) \/ ids[x.rid][x.pos] # Placeholder

Resolved(x) ==
  IF x \in OfExtra THEN (IF InRange(x) THEN RemoveAt(ids[x.rid], x.pos) ELSE ids[x.rid])
  ELSE [ids[x.rid] EXCEPT ![x.pos] = x.pos]

TakeEntries ==
  /\ decodes' = Tail(decodes)
  /\ LET rids == {IdOf(x) : x \in Entries}
         entry(r) == CHOOSE x \in Entries : x.rid = r
         gone == {r \in {IdOf(x) : x \in OfCanceled} : NoneLeft(r)}
     IN  /\ Landed(rids)
         /\ Forgotten(gone)
         /\ ids' = [r \in Requests |-> IF r \in rids THEN Resolved(entry(r)) ELSE ids[r]]
         /\ Returned([r \in {IdOf(x) : x \in OfToken} |-> entry(r).pos])
         /\ \E eos \in SUBSET {IdOf(x) : x \in OfToken} :
              LET fin  == LastOf({IdOf(x) : x \in OfToken}, eos)
                  over == {r \in fin \cup {IdOf(x) : x \in OfExtra} : NoneLeft(r)}
              IN  /\ finished' = finished \cup fin
                  /\ held' = held \ (gone \cup over)
                  /\ Reported(over)
  /\ pc' = "takePrefill"
  /\ UNCHANGED <<overlap, left, queued, prefills, launched, dropped>>

TakeDecode ==
  /\ pc = "takeDecode" /\ DecodesDue
  /\ IF Raises
     THEN /\ pc' = "raised"
          /\ UNCHANGED <<overlap, sessions, queued, pending, launched, caller>>
     ELSE TakeEntries

NoDecodeDue ==
  /\ pc = "takeDecode" /\ ~DecodesDue
  /\ pc' = "takePrefill"
  /\ UNCHANGED <<overlap, sessions, queued, pending, launched, caller>>

\* The ready requests get their first token.  One that was canceled with this
\* chunk in flight is no longer marked so when that is looked up: its token and
\* its end are still returned, to a caller that has discarded it.
PrefillsDue == Len(prefills) > 1 \/ (prefills # <<>> /\ "prefill" \notin launched)

TakePrefill ==
  /\ pc = "takePrefill" /\ PrefillsDue
  /\ prefills' = Tail(prefills)
  /\ LET all   == Head(prefills).all
         gone  == {r \in all \cap canceled : NoneLeft(r)}
         first == Among(Head(prefills).ready, Requests \ (canceled \ gone))
     IN  /\ Landed(all)
         /\ Forgotten(gone)
         /\ \E eos \in SUBSET Range(first) :
              LET fin == LastOf(Range(first), eos) \cup (Range(first) \cap finished)
              IN  /\ ids' = [r \in Requests |-> IF r \in Range(first) THEN Append(ids[r], 1)
                                                ELSE ids[r]]
                  /\ Returned([r \in Range(first) |-> 1])
                  /\ finished' = finished \cup fin
                  /\ held' = held \ (gone \cup fin)
                  /\ Reported(fin)
                  /\ decodeRids' = decodeRids \o Among(first, Requests \ fin)
  /\ pc' = "idle" /\ launched' = {}
  /\ UNCHANGED <<overlap, left, prefillRids, decodes, dropped>>

NoPrefillDue ==
  /\ pc = "takePrefill" /\ ~PrefillsDue
  /\ pc' = "idle" /\ launched' = {}
  /\ UNCHANGED <<overlap, sessions, queued, pending, caller>>
-----------------------------------------------------------------------------
Init ==
  /\ overlap \in Overlaps
  /\ known = {} /\ finished = {} /\ held = {} /\ canceled = {} /\ dropped = {}
  /\ left = [r \in Requests |-> 0] /\ ids = [r \in Requests |-> <<>>]
  /\ prefillRids = <<>> /\ decodeRids = <<>>
  /\ inflight = [r \in Requests |-> 0]
  /\ decodes = <<>> /\ prefills = <<>>
  /\ pc = "idle" /\ launched = {}
  /\ tokens = [r \in Requests |-> <<>>] /\ ended = [r \in Requests |-> 0]

Step == \/ StepCall \/ AllOver \/ SyncDecode \/ SyncPrefill
        \/ LaunchDecode \/ LaunchPrefill
        \/ TakeDecode \/ NoDecodeDue \/ TakePrefill \/ NoPrefillDue

Next == \/ \E r \in Requests : AddRequest(r) \/ AddCached(r) \/ Discard(r)
        \/ Step

Spec == Init /\ [][Next]_vars

\* The caller goes on stepping while there is something unfinished.
LiveSpec == Spec /\ WF_vars(Step)
-----------------------------------------------------------------------------
(***************************************************************************)
(* Properties.                                                             *)
(***************************************************************************)
\* Type invariant; a canceled session is one the caller has discarded, and no
\* request is reported finished twice.
TypeOK ==
  /\ overlap \in BOOLEAN
  /\ known \subseteq Requests /\ finished \subseteq Requests /\ held \subseteq known
  /\ canceled \subseteq known \cap dropped
  /\ left \in [Requests -> 0..MaxChunks]
  /\ \A r \in Requests : Len(ids[r]) <= MaxNew
  /\ inflight \in [Requests -> Nat]
  /\ ended \in [Requests -> 0..1]
  /\ pc \in {"idle", "decode", "prefill", "takeDecode", "takePrefill", "raised"}

\* Whoever has a chunk or a token in flight still holds its blocks, and the
\* count by which discard_request and the end of a session go is right.
InFlight(r) ==
  Cardinality({i \in DOMAIN decodes : \E x \in decodes[i] : x.rid = r})
    + Cardinality({i \in DOMAIN prefills : r \in prefills[i].all})
BlocksHeld ==
  \A r \in Requests : inflight[r] = InFlight(r) /\ (inflight[r] > 0 => r \in held)

\* A placeholder finds its own entry of generated_ids when its token arrives:
\* neither of the RuntimeErrors of _step_overlap is ever raised.
NeverRaises == pc # "raised"

\* Between two steps each session that is not over is in exactly one place: in
\* one of the queues once, or with its last chunk or last token in flight and in
\* no queue of use to it; none is lost on the way from chunk to chunk to token.
Occurs(q, r) == Cardinality({i \in DOMAIN q : q[i] = r})
LastChunkInFlight(r) == \E i \in DOMAIN prefills : r \in Range(prefills[i].ready)
LastTokenInFlight(r) ==
  Len(ids[r]) = MaxNew /\ \E i \in DOMAIN decodes : \E x \in decodes[i] : x.rid = r
OnePlace ==
  pc = "idle" => \A r \in known \ finished :
    IF ids[r] = <<>>
    THEN /\ Occurs(decodeRids, r) = 0
         /\ Occurs(prefillRids, r) = (IF LastChunkInFlight(r) THEN 0 ELSE 1)
         /\ LastChunkInFlight(r) = (left[r] = 0)
    ELSE /\ Occurs(prefillRids, r) = 0 /\ Occurs(decodeRids, r) <= 1
         /\ Occurs(decodeRids, r) = 1 \/ LastTokenInFlight(r)

\* With chunks or without, overlapped or not, the caller gets the tokens of the
\* model in order, and the end once and after the last of them. Of a request it has
\* discarded it gets nothing, unless the last chunk was in flight at that moment:
\* then the first token still comes, once, and with it the end.
Contract == INSTANCE DecodeContract WITH
              final <- finished \cup dropped,
              late <- {r \in canceled : LastChunkInFlight(r)}
ImplementsSync == Contract!CSpec

\* The caller that goes on stepping sees the end of every request, and no
\* session keeps its blocks.
Completes == <>[](held = {} /\ \A r \in known : ended[r] = 1)
=============================================================================
