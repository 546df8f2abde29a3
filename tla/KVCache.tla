------------------------------ MODULE KVCache ------------------------------
(***************************************************************************)
(* The paged KV cache of the inference engine and everything that owns     *)
(* blocks of it: the reference-counted block pool (GlobalKVBlockManager),  *)
(* the sessions that fill blocks while they prefill and decode             *)
(* (InferenceSession, and the schedulers that drive them), and the prefix   *)
(* cache (PrefixCache), whose entries share blocks with sessions.          *)
(*                                                                         *)
(* One of three schedulers uses the engine (mode): OnlineScheduler, with   *)
(* synchronous steps; ChunkedOnlineScheduler, with synchronous steps too,  *)
(* which prefills prompts chunk by chunk between decode steps; or          *)
(* OfflineScheduler, beside which the engine's own generate and            *)
(* stream_generate may be called.                                          *)
(*                                                                         *)
(* One thread runs the scheduler, so calls do not interleave; but one      *)
(* add_requests call serves a list of requests in several passes, and the  *)
(* passes of different requests do.  Each pass over one request is one     *)
(* action; `stage' says which pass a session is in, and the guards keep    *)
(* the passes in the order of the code.  Inside a pass, the order of the   *)
(* requests is left open.                                                  *)
(*                                                                         *)
(* The K/V vectors stored for position i of a token sequence x depend on   *)
(* the tokens 1..i, so their value here is that prefix of x.               *)
(***************************************************************************)
EXTENDS Integers, SequencesExt

CONSTANTS
  Blocks,       \* ids of the blocks of the pool, range(max_blocks)
  BlockSize,    \* token positions per block
  Sessions,     \* identities of InferenceSession objects
  Tokens,       \* vocabulary
  Prompts,      \* prompts the clients send, as token ids
  MaxLen,       \* config.max_position_embeddings
  MaxEntries,   \* prefix_cache_max_entries (0: no limit)
  MaxBatch,     \* requests in one add_requests call
  ChunkSize,    \* prefill_chunk_size
  Modes,        \* schedulers to choose from
  MaxLive       \* sessions at a time, for each of them (a bound of the checks)

(***************************************************************************)
(* A prompt is never empty (an empty one becomes [eos_token_id]); one of   *)
(* max_position_embeddings tokens leaves no room to generate, is finished  *)
(* at once and never touches the cache.                                    *)
(***************************************************************************)
ASSUME ConstantsAssumption ==
  /\ IsFiniteSet(Blocks) /\ IsFiniteSet(Sessions) /\ IsFiniteSet(Prompts)
  /\ BlockSize \in Nat \ {0} /\ ChunkSize \in Nat \ {0}
  /\ Modes \subseteq {"online", "chunked", "offline"}
  /\ MaxLive \in [Modes -> Nat]
  /\ MaxLen \in Nat /\ MaxEntries \in Nat /\ MaxBatch \in Nat
  /\ Prompts \subseteq Seq(Tokens)
  /\ \A p \in Prompts : Len(p) \in 1..(MaxLen - 1)

VARIABLES
  refcount,     \* _block_refcounts
  free,         \* ids _alloc_block_id can hand out: _free_block_ids and
                \* those not below _next_block_id
  store,        \* _k_cache/_v_cache of the first _block_infos[b].length slots
  blockIds,     \* InferenceSession.block_ids
  text,         \* the tokens whose K/V the session has written or attached
  prompt,       \* the prompt of the session's request
  stage,        \* the pass the session is in
  entries,      \* PrefixCache._entries: block_ids of the entry of a key
  lru,          \* key order of that OrderedDict, oldest first
  trie,         \* PrefixCache._token_trie: count and entry of each node there is, a
                \* node being the tokens on the way to it from the root
  mode          \* the scheduler in use, which never changes

vars == <<refcount, free, store, blockIds, text, prompt, stage, entries, lru, trie, mode>>

(***************************************************************************)
(* Stages.  "none": no such session.  In add_requests: "new" (to be looked *)
(* up), "miss" (to be reserved), "fill" (to be written), "put" (to be      *)
(* cached), "suffix" and "splice" (a prefix hit whose remaining tokens go  *)
(* through decode steps: to be reserved, to be written), "sufput" (to be   *)
(* cached), "dup" (to copy the block list of an equal prompt), "ready" (to *)
(* sample its first token).  "running": between calls.  In a decode step:  *)
(* "decode" (to be reserved), "append" (to be written), "emit" (to take    *)
(* the token sampled for it).  "lost": the call that served some session   *)
(* raised.                                                                 *)
(*                                                                         *)
(* Chunked: "queued" (between calls, its prompt not through), "chunk" (the *)
(* next chunk to be reserved), "chunkfill" (to be written).  Offline:      *)
(* "kept" (finished, until run returns), "ending" (to be released).  A     *)
(* generator: "solo" (to be reserved), "solofill" (to be written), "held"  *)
(* (between its yields).                                                   *)
(***************************************************************************)
Adding  == {"new", "miss", "fill", "put", "suffix", "splice", "sufput", "dup",
            "ready"}
Stepping == {"decode", "append", "emit", "chunk", "chunkfill"}
InPass  == Adding \cup Stepping \cup {"ending", "solo", "solofill"}
Busy    == InPass \cup {"lost"}
Between == {"running", "queued", "kept", "held"}
Stages  == {"none"} \cup Between \cup Busy

Clear(S) == \A s \in Sessions : stage[s] \notin S
Live == Cardinality({s \in Sessions : stage[s] # "none"})

Unwritten == <<>>          \* a slot that is reserved and not yet written
Values == Seq(Tokens)      \* contents of a slot

\* The K/V of a whole token sequence.
KV(x) == [i \in 1..Len(x) |-> SubSeq(x, 1, i)]

NumBlocks(n) == (n + BlockSize - 1) \div BlockSize

\* Block and slot of a token position (1-based), as the block table gives it.
BlockAt(ids, p) == ids[((p - 1) \div BlockSize) + 1]
SlotAt(p) == ((p - 1) % BlockSize) + 1

\* What attention reads for the first n positions of a block list.
Gather(ids, n) == [p \in 1..n |-> store[BlockAt(ids, p)][SlotAt(p)]]

-----------------------------------------------------------------------------
(***************************************************************************)
(* Reference counts.                                                       *)
(***************************************************************************)
IncrefForgotten(rc, ids) == rc      \* a mutation of Incref, for the checks
Incref(rc, ids) == [b \in Blocks |-> IF b \in Range(ids) THEN rc[b] + 1
                                                         ELSE rc[b]]

\* free_blocks: a block whose count is already 0 is skipped.
Decref(rc, ids) == [b \in Blocks |-> IF b \in Range(ids) /\ rc[b] > 0
                                       THEN rc[b] - 1 ELSE rc[b]]

\* The blocks free_blocks puts back on the free list.
DroppedShared(rc, ids) == {b \in Range(ids) : rc[b] > 0}     \* a mutation
Dropped(rc, ids) == {b \in Range(ids) : rc[b] = 1}

\* Those whose block list names b, among sessions or among cache entries.
Owners(lists, b) == {x \in DOMAIN lists : b \in Range(lists[x])}
Holders(b)   == Owners(blockIds, b)
EntriesOn(b) == Owners(entries, b)

\* The pool after incref_blocks (rc) followed by free_blocks(ids).
FreeBlocks(rc, ids) ==
  /\ refcount' = Decref(rc, ids)
  /\ free' = free \cup Dropped(rc, ids)
  /\ store' = [b \in Blocks |-> IF b \in Dropped(rc, ids) THEN <<>>
                                                          ELSE store[b]]

(***************************************************************************)
(* reserve_append_tokens: room for n more tokens at the end of the block   *)
(* list of s.  A last block with room that someone else also holds is      *)
(* copied first (copy on write); what does not fit goes to new blocks.     *)
(***************************************************************************)
LastRoom(ids) == IF ids = <<>> THEN 0 ELSE BlockSize - Len(store[Last(ids)])
MustCopyNever(s) == FALSE                                    \* a mutation
MustCopy(s) == LastRoom(blockIds[s]) > 0 /\ refcount[Last(blockIds[s])] # 1

BlocksNeeded(s, n) ==
  LET room == LastRoom(blockIds[s])
  IN  NumBlocks(IF n > room THEN n - room ELSE 0)
        + (IF MustCopy(s) THEN 1 ELSE 0)

\* Positions the block list covers, counted from its last block.
Reserved(ids) == IF ids = <<>> THEN 0
                 ELSE (Len(ids) - 1) * BlockSize + Len(store[Last(ids)])

Extended(s, new) == IF MustCopy(s) THEN Front(blockIds[s]) \o new
                                   ELSE blockIds[s] \o new

\* The counts after it: a block that was copied has lost a holder.
RefsKept(s, new) == [b \in Blocks |-> IF b \in Range(new) THEN 1   \* a mutation
                                     ELSE refcount[b]]
RefsReserved(s, new) ==
  [b \in Blocks |-> IF b \in Range(new) THEN 1
                    ELSE IF MustCopy(s) /\ b = Last(blockIds[s])
                    THEN refcount[b] - 1 ELSE refcount[b]]

\* The slots of the i-th block of the extended list: those it had (a copied
\* block takes over those of its original), then unwritten ones.
SlotsNotCloned(s, i, total) ==                               \* a mutation
  [k \in 1..(IF total >= i * BlockSize THEN BlockSize
             ELSE total - (i - 1) * BlockSize) |-> Unwritten]
Slots(s, i, total) ==
  LET had  == IF i <= Len(blockIds[s]) THEN store[blockIds[s][i]] ELSE <<>>
      upto == IF total >= i * BlockSize THEN BlockSize
                                        ELSE total - (i - 1) * BlockSize
  IN  [k \in 1..upto |-> IF k <= Len(had) THEN had[k] ELSE Unwritten]

\* The device's row of the block table is written again when this has changed
\* (get_paged_block_table_row_cpu_and_dirty).
SignatureLength(ids) == Len(ids)                             \* a mutation
Signature(ids) == <<Len(ids), IF ids = <<>> THEN {} ELSE {Last(ids)}>>

ReserveAppend(s, n) ==
  \E new \in Injection(1..BlocksNeeded(s, n), free) :
    LET old   == blockIds[s]
        ids   == Extended(s, new)
        total == Reserved(old) + n
        grown == {i \in 1..Len(ids) : i >= Len(old)}
    IN  /\ blockIds' = [blockIds EXCEPT ![s] = ids]
        /\ free' = free \ Range(new)
        /\ refcount' = RefsReserved(s, new)
        /\ store' = [b \in Blocks |->
                       IF \E i \in grown : ids[i] = b
                       THEN Slots(s, CHOOSE i \in grown : ids[i] = b, total)
                       ELSE store[b]]

(***************************************************************************)
(* copy_prefill_into_cache, and the append at the end of a decode step:    *)
(* each session s of the batch W writes the K/V of the tokens xs[s] to the *)
(* slots of its next positions.                                            *)
(***************************************************************************)
WriteTokens(W, xs) ==
  LET new(s) == text[s] \o xs[s]
      at(s, b, k) == {p \in (Len(text[s]) + 1)..Len(new(s)) :
                        BlockAt(blockIds[s], p) = b /\ SlotAt(p) = k}
      writers(b, k) == {s \in W : at(s, b, k) # {}}
      written(b, k) == LET s == CHOOSE s \in writers(b, k) : TRUE
                       IN  SubSeq(new(s), 1, CHOOSE p \in at(s, b, k) : TRUE)
  IN  /\ text' = [s \in Sessions |-> IF s \in W THEN new(s) ELSE text[s]]
      /\ store' = [b \in Blocks |-> [k \in 1..Len(store[b]) |->
                     IF writers(b, k) # {} THEN written(b, k)
                                           ELSE store[b][k]]]

-----------------------------------------------------------------------------
(***************************************************************************)
(* The prefix cache.                                                       *)
(***************************************************************************)
Cached(k) == entries[k] # <<>>

\* OrderedDict.move_to_end of a key that is present (any other raises a KeyError).
MoveToEnd(k) ==
  \E i \in 1..Len(lru) : lru[i] = k /\ lru' = Append(RemoveAt(lru, i), k)

(***************************************************************************)
(* _TokenTrie: each node counts the keys whose path goes through it, and   *)
(* that of a key has its entry.  remove takes what nobody counts any more  *)
(* away with the nodes below it, from the end of the path upwards.         *)
(***************************************************************************)
EmptyTrie == [n \in {<<>>} |-> [count |-> 0, entry |-> <<>>]]

Inserted(t, k, ids) ==
  [n \in DOMAIN t \cup Prefixes(k) |->
     [count |-> (IF n \in DOMAIN t THEN t[n].count ELSE 0)
                  + (IF n \in Prefixes(k) THEN 1 ELSE 0),
      entry |-> IF n = k THEN ids ELSE IF n \in DOMAIN t THEN t[n].entry ELSE <<>>]]

PrunedAll(t, k) == Prefixes(k) \ {<<>>}                       \* a mutation
Pruned(t, k) == {n \in Prefixes(k) \ {<<>>} :
                   \A m \in Prefixes(k) : Len(m) >= Len(n) => t[m].count <= 1}

Removed(t, k, ids) ==
  IF k \notin DOMAIN t \/ t[k].entry # ids THEN t
  ELSE [n \in {n \in DOMAIN t : Pruned(t, k) \cap Prefixes(n) = {}} |->
          [count |-> t[n].count - (IF n \in Prefixes(k) THEN 1 ELSE 0),
           entry |-> IF n = k THEN <<>> ELSE t[n].entry]]

\* longest_prefix walks as far as there are nodes; the last entry on the way counts.
OnTheWay(p) == {n \in Prefixes(p) \ {<<>>} :
                  Prefixes(n) \subseteq DOMAIN trie /\ trie[n].entry # <<>>}

\* find_longest_token_prefix: an entry of the whole prompt is none.
IsLongestPrefix(k, p) == /\ k \in OnTheWay(p) /\ Len(k) < Len(p)
                         /\ \A j \in OnTheWay(p) : Len(j) <= Len(k)
NoPrefix(p) == OnTheWay(p) = {} \/ p \in OnTheWay(p)

\* PrefixCache.attach: s shares the blocks of the entry of k.
Attach(s, k) ==
  /\ MoveToEnd(k)
  /\ blockIds' = [blockIds EXCEPT ![s] = entries[k]]
  /\ text' = [text EXCEPT ![s] = k]
  /\ refcount' = Incref(refcount, entries[k])
  /\ UNCHANGED <<free, store, entries, trie>>

\* PrefixCache.put: the entry's references are taken before the oldest entry
\* is evicted.
Put(s) ==
  LET k     == prompt[s]
      taken == Incref(refcount, blockIds[s])
  IN  \/ /\ Cached(k)
         /\ MoveToEnd(k)
         /\ UNCHANGED <<refcount, free, store, entries, trie>>
      \/ /\ ~Cached(k)
         /\ MaxEntries = 0 \/ Len(lru) < MaxEntries
         /\ refcount' = taken
         /\ entries' = [entries EXCEPT ![k] = blockIds[s]]
         /\ trie' = Inserted(trie, k, blockIds[s])
         /\ lru' = Append(lru, k)
         /\ UNCHANGED <<free, store>>
      \/ /\ ~Cached(k)
         /\ MaxEntries > 0 /\ Len(lru) >= MaxEntries
         /\ FreeBlocks(taken, entries[Head(lru)])
         /\ entries' = [entries EXCEPT ![Head(lru)] = <<>>, ![k] = blockIds[s]]
         /\ trie' = Inserted(Removed(trie, Head(lru), entries[Head(lru)]), k, blockIds[s])
         /\ lru' = Append(Tail(lru), k)

-----------------------------------------------------------------------------
(***************************************************************************)
(* add_requests.                                                           *)
(***************************************************************************)

\* The call starts: one fresh session per request.  The other schedulers look up
\* and serve one request after the other.
AddRequests(S) ==
  /\ Clear(Busy)
  /\ S # {} /\ Cardinality(S) <= (IF mode = "online" THEN MaxBatch ELSE 1)
  /\ \A s \in S : stage[s] = "none"
  /\ Live + Cardinality(S) <= MaxLive[mode]
  /\ \E ps \in [S -> Prompts] :
       prompt' = [s \in Sessions |-> IF s \in S THEN ps[s] ELSE prompt[s]]
  /\ stage' = [s \in Sessions |-> IF s \in S THEN "new" ELSE stage[s]]
  /\ UNCHANGED <<refcount, free, store, blockIds, text, entries, lru, trie, mode>>

\* A request of this call with the prompt of s was looked up before s.
SeenAtAll(s) == \E r \in Sessions \ {s} :                    \* a mutation
                  stage[r] \in Adding /\ prompt[r] = prompt[s]
SeenInBatch(s) ==
  \E r \in Sessions : stage[r] \in Adding \ {"new"} /\ prompt[r] = prompt[s]

LookupDup(s) ==
  /\ stage[s] = "new"
  /\ SeenInBatch(s)
  /\ stage' = [stage EXCEPT ![s] = "dup"]
  /\ UNCHANGED <<refcount, free, store, blockIds, text, prompt, entries, lru, trie, mode>>

LookupHit(s) ==
  /\ stage[s] = "new"
  /\ ~SeenInBatch(s)
  /\ Cached(prompt[s])
  /\ Attach(s, prompt[s])
  /\ stage' = [stage EXCEPT ![s] = "ready"]
  /\ UNCHANGED <<prompt, mode>>

LookupPrefix(s) ==
  /\ stage[s] = "new"
  /\ ~SeenInBatch(s)
  /\ ~Cached(prompt[s])
  /\ mode = "online"
  /\ \E k \in Prompts : IsLongestPrefix(k, prompt[s]) /\ Attach(s, k)
  /\ stage' = [stage EXCEPT ![s] = "suffix"]
  /\ UNCHANGED <<prompt, mode>>

LookupMiss(s) ==
  /\ stage[s] = "new"
  /\ ~SeenInBatch(s)
  /\ ~Cached(prompt[s])
  /\ NoPrefix(prompt[s])
  /\ mode = "online"
  /\ stage' = [stage EXCEPT ![s] = "miss"]
  /\ UNCHANGED <<refcount, free, store, blockIds, text, prompt, entries, lru, trie, mode>>

\* The chunked scheduler queues the prompt, or what a cached prefix leaves of it.
LookupChunked(s) ==
  /\ stage[s] = "new" /\ mode = "chunked"
  /\ ~Cached(prompt[s])
  /\ \/ \E k \in Prompts : IsLongestPrefix(k, prompt[s]) /\ Attach(s, k)
     \/ /\ NoPrefix(prompt[s])
        /\ UNCHANGED <<refcount, free, store, blockIds, text, entries, lru, trie>>
  /\ stage' = [stage EXCEPT ![s] = "queued"]
  /\ UNCHANGED <<prompt, mode>>

\* The offline one prefills any prompt that is not cached as a whole.
LookupOffline(s) ==
  /\ stage[s] = "new" /\ mode = "offline"
  /\ ~Cached(prompt[s])
  /\ stage' = [stage EXCEPT ![s] = "miss"]
  /\ UNCHANGED <<refcount, free, store, blockIds, text, prompt, entries, lru, trie, mode>>

(***************************************************************************)
(* The reservations of a prefill, of a decode step that ingests one token  *)
(* of a suffix, of a decode step proper, and of a chunk.  The other        *)
(* sessions of a pass wait until all of them have reserved.                *)
(***************************************************************************)
CanReserve(s) ==
  \/ stage[s] = "miss" /\ Clear({"new"})
  \/ stage[s] = "suffix" /\ Clear({"new", "miss", "fill", "put"})
  \/ stage[s] \in {"decode", "chunk", "solo"}

\* The tokens of the next chunk of the prompt.
Chunk(s) ==
  LET end == Len(text[s]) + ChunkSize
  IN  SubSeq(prompt[s], Len(text[s]) + 1, IF end < Len(prompt[s]) THEN end
                                                                  ELSE Len(prompt[s]))

Amount(s) == IF stage[s] \in {"miss", "solo"} THEN Len(prompt[s])
             ELSE IF stage[s] = "chunk" THEN Len(Chunk(s)) ELSE 1

Reserve(s) ==
  /\ CanReserve(s)
  /\ ReserveAppend(s, Amount(s))
  /\ stage' = [stage EXCEPT ![s] = CASE stage[s] = "miss"   -> "fill"
                                     [] stage[s] = "suffix" -> "splice"
                                     [] stage[s] = "decode" -> "append"
                                     [] stage[s] = "chunk"  -> "chunkfill"
                                     [] stage[s] = "solo"   -> "solofill"]
  /\ UNCHANGED <<text, prompt, entries, lru, trie, mode>>

\* _alloc_block_id raises: the exception ends the thread that runs the
\* scheduler (or the program that runs the offline one), and with it every session.
OutOfBlocks(s) ==
  /\ CanReserve(s) /\ stage[s] # "solo"
  /\ BlocksNeeded(s, Amount(s)) > Cardinality(free)
  /\ stage' = [r \in Sessions |-> IF stage[r] = "none" THEN "none" ELSE "lost"]
  /\ UNCHANGED <<refcount, free, store, blockIds, text, prompt, entries, lru, trie, mode>>

At(st) == {s \in Sessions : stage[s] = st}

PrefillWrite ==
  /\ At("fill") # {} /\ Clear({"new", "miss"})
  /\ WriteTokens(At("fill"), prompt)
  /\ stage' = [s \in Sessions |-> IF stage[s] = "fill" THEN "put" ELSE stage[s]]
  /\ UNCHANGED <<refcount, free, blockIds, prompt, entries, lru, trie, mode>>

\* The token of the suffix that is next.
SuffixTokenBefore(s) == prompt[s][Len(text[s])]              \* a mutation
SuffixToken(s) == prompt[s][Len(text[s]) + 1]

\* One decode step over the sessions that still have suffix tokens.
SuffixWrite ==
  /\ At("splice") # {} /\ Clear({"suffix"})
  /\ WriteTokens(At("splice"), [s \in At("splice") |-> <<SuffixToken(s)>>])
  /\ stage' = [s \in Sessions |->
                 IF stage[s] # "splice" THEN stage[s]
                 ELSE IF Len(text[s]) + 1 = Len(prompt[s]) THEN "sufput"
                                                           ELSE "suffix"]
  /\ UNCHANGED <<refcount, free, blockIds, prompt, entries, lru, trie, mode>>

PutPrompt(s) ==
  /\ \/ stage[s] = "put" /\ Clear({"new", "miss", "fill"})
     \/ stage[s] = "sufput" /\ Clear({"new", "miss", "fill", "put", "suffix",
                                      "splice"})
  /\ Put(s)
  /\ stage' = [stage EXCEPT ![s] = "ready"]
  /\ UNCHANGED <<blockIds, text, prompt, mode>>

\* A request whose prompt an earlier one of the call has.
CopyDup(s) ==
  /\ stage[s] = "dup" /\ Clear(Adding \ {"dup", "ready"})
  /\ \E r \in At("ready") :
       /\ prompt[r] = prompt[s]
       /\ blockIds' = [blockIds EXCEPT ![s] = blockIds[r]]
       /\ text' = [text EXCEPT ![s] = text[r]]
       /\ refcount' = Incref(refcount, blockIds[r])
  /\ stage' = [stage EXCEPT ![s] = "ready"]
  /\ UNCHANGED <<free, store, prompt, entries, lru, trie, mode>>

-----------------------------------------------------------------------------
(***************************************************************************)
(* Sampling, decode steps and the end of a session.                        *)
(***************************************************************************)

\* s has just been given a token, the first one or that of a step.
TokenDue(s) == \/ stage[s] = "ready" /\ Clear(Adding \ {"ready"})
               \/ stage[s] = "ready" /\ mode = "chunked"
               \/ stage[s] = "emit"

\* max_new_tokens is clamped so that no position beyond max_position_embeddings
\* is ever needed.
Continue(s) ==
  /\ TokenDue(s)
  /\ Len(text[s]) < MaxLen - 1
  /\ stage' = [stage EXCEPT ![s] = "running"]
  /\ UNCHANGED <<refcount, free, store, blockIds, text, prompt, entries, lru, trie, mode>>

\* InferenceSession.release_kv_blocks, after which the session is forgotten.
Release(s) ==
  /\ FreeBlocks(refcount, blockIds[s])
  /\ blockIds' = [blockIds EXCEPT ![s] = <<>>]
  /\ text' = [text EXCEPT ![s] = <<>>]
  /\ prompt' = [prompt EXCEPT ![s] = <<>>]
  /\ stage' = [stage EXCEPT ![s] = "none"]
  /\ UNCHANGED <<entries, lru, trie, mode>>

\* The token is EOS or the last one: the session finishes.  OfflineScheduler
\* releases the sessions when all of them have finished, at the end of run.
Finish(s) ==
  /\ \/ TokenDue(s) /\ mode # "offline"
     \/ stage[s] = "ending"
  /\ Release(s)

FinishOffline(s) ==
  /\ TokenDue(s) /\ mode = "offline"
  /\ stage' = [stage EXCEPT ![s] = "kept"]
  /\ UNCHANGED <<refcount, free, store, blockIds, text, prompt, entries, lru, trie, mode>>

RunEnds ==
  /\ Clear(Busy \cup {"running"}) /\ ~Clear({"kept"})
  /\ stage' = [s \in Sessions |-> IF stage[s] = "kept" THEN "ending" ELSE stage[s]]
  /\ UNCHANGED <<refcount, free, store, blockIds, text, prompt, entries, lru, trie, mode>>

\* discard_request, pop_response: the client is gone.
Discard(s) ==
  /\ Clear(Busy) /\ stage[s] \in {"running", "queued"}
  /\ mode # "offline"
  /\ Release(s)

\* A step takes a batch of unfinished sessions, the offline one all of them.
StartStep(S) ==
  /\ Clear(Busy)
  /\ S # {} /\ \A s \in S : stage[s] = "running"
  /\ mode = "offline" => \A s \in Sessions \ S : stage[s] # "running"
  /\ stage' = [s \in Sessions |-> IF s \in S THEN "decode" ELSE stage[s]]
  /\ UNCHANGED <<refcount, free, store, blockIds, text, prompt, entries, lru, trie, mode>>

\* The step writes the K/V of the last token of each session, which may be any.
DecodeWrite ==
  /\ At("append") # {} /\ Clear({"decode"})
  /\ \E ts \in [At("append") -> Tokens] :
       WriteTokens(At("append"), [s \in At("append") |-> <<ts[s]>>])
  /\ stage' = [s \in Sessions |->
                 IF stage[s] = "append" THEN "emit" ELSE stage[s]]
  /\ UNCHANGED <<refcount, free, blockIds, prompt, entries, lru, trie, mode>>

\* The second half of a step of the chunked scheduler takes a batch of prompts, and
\* prefills the next chunk of each; the halves are steps of their own here.
StartChunks(S) ==
  /\ Clear(Busy)
  /\ S # {} /\ \A s \in S : stage[s] = "queued"
  /\ stage' = [s \in Sessions |-> IF s \in S THEN "chunk" ELSE stage[s]]
  /\ UNCHANGED <<refcount, free, store, blockIds, text, prompt, entries, lru, trie, mode>>

ChunkWrite ==
  /\ At("chunkfill") # {} /\ Clear({"chunk"})
  /\ WriteTokens(At("chunkfill"), [s \in At("chunkfill") |-> Chunk(s)])
  /\ stage' = [s \in Sessions |->
                 IF stage[s] # "chunkfill" THEN stage[s]
                 ELSE IF Len(text[s]) + Len(Chunk(s)) = Len(prompt[s]) THEN "put"
                                                                       ELSE "queued"]
  /\ UNCHANGED <<refcount, free, blockIds, prompt, entries, lru, trie, mode>>

-----------------------------------------------------------------------------
(***************************************************************************)
(* generate and stream_generate: a session of its own, whose prompt is     *)
(* registered in the pool and held there until the generator is exhausted, *)
(* closed or has raised, while other calls go on between its yields; it    *)
(* decodes from the K/V it has outside the pool.                           *)
(***************************************************************************)
Generate(s) ==
  /\ mode = "offline" /\ Clear(Busy) /\ stage[s] = "none"
  /\ Live < MaxLive[mode]
  /\ \E p \in Prompts : prompt' = [prompt EXCEPT ![s] = p]
  /\ stage' = [stage EXCEPT ![s] = "solo"]
  /\ UNCHANGED <<refcount, free, store, blockIds, text, entries, lru, trie, mode>>

SoloWrite ==
  /\ At("solofill") # {}
  /\ WriteTokens(At("solofill"), prompt)
  /\ stage' = [s \in Sessions |-> IF stage[s] = "solofill" THEN "held" ELSE stage[s]]
  /\ UNCHANGED <<refcount, free, blockIds, prompt, entries, lru, trie, mode>>

\* What it has been given so far is released when the pool runs out.
GenerateRaises(s) ==
  /\ stage[s] = "solo" /\ BlocksNeeded(s, Amount(s)) > Cardinality(free)
  /\ Release(s)

GenerateEnds(s) == Clear(Busy) /\ stage[s] = "held" /\ Release(s)

-----------------------------------------------------------------------------
\* The trie after PrefixCache.clear, which pops the oldest entry again and again.
Cleared == LET after[i \in 0..Len(lru)] ==
                 IF i = 0 THEN trie
                 ELSE Removed(after[i - 1], lru[i], entries[lru[i]])
           IN  after[Len(lru)]

\* PrefixCache.clear, between calls.
ClearCache ==
  LET left(b) == IF refcount[b] > Cardinality(EntriesOn(b))
                 THEN refcount[b] - Cardinality(EntriesOn(b)) ELSE 0
      dropped == {b \in Blocks : refcount[b] > 0 /\ left(b) = 0}
  IN  /\ Clear(Busy)
      /\ lru # <<>>
      /\ refcount' = [b \in Blocks |-> left(b)]
      /\ free' = free \cup dropped
      /\ store' = [b \in Blocks |-> IF b \in dropped THEN <<>> ELSE store[b]]
      /\ entries' = [k \in Prompts |-> <<>>]
      /\ lru' = <<>>
      /\ trie' = Cleared
      /\ UNCHANGED <<blockIds, text, prompt, stage, mode>>

-----------------------------------------------------------------------------
Init ==
  /\ refcount = [b \in Blocks |-> 0]
  /\ free = Blocks
  /\ store = [b \in Blocks |-> <<>>]
  /\ blockIds = [s \in Sessions |-> <<>>]
  /\ text = [s \in Sessions |-> <<>>]
  /\ prompt = [s \in Sessions |-> <<>>]
  /\ stage = [s \in Sessions |-> "none"]
  /\ entries = [k \in Prompts |-> <<>>]
  /\ lru = <<>>
  /\ trie = EmptyTrie
  /\ mode \in Modes

\* The scheduler's thread goes on with the call it is in.
InCall ==
  \/ \E s \in Sessions :
       \/ LookupDup(s) \/ LookupHit(s) \/ LookupPrefix(s) \/ LookupMiss(s)
       \/ LookupChunked(s) \/ LookupOffline(s)
       \/ Reserve(s) \/ OutOfBlocks(s)
       \/ PutPrompt(s) \/ CopyDup(s)
       \/ Continue(s) \/ Finish(s) \/ FinishOffline(s)
       \/ GenerateRaises(s)
  \/ PrefillWrite \/ SuffixWrite \/ DecodeWrite \/ ChunkWrite \/ SoloWrite

Next ==
  \/ \E S \in SUBSET Sessions : AddRequests(S) \/ StartStep(S) \/ StartChunks(S)
  \/ InCall
  \/ \E s \in Sessions : Discard(s) \/ Generate(s) \/ GenerateEnds(s)
  \/ RunEnds
  \/ ClearCache

Spec == Init /\ [][Next]_vars
-----------------------------------------------------------------------------
(***************************************************************************)
(* Properties.                                                             *)
(***************************************************************************)
\* Type invariant of the pool, the sessions and the prefix cache; a count that
\* went below zero would show here.
ListsTypeOK ==
  /\ refcount \in [Blocks -> Nat]
  /\ free \subseteq Blocks
  /\ store \in [Blocks -> Seq(Values)]
  /\ blockIds \in [Sessions -> Seq(Blocks)]
  /\ text \in [Sessions -> Seq(Tokens)]
  /\ prompt \in [Sessions -> Prompts \cup {<<>>}]
  /\ stage \in [Sessions -> Stages]
  /\ entries \in [Prompts -> Seq(Blocks)]
  /\ lru \in Seq(Prompts)
TrieTypeOK ==
  /\ DOMAIN trie \subseteq Seq(Tokens)
  /\ trie \in [DOMAIN trie -> [count : Nat, entry : Seq(Blocks)]]
TypeOK == ListsTypeOK /\ TrieTypeOK

\* The count of a block is the number of sessions and prefix-cache entries whose
\* block list names it, through sharing, copy on write, eviction and release: a
\* count too high leaks the block, one too low frees it under its readers.
RefcountExact ==
  \A b \in Blocks :
    refcount[b] = Cardinality(Holders(b)) + Cardinality(EntriesOn(b))

\* No block is lost and none can be handed out while it is in use: the blocks
\* _alloc_block_id may return are exactly those nobody's list names.
PoolExact ==
  \A b \in Blocks : b \in free <=> Holders(b) = {} /\ EntriesOn(b) = {}

\* Attention reads the K/V of the session's own tokens, whichever blocks are
\* shared, copied, evicted or reused meanwhile; and an entry of the prefix
\* cache still holds the K/V of its key.
Faithful ==
  /\ \A s \in Sessions : Gather(blockIds[s], Len(text[s])) = KV(text[s])
  /\ \A k \in Prompts : Cached(k) => Gather(entries[k], Len(k)) = KV(k)

\* The trie and the dictionary of entries, two structures that every put, eviction
\* and clear must change alike, agree: the walk along a prompt finds the entry of each
\* cached prefix of it, never one that was evicted (move_to_end would raise a KeyError
\* in the scheduler's thread), and no node is left of prompts that are cached no more.
TrieInStep ==
  /\ \A k \in Range(lru) : Prefixes(k) \subseteq DOMAIN trie /\ trie[k].entry = entries[k]
  /\ \A n \in DOMAIN trie : trie[n].entry # <<>> => n \in Range(lru)
  /\ \A n \in DOMAIN trie \ {<<>>} : \E k \in Range(lru) : n \in Prefixes(k)

\* A slot that holds K/V is never written again while its block stays in use:
\* what another session or entry may be reading is not changed under it.
WriteOnce ==
  [][\A b \in Blocks : refcount[b] > 0 /\ refcount'[b] > 0 =>
       \A i \in 1..Len(store[b]) :
         store[b][i] # Unwritten => i <= Len(store'[b]) /\ store'[b][i] = store[b][i]]_vars

\* No block list changes unseen: whatever reservation, copy on write, attaching or
\* release does to a session's list shows in its length or its last block, and a list
\* changes at most once between two readings of its row, so the row of the block table
\* the kernels read is never a stale one.
RowsFresh ==
  [][\A s \in Sessions : Signature(blockIds'[s]) = Signature(blockIds[s])
                             => blockIds'[s] = blockIds[s]]_vars

\* The pool, its sharing and its copy on write implement private histories.
Contract == INSTANCE KVContract WITH
              Keys <- Prompts,
              view <- [s \in Sessions |-> Gather(blockIds[s], Len(text[s]))],
              kept <- [k \in Prompts |-> IF Cached(k)
                                           THEN Gather(entries[k], Len(k))
                                           ELSE <<>>]
ImplementsContract == Contract!CSpec

\* No session waits for a pass that never comes: while one is in the middle of an
\* add_requests call or of a step, some pass of the call can run, whatever its
\* prompt shares with the others of the call.
NeverStuck == ~Clear(InPass) => ENABLED InCall

\* The pool holds max_context positions for each of the sessions the engine is
\* configured for (kv_cache_max_concurrency), so that many always fit.
PoolSuffices ==
  Cardinality(Blocks) >= Cardinality(Sessions) * NumBlocks(MaxLen)
    => Clear({"lost"})
=============================================================================
