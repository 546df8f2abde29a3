# Formal models of rosellm's inference server (roseinfer)

This directory models the part of rosellm in which a mistake is hard to see in a
test: the inference server `src/rosellm/roseinfer`, which shares one paged KV
cache between many sessions, overlaps decode steps with their results, and hands
tokens from one worker thread to many clients. The modules are TLA+; TLC checks
them on small instances, and TLAPS proves the most important invariants for
every instance. Paths below are relative to `src/rosellm/roseinfer/`.

## 1. Inventory

| Part | State | Operations | What makes it correct |
|---|---|---|---|
| Block pool, `GlobalKVBlockManager` (`engine.py` 4356-4668) | reference counts, free list, next unused id, block lengths, K/V tensors | allocate, incref, free, reserve for append (copy on write), prefill and append writes, clone | counts equal holders; a block is free exactly when nobody names it; nobody's K/V is written by another |
| Sessions, `InferenceSession` (`engine.py` 2152-2536) | block list, prompt length, generated ids, step counts, finished | prefill, decode, apply token, release | a session's blocks hold the K/V of its own tokens |
| Prefix cache, `PrefixCache` and `_TokenTrie` (`engine.py` 2537-2714) | ordered entries, trie of their keys | get, attach, put (with eviction), longest prefix, clear | an entry keeps its K/V while sessions use, extend and outlive it; trie and entries agree |
| `OnlineScheduler` (`engine.py` 2865-3528) | sessions, round-robin queue, finished ids | add_requests, step (synchronous or overlapped), discard, pop | each call gets through all its passes; an overlapped step gives what a synchronous one does |
| `ChunkedOnlineScheduler` (`engine.py` 3531-4352) | the same, and prefill progress | the same, prefill in chunks | as above, and chunks in order |
| `OfflineScheduler`, `generate`, `stream_generate` (`engine.py` 1187-1453, 2716-2831) | sessions of one run; a generator's session | add_request, step, run; a prompt's blocks held between yields | blocks are given back at the end of the run or of the generator, whatever happens between |
| `SchedulerManager` (`server.py` 314-1008) | streams under a lock, two queues, an event, worker state | add_request, stream_text, close, tokenizer threads, worker loop | every stream is in order and ends; limits hold; the worker never sleeps on work |
| Admission, `_take_pending_for_prefill` (`server.py` 225-311) | pending buffer, FIFO credit | take by budget, look ahead, pack | nothing lost or doubled, nothing starves |
| `HybridQueue` (`hybrid_queue.py`) | deque, condition, asyncio event | put, get, aget | a reader wakes for every item |
| `PDDisaggregatedSchedulerManager` (`pd_manager.py`) | two engines, hand-over queue, locks | prefill loop, decode loop, clone and adopt | blocks change hands once; limits count both sides |
| Engine process and its messages (`mp.py` 91-590, 744-1640) | command and event channels, pending and active requests, bootstrap | receive, decode, admit, step, cancel, emit, shut down | every request is in one place; what is sent is what arrives |
| `MPSchedulerManager` (`mp.py` 1652-2382) | streams, admit queue, event loop | add, admit, cancel, deliver, close | cancellation and death of the process leave no reader waiting |
| `MPTokenManager` (`mp.py` 2385-2815) | counts, finished ids, profiler waiters | add, add a batch, wait, profile, close | counts are those of the process; a wait ends; an answer goes to its question |
| Block tables and decode graphs (`engine.py` 1600-1830, 2160-2230) | slots, row signatures, graph host buffers | allocate a slot, refresh dirty rows | device rows equal the session's block list when read |
| Detokenizers (`detokenizer.py`) | text held back | on_token, flush | text comes in order, and all of it before the end |
| `KVBlockManager` (`engine.py` 4669-) | pools by layer | as the global pool | used by tests and scripts only, not by the engine |
| Sampling, kernels, HTTP layer, command line | none that is shared | pure or numeric | outside the scope of state machines |

How they interact: HTTP handlers call a manager; its worker thread owns a
scheduler; the scheduler owns sessions and calls the engine; sessions and the
prefix cache own blocks of the pool. With `pd_manager.py` there are two
schedulers in two threads, with `mp.py` a scheduler in another process.

What is hard: (1) shared blocks - three kinds of owners and copy on write;
(2) a call that serves several requests in passes that depend on each other;
(3) results that arrive a step late, with placeholders in between; (4) clients,
tokenizers, the worker and `close` meeting at queues and an event; (5) calls that
fail half way; (6) a second process, which may die, and answers that come late.
Training (`rosetrainer`, `roserlhf`), docs and benchmarks are left out (section
8). `PROJECT.json` lists every component and every hazard, with the line where it
bites.

## 2. Modules

| Module | Models | Role |
|---|---|---|
| `KVCache` | block pool, prefix cache, block-table rows, and what the synchronous steps of the online, chunked and offline schedulers and the generators do to them | detailed specification |
| `KVContract` | private, immutable histories of K/V | abstract specification `KVCache` implements |
| `KVCacheProofs` | | theorems `TypeCorrect`, `CountsExact`, `NoLeakNoReuse`, `RowsNeverStale`, `ReadsOwnHistory`, `NeverOverwritten`, `TrieNeverDangles`, and `RefinesContract`: `KVCache` implements `KVContract` |
| `SchedulerManager` | clients, tokenizer threads, worker, `close` | detailed specification |
| `StreamContract` | one ordered stream per request, one end | abstract specification of `SchedulerManager`, `MPSchedulerManager` and `PDManager` |
| `SchedulerManagerProofs` | | theorems `TypeCorrect`, `WorkerStaysAwake`, `LimitsHold`, and `StreamsInOrder`: `SchedulerManager` implements `StreamContract` |
| `QueueLemmas` | | lemmas about sequences, queues and the tokens of a stream for `SchedulerManagerProofs`, `ChunkedSchedulerProofs`, `PDManagerProofs`, `EngineProofs` and `MPManagerProofs` |
| `Admission` | `_take_pending_for_prefill` in the worker's loop | detailed specification |
| `OverlapScheduler` | `_step_overlap` of `OnlineScheduler`, placeholders, the device | detailed specification |
| `ChunkedScheduler` | `step` and `_step_overlap` of `ChunkedOnlineScheduler` | detailed specification |
| `DecodeContract` | tokens and ends of requests, one step after another | abstract specification of `OverlapScheduler` and `ChunkedScheduler` |
| `OverlapSchedulerProofs` | | theorems `TypeCorrect`, `HeldWhileInFlight`, `PlaceholdersFound`, `InputsAreTokens`, and `RefinesContract`: `OverlapScheduler` implements `DecodeContract` |
| `ChunkedSchedulerProofs` | | theorems `TypeCorrect`, `HeldWhileInFlight`, `PlaceholdersFound`, `NoneLost`, and `RefinesContract`: `ChunkedScheduler` implements `DecodeContract` |
| `Messages` | commands and events, and their encoding for a pipe | operators of `EngineProcess` |
| `EngineProcess` | the main loops of the engine process and its channels | component of the next two |
| `EngineProofs` | | lemmas for `MPManagerProofs`: what is encoded is what is decoded, what the folds and filters over queues return, and what the process keeps |
| `MPSchedulerManager` | clients, admit threads, event loop, `HybridQueue`, composed with the process | detailed specification |
| `MPManagerProofs` | | theorems `TypeCorrect`, `PlacesKept`, `PromptsDelivered`, and `StreamsInOrder`: `MPSchedulerManager` implements `StreamContract` |
| `MPTokenManager` | callers, profiler calls, event loop, composed with the process | detailed specification |
| `PDManager` | clients, tokenize threads, prefill and decode threads, the device's copies | detailed specification |
| `PDManagerProofs` | | theorems `CopiesHeld`, `LimitKept`, and `StreamsInOrder`: `PDManager` implements `StreamContract` |
| `TextStream` | detokenizer and `_StreamState` of a stream | operators of `MPSchedulerManager` and `PDManager` |
| `MC...` with `MC....cfg` | | instances for TLC |

### KVCache

The state is the code's: `refcount` is `_block_refcounts`, `store` the slots of
`_k_cache`/`_v_cache` up to a block's recorded length, `blockIds` a session's
list, `entries` and `lru` the `OrderedDict` of the prefix cache, `trie` its
`_TokenTrie`: for each node, named by the tokens that lead to it, the count of keys
below it and the entry it holds. `Inserted` and `Removed` are `insert` and
`remove`, with what `remove` prunes on its way back (`Pruned`); lookups walk this trie
and not the dictionary (`OnTheWay`), so that a node or an entry left behind would be found. The value stored
for position *i* is the token prefix 1..i, because that is what a K/V vector
depends on: two sessions may share a slot exactly when the prefixes agree.

One scheduler thread makes all calls, so calls do not interleave, but one
`add_requests` call takes a list of requests through passes (lookup, prefill of
the misses, put, suffixes of prefix hits one token per decode step, duplicates,
first tokens). `stage` says in which pass a session is, and guards such as
`Clear({"new", "miss"})` keep the passes in the order of the code. Actions:
`Lookup...` and `Attach` for `PrefixCache.get` / `find_longest_token_prefix` /
`attach`; `ReserveAppend` for `reserve_append_tokens` with copy on write;
`PrefillWrite`, `SuffixWrite`, `DecodeWrite`, `ChunkWrite`, `SoloWrite` for the
writes; `Put` with eviction; `CopyDup`; `Release`, `ClearCache`; `OutOfBlocks` for
the exception of `_alloc_block_id`.

`mode` is the scheduler that uses the engine. *Online*: as above. *Chunked*: a
request is looked up alone (`LookupChunked`) and waits as "queued"; the prefill
half of a step takes a batch through "chunk" and "chunkfill", where all sessions
reserve before any of them is written, and a session whose prompt is through is
put in the cache. *Offline*: a prompt that is not cached as a whole is prefilled
alone, every step takes all sessions, and finished ones stay ("kept") until
`RunEnds` turns them to "ending"; beside it generators (`generate`,
`stream_generate`) register a prompt ("solo", "solofill"), hold its blocks between
their yields ("held") and give them back when they end or their reservation
raises.

`Signature` is what `get_paged_block_table_row_cpu_and_dirty` compares before it
leaves a session's row on the device as it is.

`OutOfBlocks` stops all: the code has taken the count of the block it was about to
copy down by then, and the list still names it. Nothing in the model uses the pool after
that, as nothing does where the exception ends the scheduler's thread.

Abstractions: the free list is a set (the code's order of reuse is not
observable); requests of one pass may be served in any order (more behaviours
than the code has); only token-id keys, paged attention on; `max_new_tokens` is
positive and already clamped; an exception takes all sessions to `lost`,
because it ends the scheduler's thread; the two halves of a chunked step may be
taken on their own.

### SchedulerManager

An action is what a thread does between two points at which another thread may
see it: the registration of a stream under `_lock`, a queue operation, setting or
clearing `_wakeup`, the lookup of streams before a delivery. `client[r]` is the
program counter of the client of request `r`, `tok[t]` of a tokenizer thread,
`pc` of the worker, whose loop is cut into `Top`, `Admit`, `FilterOne`,
`Prefill`, the delivery of first tokens, `Step`, `Lookup`, `DeliverStep`, and
`Park`, `WakeUp`, `ClearWakeup`. The detokenizer may hold a token's text back;
`stream_interval` buffers; `flush` comes at the end. `close` sets `_running`,
wakes the worker, joins it with a time limit and puts a sentinel on every stream
it found; the exception handler does the same without joining.

Abstractions: the batch of a step is any set of unfinished requests of the right
size, which includes the round robin of the code; admission is first come first
served without a token budget, the default of the class, under which `_pending_buf` stays
empty; tokens are numbered; the deliveries of one step are one action, since
they go to separate queues; profiling and time stamps are left out.

### Admission

The part of the worker's loop left out above: `buf` is `_pending_buf`, `queue` is
`_pending`, and one `Iterate` is one call of `_take_pending_for_prefill` with the
cap of `_cap_prefill_max_reqs`, by `Fifo` or by `Pack`. What is chosen is
stated declaratively (`FifoCount`, `Selected`) where the code runs a loop over the
queue; what is left, and in which order, follows the code, with the request that
was taken from the queue and did not fit going to the buffer. `iter` is
`_prefill_iter` up to multiples of `prefill_force_fifo_every`. Clients and the scheduler are
reduced to requests that come (`Put`) and end (`Finish`); an id that ended may come
again, so that waiting for ever is a real possibility.

### OverlapScheduler

A step selects a batch round robin, launches it with the last known token or
placeholder of each session as input, reserves a slot of the ring of future
token ids for each result, and only then takes the results of the oldest batch
in flight. The host's loops run one request per action; `Execute` is the device,
which carries out the oldest batch at any time after its launch: it resolves
placeholders through the map, stores K/V, samples, and writes the map. A value
computed from wrong inputs is `Garbage` and stays visible in `kv` and in the
tokens. `Discard` is `discard_request`, which only marks a session while a step
for it is in flight. With `CudaGraph` inputs go through the pinned host buffers
of the graph of the batch size (see the finding below), and a launch with changed rows
of the block table waits for the device; without it inputs are
captured at the launch. A launch in the eager path may run ahead of the device
without limit here; in reality creating tensors from lists waits for the device,
so the model has more behaviours than the code.

### ChunkedScheduler

A step goes through `pc`: the decode half and the prefill half are launched
(`LaunchDecode`, `LaunchPrefill`), or run (`SyncDecode`, `SyncPrefill`), and with
overlapped steps the results due are taken after that, entry by entry for decodes
(`TakeEntries`, `TakeDecode`) and for chunks (`TakePrefill`). `left` counts the
chunks a prompt still has to be given, `ids` are the generated tokens and
placeholders, `inflight` and `canceled` the two dictionaries by which a session that is
discarded outlives what is in flight. What a step returns goes to the caller as it is
(`Returned`, `Reported`), also for a request it has discarded: one whose last chunk is in
flight is taken out of `_overlap_canceled` just before the loop that would skip it, so its
first token is returned and its id counted finished. `DecodeContract` allows that and
no more (`late`, `ComesLate`). The queues `prefillRids` and
`decodeRids` are scanned as in the code: up to their length, requests that are
over are dropped, others go to the back. What a loop over a queue picks is stated by
how many entries that qualify come before each (`Picked`, `Chosen`, `Among`,
`Scanned`), without recursion, so that it can be reasoned about.

Abstractions: a chunk is a unit of a prompt, so only their number matters
(`AddCached` is a prompt that is cached as a whole); the contents of slots are in
`KVCache`, the device's inputs in `OverlapScheduler`.

### Messages and EngineProcess

Over a queue the objects themselves travel. Over a pipe `EncodeCmd` and `EncodeEvt`
make rows of words of them, with the length of each list sent ahead, and
`DecodeCmd`, `DecodeEvt` cut them apart again, so that an offset that is wrong by
one shows in the prompt of a request or in the tokens of another. `PromptOf` is a
request's prompt; settings and texts are left out of the messages.

`epc` is where the process is: `GetBlocking` at the top of an iteration when there
is nothing to do, `DrainOne` for the commands at hand (up to `mp_max_recv_per_iter`,
and with `mp_fill_target` until the batch is full), `Admit` up to what the KV cache
takes, `Step`, which ends with one event for the tokens and the finished ids of the
iteration. `pend` and `byRid` are `pending` and `pending_by_rid` (a
cancellation takes an id out of the second only), `active` the set admission counts,
`sessions` those the scheduler has. `EngineRaises` is an exception of the engine, reported by an
`ErrorEvent`; `Dies` is a death without a word. A pipe tells its writer that
the other side is gone (`CanSend`, `CanEmit`), a queue does not. Over a queue, a
command that was put may not be seen yet by a look that does not block
(`DrainOver`).

### MPSchedulerManager

Clients register a stream and send (`Send`), or leave that to an admit thread
(`TakeTask`, `LookAgain`, `AdmitSends`); `Read` is `get`, `Await` and `Awake` are
`aget` before and after its wait, `LoopSets` is the asyncio loop that runs the
`event.set` which `put` handed to it. The event loop finds the streams of an event
under the lock (`Receive`) and delivers outside it (`Deliver`), cancelling what it
finds no stream for; on an error event it ends every stream (`Notify`), while at
the end of a pipe it returns and tells nobody (`HangUp`), as over a queue it would not
notice. A client that leaves takes its stream out and sends a cancellation
(`Abandon`, `CancelBackend`). `close` is cut where it takes the lock, sends, and joins.

### MPTokenManager

`caller[c]` adds a set of requests, as one command or a batch, and waits
(`WaitOver`, `Returns`, `Raises`, `WaitTimesOut`); it may come again. `Ask`,
`SendProfile`, `TakeAck`, `ProfileTimesOut` are the profiler calls, whose answer finds
its waiter by an id (`Woken`); an answer that is late is kept under its own id. `OnEvent` is the event loop,
which counts and wakes under one lock. It ends by an error, which lets everybody go
(`Fails`), or at the end of the pipe, silently (`HangUp`); where `close` has closed the
pipe under it, it may meet either.

### PDManager

Clients and tokenize threads are as in `SchedulerManager`. The prefill thread counts
what is active in both schedulers (`Count`), takes requests (`TakeOne`) and prefills
(`Prefill`); its results go through a queue to the decode thread, which releases
what has been copied, takes results (`HandleResult`: clone, adopt, deliver the
first token), steps and delivers (`Step`, `Emit`). With `AsyncCopy` the blocks of a
prefilled session are released in the prefill pool only after an event on the
device (`CopyEnds`). `copying` are the sessions whose copy is not known to be
complete, `release` the queue of ids that leads back.

Where `add_requests` raises, some sessions of the batch may have got blocks while none
is registered yet; the prefill thread reports the failure and goes on. `leaked` are the
requests whose blocks nobody has any more. `close` joins the threads with a time limit,
so `CloseDiscards` may come before they have stopped.

Abstractions: the decode scheduler's steps are synchronous and take all
sessions; a session's blocks are the session; prompts have one token for the budget.

## 3. Runs

| Run | Instance and bounds | Shows |
|---|---|---|
| `kv_safety` | online with 3 sessions, chunked with 2, offline and generators with 2; 5 blocks of 2 positions, tokens {1,2}, 4 prompts that are prefixes of each other or branch, `MaxLen` 5, 2 cache entries, chunks of 2 | `RefcountExact`, `PoolExact`, `Faithful`, `TrieInStep`, `NeverStuck`, `WriteOnce`, `RowsFresh`, `ImplementsContract` |
| `kv_pool` | 2 sessions, as many blocks as 2 sessions need | violates `PoolSuffices` (finding) |
| `sm_safety` | 2 clients, a tokenizer thread, one active request, `decode_first`, `stream_interval` 2, failures, close | `WithinLimits`, `NoLostWakeup`, `ImplementsStreams`, `StreamsEnd`, `OrphansDropped` |
| `sm_capped` | 2 clients, one active request, no `decode_first` | violates `StreamsEnd` (finding) |
| `admission` | 3 requests with prompts of 1, 2 and 5 tokens in a context of 3; budgets none and 2, limits none and 2, windows of 2 and 3, both policies, first come first served every second time | `TakesRight`, `NotStarved` |
| `ov_safety` | 3 requests, batches of 2, ring of 3 slots, 3 tokens each | `BlocksHeld`, `NeverRaises`, `InputsResolve`, `ImplementsSync`, `BlocksReturned` |
| `ov_graph` | 1 request, decode graph | violates `ImplementsSync` (finding) |
| `chunked` | 3 requests of up to 3 chunks, 3 tokens each, batches of 2, with and without overlapped steps | `BlocksHeld`, `NeverRaises`, `OnePlace`, `ImplementsSync`, `Completes` |
| `mp_streams` | 2 clients over pipes, one active request, 3 tokens each, pairs and nested token events, failures, death, close | `PlacesExact`, `ImplementsStreams` |
| `mp_live` | 1 coroutine and an admit thread, over a queue and over a pipe | `StreamsEnd` |
| `mp_tokens` | 2 requests with prompts of different lengths, 1 caller and calls to the profiler, of requests and such calls 2 in all, over a queue and over a pipe, all three kinds of events | `CountsRight`, `PromptsArrive`, `AnswersOwn`, `CallsEnd` |
| `pd` | 2 requests of which one may be active, a tokenize thread, copies by the device, failures, close | `CopySafe`, `ActiveBounded`, `ImplementsStreams`, `StreamsEnd`, `PrefillReleased` |

`kv_safety`, `sm_safety` and `chunked` check their type invariants too; those of the other
modules with proofs are left to the theorems.

Why these bounds are enough to be interesting. Blocks of two positions make every
length even or odd, so a last block is both full and partly filled; three
sessions give a writer, a reader and a source of a copy at once; two cache
entries and three prompts, each a prefix of the next, force evictions of entries
in use, and a fourth that branches off after the first token makes the trie prune one
branch and keep the other, or keep a node that only lies on the way; the pool is too small for three sessions that share nothing, so
exhaustion happens in the middle of calls; chunks of two cut the longest prompt in
two, and start in the middle of a block after a prefix of one. Two clients with
one active request have one of them waiting at the limit, and with a tokenizer
thread every hand-over has another party at work. Three overlapped requests in
batches of two make sessions sit out a step, and a ring of three slots wraps in the
second step; three chunks give a prompt a first, a middle and a last one. A
budget of 2 has prompts below, at and above it, and one that is above even after it is
cut to the context. `MaxNew` of 2 in a front end gives a first token and a last
one; 3 adds one between them, which matters where a cancellation may meet tokens
on their way. The engine process is run with a KV cache for one session, where the second
request waits in the process, and for two, where its batches are shared.

In `mp_tokens` the two calls that `MaxAsked` allows are a batch or two requests one after the
other, a request beside a profiler call, or two profiler calls, of which one may have
given up when its ack comes and the other wait.

Every named property is violated when one definition of the model is replaced by
a plausible mistake (`mutants` in `PROJECT.json`; the mistaken forms stand next
to the right ones, marked `a mutation`).

## 4. Fairness

All of it is weak fairness of threads the operating system runs, of the device, or
of loops that are told by the code to go on. Failures, timeouts, deaths, `close`, and clients that
come, open or leave are never fair.

* `KVCache`: none; its properties are safety (`NeverStuck` is the part of progress that
  is).
* `SchedulerManager`: each client's thread inside `add_request`, a client that
  has opened a stream and goes on reading, each tokenizer thread, the worker.
* `Admission`: the worker's loop.
* `OverlapScheduler`: `Step` - the worker goes on stepping while
  `has_unfinished` says so, which is its loop - and `Execute`: the device
  carries out what it was given. `ChunkedScheduler`: `Step`.
* `MPSchedulerManager`: clients' threads, readers, the asyncio loop, admit threads,
  the event loop, a `close` that has begun, and the engine process while it lives.
* `MPTokenManager`: callers, profiler calls, the event loop, a `close` that has
  begun, the engine process.
* `PDManager`: readers and tokenize threads, the prefill and decode threads, and the
  device's copies.

Liveness is stated as `<>[]` of a state in which nobody waits where an id is used
once: only finitely many requests can come, so what is left waiting at the end
would wait for ever. `StreamsEnd` and `CallsEnd` of the `mp` runs except a death without
a word (`died`), of which the code tells nobody.

Deadlock is not checked in these runs because the system really may stop: all
requests may be done and no client may come again.

## 5. Proofs

Assumptions on constants are those named in each module (`ConstantsAssumption`,
`ChunkedAssumption` and so on): finite sets of sessions, requests and blocks,
positive sizes, prompts that leave room for a token. Each theorem holds for all
constants that meet them. Two have a hypothesis of their own, `CudaGraph = FALSE`,
explained below.

**KVCacheProofs.** `RefcountExact` and `PoolExact` are not inductive alone. The
invariant `IInv` adds: `TypeOK`; `FreeUncounted`, a block is free exactly when
its count is 0; `Distinct`, no block list names a block twice (otherwise
`Incref` and `Decref`, which count a block once, would go wrong); and `StageInv`,
which stages have empty lists (a fresh session that attaches or copies gives up
no block) and which have a prompt. The argument counts owners: `OwnersUpdate` says
how the set of owners of a block changes when one list changes, `OneListChanges` lifts this to
the invariant, and each action is an instance: sharing (`ShareList`), release
(`FreeBlocksCounts`), eviction (`EntriesChange`, `PutFacts`), copy on write
(`ExtendedFacts`, `ReserveAppendFacts`). `TypeCorrect` includes that no count
goes below zero, that slots hold token sequences and that block lists stay in
the pool. `RowsNeverStale` needs of this that a block a list is given was free, so
that a list changes only by a release, by attaching to an empty list, or by a
reservation; the last either makes it longer or puts a new block at its
end.

**KVCacheProofs, what blocks hold.** `Faithful` says what is read through a list; what the induction
needs is what each block holds. `Content` says that a list is `Paged`: its i-th
block has the K/V of the positions of that block, as far as the text goes, the
list `Covers` the text and the room a pending write has reserved, and, the part that
makes it inductive, `Private`: from its reservation to the write, the blocks the
write of a session reaches are named by no other session and no entry. Copy on
write is the step that establishes `Private` (`ReserveEffect`), the exact counts
above are why a block with count 1 is private, and the passes of an
`add_requests` call are why nobody attaches to it before the write. With `Private`
a write leaves what every other list reads as it was (`WriteContent`).
`NeverOverwritten` looks at the same steps from the block: a slot changes only
where nothing was written or where the block is free before or after.
The arithmetic of positions and blocks
(`Positions`, `OnePosition`) is proved once.

**KVCacheProofs, the trie.** `TrieNeverDangles` rests on a stronger fact, `TrieExact`: the
trie is a function of the cached keys and their entries (`TrieOf`), the nodes all prefixes of these
keys, each with the number of keys that have it as a prefix. `TrieGrows` and
`TrieShrinks` say that `insert` and `remove` lead from one such trie to the next; the
counts are what makes pruning right, since the nodes with a count of one on the path of a
key are those that no other key has. An eviction removes before the insertion
(`PutTrie`), `clear` key by key (`ClearTrie`, an induction over the order of use).

**KVCacheProofs, `RefinesContract`.** The refinement mapping reads each history back through the
block list. By `ReadsOwnHistory` it is a function of the text (`AbstractView`), so
blocks, counts, copies and evictions drop out, and each action is an attach, a copy,
a growth or a drop of whole histories, or a stutter.

**OverlapSchedulerProofs.** `Counted` says that `_overlap_inflight` of a request is
the number of places it is in flight, `ItemPlaced` and `BatchPlaced` name the
placeholder each of them will fill: the last entry of `generated_ids`, or the last
but one while a second step of the same session is in flight, and then the session
is not finished. So a session that ends with a step in flight has one placeholder to
cut off, and no token finds its entry filled or gone. These hold with and without
graphs.

**OverlapSchedulerProofs, what the device computes.** A second invariant, `Right`:
an entry is a token or on its way (`IdsRight`), stored K/V likewise (`KVRight`),
the results of the last batch carried out are still in the ring of future tokens
(`FutureRight`), and an input of the second batch in flight is known or names a
slot that the first one will fill (`SecondResolves`). The ring never has to be
long: a placeholder is read by the very next batch. `Promised` ties this to what
the caller was told. `InputsAreTokens` and `RefinesContract` are stated for
`CudaGraph = FALSE`: with graphs the statement is false, which is the finding of
`ov_graph`.

**ChunkedSchedulerProofs.** None of the checked invariants is inductive alone. `Texts`
says that the entries the caller has not been given are exactly the placeholders, at
the end, and that a session that is not over has a token to come; hence at most one
placeholder is behind the one that is taken when the session ends, and one that
is full has a token in flight. `Decodings` matches tokens in flight and placeholders
one to one, older batches first; `Chunks` keeps last chunks apart from first tokens;
`Places` gives each session that is not over its place in a queue or in flight;
`Standing` and `Counted` are the blocks and the counts. That no batch is
launched beyond the two in flight comes from the phases of a step (`Phases`). The
selection of a batch is reasoned about by `ChosenFacts`, `SelectedFacts`, `TrimFacts`:
nobody is selected twice, and nobody who could go on is passed over and lost. A request discarded with its last chunk in flight is the exception that the refinement has to
carry: `late` is mapped to the canceled requests whose last chunk is still to land, and the step that
takes it is `ComesLate`. The theorems cover synchronous and overlapped steps, and `RefinesContract` needs no
hypothesis, because the device's inputs are not in this module.

**PDManagerProofs.** A request is followed from `add_request` to the decoder: on its
way in it is in at most one place, once (`Once`); it is never both before and after
its prefill (`Forward`); and it has at most one result, which comes before its copy and its
release (`Handover`). Without these a result handled twice would release what the
first handling copies. `Room` carries the limit over the gap between counting the sessions
and prefilling: only the decoder changes them meanwhile, and it adopts nobody
who was not counted. The limit is one on sessions that are not over: what a failed
`add_requests` leaves behind (`leaked`) is not a session and nobody counts it.

**PDManagerProofs, `StreamsInOrder`.** `Counted` says how many tokens a request has
where it is: none until it is prefilled, one while its result waits, at least one with the
decoder, and no request is at two of these places. That no step makes a request come
back to an earlier one (`Fewer`, `OnTheWay`) is what an end relies on: `None` is only
for a request that gets no more tokens (`Ended`). `Flow` is that of `SchedulerManagerProofs`,
with the lemmas of `QueueLemmas`: what was put on a stream are all tokens but the one
that waits with its result or is to be emitted, or was discarded with its session.
A copy that fails after the first token was put leaves the buffers of its stream
behind its queue; the manager is stopped then, and the contract allows an end anywhere
(`CopyStream`).

**SchedulerManagerProofs.** `WorkerStaysAwake` needs `Watched`: while a request is
pending, a wake-up is coming or the worker is at a place from which it will look
again (`Watches`). For the latter one must know that an iteration that took
nothing had no room (`BatchUsed`) and that with `decode_first` the step came
before admission (`SteppedFirst`): these three form `WakeInv`. `LimitsHold` needs
that the requests taken but not yet given to the scheduler fit beside those that
are active (`Admitted`), the streams' limit is inductive (`Accepted`). `TypeInv`
adds to `TypeOK` that active requests have tokens left (`TokensLeft`), so that
no request exceeds `max_new_tokens`.

**SchedulerManagerProofs, `StreamsInOrder`.** The theorem follows a request through the threads. `Queued`
says that before its prefill it is in one place, once: with its client, in the
tasks of the tokenizer threads, with one of them, in `_pending`, with the worker, or
in the batch. `Counted` ties this to the tokens: none before the prefill, one
after it, so no request is prefilled twice and no delivery is repeated. `Served`
says whose token a step is about to deliver. `Flow` is about the stream itself: what the client has
read, the pieces in its queue, the text in the flush buffer and what the
detokenizer holds back are runs of tokens that follow one another (`Pieced`
names the cuts between the pieces), and together they are all tokens of the request but
the one that is being delivered. An empty piece is `None`, the end; while the server
runs it stands only after the last token (`Levels`), and for a request that is
nowhere it could get another (`Ended`). The last is what the order of the
steps of `_worker_loop`, `_tokenize_loop` and `stream_text` has to guarantee, and where
`close` and the exception handler are the exception the contract names.
`FlowGive`, `FlowNone` and `FlowGet` are what a token, an end and a read do to a
flow; `RunConcat` is why it does not matter how the tokens are cut into pieces.

**EngineProofs.** Nothing about the process can be proved before it is known that what
arrives is what was sent. `CmdDecoded` and `EvtDecoded` say that for every message between
`MPSchedulerManager` and the process (add, cancel, shutdown; pairs, tokens, error):
decoding undoes encoding, for prompts of any length, any number of tokens and lists, and
finished ids in any order (`SetToSeqFacts`). Batches, counts and the answers of the profiler
are messages of `MPTokenManager` only; they are checked on its run. The filters over queues are written by
positions (`Position`, `EntriesAt`), so that `EntriesFacts` can say what they
return; the folds (`Records` of an event, `Fed` of a stream) are
recursive functions, and the induction over their index is done with a set of the
indices for which it holds (`InductionTo`, and `RecursionExists` for their
existence), because the library's induction theorems take an operator as parameter.
`EngineOK` is the invariant of the process: `Channels`, what is on its way is a
message; `Queued`, whoever may be admitted waits in `pending`; `Served`,
`active` is exactly the set of sessions, each has a token left to make, and
there are never more than the KV cache was sized for. Each action keeps it, and so does
anything a manager sends of these commands (`EngineSent`).

**MPManagerProofs.** `IInv` joins `EngineOK` with what the threads hold: streams and
pieces (`Streams`, `Hybrid`), clients, admit threads, the event loop, which only has
events the process can send, and `close`. `TypeCorrect`,
which is about types only, and `PlacesKept` follow. That what crosses is understood is in
`Channels`, and its effect is stated by `PromptsDelivered`: a request that waits in the process or
was admitted has its client's prompt. It is an induction over `PromptsKept`: a command that adds a request
is decoded to that of its client, and no other step touches a prompt.

**MPManagerProofs, `StreamsInOrder`.** The client, the event loop and the process each see a
part of what happens, and the proof ties three accounts together.
`Order` follows a request until the process has it: it is in one place, once (`Once`),
it goes forward only (`Forward`: with its client, in the admit queue, with an admit thread,
among the commands, in `pending`), and what an iteration has to tell are first tokens and finished
ids that are true (`Produced`). From this comes `Forth`: no step makes a request come
back, and only one that is still coming gets a token.
`Emits` is about the events: those on their way, with the one being delivered
(`InTransit`), carry for each request the tokens that follow those delivered,
one after another (`Trail`); the last of them is the last the process told of
(`ToldOf`), and an event that ends the request comes when all its tokens are told.
`Flow` is the stream as in the other managers, and `Follows` joins the two: what a
stream has got is where the events go on, unless the event loop does not
find it. `Looked` and `Ended` cover the gaps between lock and delivery: the streams an event
was looked up for stay the ones it is delivered to, an admit thread forgets only a
request that came to nothing, and while the manager runs an end is put only for a
request that gets no more tokens. `StreamKept` has one lemma for each thread, and `NextIs` maps each step to
`StreamContract`: reading is `Receive` or `End`, an error that arrives and `close` are `Stop`, and
all else is `Generate`, of tokens or of none.

The inductive invariants of the other modules were checked by TLC on their runs before they
were proved; those of `MPManagerProofs` are checked in what follows from them, on
`mp_streams`.

Only model-checked:

* Liveness under fairness (`StreamsEnd`, `BlocksReturned`, `Completes`, `NotStarved`,
  `CallsEnd`, `OrphansDropped`, `PrefillReleased`) and `NeverStuck`, which speaks of `ENABLED`: out of
  the prover's reach.
* `AnswersOwn` and `PromptsArrive` under `MPTokenManager`, where prompts come in batches.
* `CountsRight` of `MPTokenManager` and `TakesRight` of `Admission`: not attempted.
  The first needs what `EngineProofs` says of pairs and tokens for batches and counts as
  well, and the account of the events on their way that `Emits` gives for
  `MPSchedulerManager`.

## 6. Findings

* **kv_pool.** The engine sizes the pool for `kv_cache_max_concurrency` sessions
  of `kv_cache_max_context` positions and documents it as such, but prefix-cache
  entries hold blocks of the same pool and nothing evicts them when an
  allocation fails, so fewer sessions may exhaust it. The exception ends the
  scheduler's thread.
* **sm_capped.** With `max_active_requests` and without `decode_first`: the limit
  leaves no place when the worker admits, the last active request finishes in the
  step that follows, and the worker then waits for `_wakeup` although a request
  is in `_pending`. That request is served only if another one comes.
  `WorkerStaysAwake` shows that it does not happen without that limit, nor with
  `decode_first`.
* **ov_graph.** With decode graphs and overlapped steps, the graph's pinned host
  buffers are rewritten for the next step with nothing that orders this after the
  copies queued from them. The copies are first in their batch, so on an idle
  device they are over quickly; but a device that is late reads later inputs.
  The test that compares overlapped with synchronous steps runs without graphs.

## 7. Plan

What is left, in this order.

1. `MPTokenManager`: `CountsRight`, by the argument of `MPManagerProofs` with counts
   instead of pieces; `Admission`: `TakesRight`.
2. The slots of the device's block table, which sessions share, and the decode
   scheduler of `PDManager` with overlapped steps.

## 8. Not modelled, and why

* The numeric side (kernels, sampling, attention backends, graph capture) is not
  state-machine material; its effect on slots is in `KVCache`. The HTTP layer and
  command lines translate and format.
* Of the engine: `generate_batch` and `stream_generate_batch`, which keep their K/V
  outside the pool; `use_prefix_cache=False`; a prompt that fills the context;
  `pop_response`; the slots of the device's block table; `KVBlockManager`, which the
  engine does not use.
* Of the front ends: profiling of `SchedulerManager`, `MPSchedulerManager` and
  `PDManager` (the protocol with acknowledgements is in `MPTokenManager`), time stamps.
  In `PDManager` the blocks that a failing `add_requests` loses are there (`leaked`), what later
  calls meet in the smaller pool is not.
* Of the engine process: start-up (`_await_ready`), overlapped and chunked schedulers inside the
  process, `mp_fast_finish_counts` off (the same counts by another way),
  the settings and texts in messages, and the capacity of a pipe: both sides send with
  blocking writes, and whether they can wait for each other depends on the
  buffers of the operating system.
* `rosetrainer` and `roserlhf` are numeric training code. The training loop's state
  between steps is a checkpoint written by one rank every twentieth step and read by all
  of them at the start; it has no part in the server.
