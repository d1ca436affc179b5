# TLA+ models of Text Generation Inference

This directory holds TLA+ models of the parts of the repository that decide
which request runs when, on which memory, with whose tensors, and what happens
when something fails: the request queue, the batching task and the KV cache
allocators of backend v3, the batch classes of the Python shards, the model
definitions as they are split over several ranks, and the launcher. TLC checks
the models on small instances; TLAPS proves the most important invariants of the
block allocator, the radix prefix cache, the request queue, the batching task and
the launcher for every instance, and that the block allocator implements its
specification.

`PROJECT.json` lists the components, every run with its properties, the mapping
from definitions to source lines, the hazards the properties are aimed at, the
findings and the theorems.

## The system and its parts

| Part | State | Operations | Talks to |
|---|---|---|---|
| Launcher (`launcher/src/main.rs`) | child processes, `running`, `shutdown`, status channel | download, start and watch shards, start the webserver, terminate | signals, processes |
| HTTP server (`router/src/server.rs`) | none of its own | decode a request, stream the answer | `Infer` |
| Infer (`router/src/infer/mod.rs`) | semaphore of permits, `backend_health` | `generate_stream`, `health`, `generate_best_of` | validation, backend |
| Validation (`router/src/validation.rs`) | tokenizer workers | `validate`, `tokenize` | `Infer` |
| Request queue (`backends/v3/src/queue.rs`) | deque of entries, next ids | `append`, `next_batch` | backend, allocator |
| Block allocator (`backends/v3/src/block_allocator.rs`) | free list, command channel | `allocate`, `free` (from `Drop`) | queue; everyone who drops an entry |
| Radix prefix cache (`backends/v3/src/radix.rs`) | trie, leaves, free list, live allocations | `allocate`, `free`, `find`, `insert`, `evict` | as above |
| Batching task (`backends/v3/src/backend.rs`) | entries, cached batches, `waiting_tokens`, `Notify` | `schedule`, `batching_task`, `prefill`, `decode`, `filter_batch` | queue, shards, clients |
| Sharded client (`backends/v3/src/client`) | one connection per shard | the same call to every shard, joined | shards |
| Shard service (`server/text_generation_server/server.py`, `cache.py`) | batch id -> batch | `Prefill`, `Decode`, `FilterBatch`, `ClearCache` | model |
| Flash causal LM (`models/flash_causal_lm.py`) | per request: lengths, position, slots, adapter, logprobs | `from_pb`, `concatenate`, `filter`, `generate_token` | KV cache, model |
| Padded models (`causal_lm.py`, `idefics_causal_lm.py`, `seq2seq_lm.py`, `mamba.py`) | padded masks, keys and values, states | the same | model |
| Model definitions (`models/custom_modeling`) | weights | `__init__`, `forward` | layers |
| Layers (`layers/`, `utils/weights.py`, `utils/dist.py`) | the rank's share of each weight | load a share, multiply, reduce, gather | the other ranks |
| Startup (`backends/v3/src/lib.rs`, `main.rs`) | limits | `connect_backend`, argument checks | shards |
| Backend v2, TensorRT-LLM backend | variants of the above | | |

What is hard here:

- *Concurrency.* The callers of `schedule`, the batching task, the queue task,
  the allocator task and the health check are different tokio tasks, connected
  by channels and a `Notify`. An entry owns its blocks through `Drop`, so blocks
  come back from whoever drops the entry, in a message.
- *Disconnection.* A client may leave while its entry waits, while it is put
  back, or while it runs.
- *Partial failure.* A gRPC call goes to every shard; some may have done it when
  another fails. Launcher, shards and webserver die independently.
- *Proxies.* Sizes stand for sets (`filter_batch`), counts stand for "all of
  them" (`shard_ready`), a socket file stands for a listening shard.
- *Arithmetic at boundaries.* Chunk budgets, sliding windows, rounding to
  blocks, the reserved block 0, negative slices of padded tensors, vocabularies
  and heads that do not divide among the ranks.
- *State kept twice.* A flash batch keeps lengths on the CPU and on the GPU, a
  padded batch keeps padding in masks, keys, values and positions; every filter
  and concatenation has to move all of them together.
- *Sums in parts.* On several ranks a value is whole, a share of the columns or a
  partial sum, and nothing in its type says which.

What makes each part correct:

- allocator: no block has two owners, none is lost, positions get distinct
  slots, every call is answered; together, it behaves as an atomic pool;
- prefix cache: reference counts and leaves are exact, no assert fires, a found
  prefix stays cached while it is referenced, its blocks hold what a prefill would
  have computed, eviction is least recently used first;
- queue: the batch is the longest run of waiting entries that fits, nothing is
  lost or overtaken;
- batching task: it and the shards agree on what runs, every stream is finished
  with a last token or an error, budgets and sizes are kept;
- batches: a request gets the tokens it would get if it were alone, whatever is
  batched with it, filtered away or concatenated; tensors fit; the announced size
  is kept; prompt logprobs survive chunking; every request ends;
- sharded models: every rank feeds every layer what one device would feed it, no
  rank waits for one that does not come, and what divides evenly is served;
- launcher: processes start and stop in order, none is left behind, and any
  failure or signal ends it.

## Modules

| Module | Models |
|---|---|
| `BlockPool` | specification: an atomic pool of blocks |
| `BlockAllocator` | `SimpleAllocator`, its task and its command channel |
| `BlockAllocatorProofs` | theorems about it, and that it implements `BlockPool` |
| `PrefixCache` | specification: a mapping from prefixes to blocks |
| `RadixTrie` | `RadixTrie` as operators on a trie value; a loop is a function of the number of calls |
| `RadixAllocator` | `RadixAllocator`, the content of the blocks, and who drops allocations |
| `RadixAllocatorProofs` | theorems about both |
| `RequestQueue` | `next_batch` as operators |
| `RequestQueueProofs` | theorems about `next_batch` |
| `QueueTask` | the queue task on its own, against a reference definition |
| `QueueTaskProofs`, `MCQueueTaskProofs` | theorems about it, and about both kinds of models |
| `Batcher` | `schedule`, the batching task, the sharded calls, the shards' caches, clients |
| `BatcherProofs`, `MCBatcherProofs` | theorems about one server, and about the two that run side by side |
| `PaddedRows` | requests, rows, Python's slices, the mapping from requests to rows |
| `CausalBatch`, `Seq2SeqBatch`, `MambaBatch` | the padded batch classes and `generate_token`; `CausalBatch` is IDEFICS too |
| `FlashBatch` | `FlashCausalLMBatch`, `FlashCausalLM.generate_token`, adapter segments, acceptance of guesses |
| `BatchModels` | the shard service with one of these models, called by the router |
| `Layers` | the tensor-parallel layers as instructions on registers |
| `DecoderModels`, `PaddedModels`, `VisionModels` | every class of `custom_modeling` as a program of such instructions |
| `TensorParallel` | ranks that load and run a program and meet in collectives |
| `Launcher` | main thread, shard managers, processes, signals |
| `LauncherProofs` | theorems about it |
| `MC...` | the instances that TLC checks |

`Batcher` composes the queue (it extends `RequestQueue`) with the batching task,
the shards and the clients; of the allocator it keeps the number of free blocks,
which is what `BlockPool` allows it to rely on. `BatchModels` composes the batch
classes with the shard's cache and the order of the router's calls; where
`Batcher` asks whether the router and the shards agree on which requests run,
`BatchModels` asks what the rows of those requests hold. `TensorParallel` looks
inside one forward pass of a batch.

### BlockAllocator

`free_blocks` is the vector of `SimpleAllocator`, `commands` the channel.
`CallAllocate` is `allocate` up to its await, `ServeAllocate` and `ServeFree`
the two arms of the task, `TakeAnswer` and `TakeRefusal` the return of the
call, `DropAllocation` is `Drop`. The queue task is the only caller of allocate
(`QueueIdle`), drops come at any time. `Slots` gives the slot of every position
for a sliding window that is not a multiple of the block size; `HealthSlots` are
the slots a model health check writes.

### RadixTrie and RadixAllocator

A chunk of `block_size` tokens is one value; keys are sequences of chunks, and a
prompt is its full chunks and whether tokens follow them (`partial`). Time,
reference counts, the ordered set of leaves, splitting and truncating are those
of the code; an assert, `expect` or `unreachable` that would fire sets
`panicked`. `kv` is what each block holds: the prefix whose keys and values were
computed into it. `DropAbandoned` is an allocation dropped before its prefill;
`uncomputed` remembers the blocks such an allocation put in the trie, so that
`ComputedPrefixValid` can speak of all others.

`strayed` is a history variable too. After matching a part of a node, `find_` goes on
in the node's children as if it had matched all of it (`radix.rs:300`); when a child
is found there, which takes a chunk that occurs at two positions, what it returns is
not a prefix in the cache, and from then on ownership and contents are not what the
code means them to be. `OneOwner`, `ReferencedPrefixKept`, `ComputedPrefixValid` and
the refinement are claimed until that happens for the first time; types, reference
counts, the absence of panics and the order of evictions are claimed for good.

`Referenced` is how much of a found prefix the allocation's reference protects: all
of it, unless the prompt ends with a block and all of it was cached. `find_` then
returns the parent of the last node (`radix.rs:299`), and only what is above that node
is protected. `ReferencedPrefixKept` and `ComputedPrefixValid` speak of that part,
`PrefixCache` calls it `pinned`; `FoundPrefixNotEvicted`, what the comment at
`radix.rs:92` promises of the whole of it, is violated.

### RequestQueue, QueueTask

`Scan` is one iteration of the entry loop, with `ScanPadded` and `ScanPaged` for
the models without and with an allocator; `LoopStates` is the state of the loop
after each number of entries, `Decide` is what follows it. `Only` keeps the
members of a set in a sequence, in their order: the open entries of a queue, or
the requests of a batch that a filter keeps.
`QueueTask` appends, disconnects and calls with every combination of arguments
of the instance; `LongestRun` says what the answer must be, chunk included,
without going through the loop. `MCQueueTask` runs the padded and the paged
model side by side, and `ReturnsLongestRun` and `NothingLost` are the properties
of whichever it is.

### Batcher

`pc` is where the task is suspended. `PullFirst` and `PullMore` are the two
calls of `next_batch`; `PrefillSucceeds`, `PrefillFails`, `DecodeSucceeds`,
`DecodeFails` are the model calls with everything the code does up to
`filter_batch`; `Filter` is `filter_batch` and what follows it up to the next
await. In a failing call each shard has done its part, never got to its cache,
or popped the batches and then failed (`Outcomes`). `todo`, `input` and `made`
are `prompt_length - cache_length`, `input_length` and the generated tokens of a
request on the shards, which compute the same. `NextChunks` are the next chunks
of the requests, `ChunkBudgets` what each leaves of the budget. Which tokens are
generated is left out: a request stops at any time, at the latest at
`max_new_tokens`. `Schedule` and `NotifyOne` are two steps, and `permit` is the
one permit of a tokio `Notify`. Speculation is off, and an entry has no cached
prefix (prefix caching is the subject of `RadixAllocator`). `MCBatcher` runs two
servers side by side, one with chunking and one that makes new requests wait;
its properties are those of `Batcher` for the server they apply to.
`ShardsAgreeChunked` is claimed until a prefill fails: the `clear_cache` that
follows names the new batch, not the one it was concatenated to. The second
server is an instance of `BatcherProofs`, so that the theorems can be cited for
it as well.

### PaddedRows, CausalBatch, Seq2SeqBatch, MambaBatch

A token is `<<request, position>>`, so a row of keys and values says whose tokens
were computed into it. `Slice`, `Index`, `Assigned` are Python's: negative bounds
count from the end, `-0` is 0, a source of one column broadcasts, any other width
that differs is an error (`Assignable`, `...Fits`). Each module has `FromPb`,
`Filter`, `Concatenate` and `GenerateToken`, which are the whole methods. The
language model is a function of what a row attends to: if that is the request's
own conversation at the right position, the next token is the right one,
otherwise `Garbage`. For IDEFICS a row also carries the mask over images, the
pixels and the encoded images; for the encoder-decoder models the encoder's
output and the decoder's mask, which does not exist before a concatenation; for
Mamba the tokens its state has consumed.

### FlashBatch

`kv` says what each physical slot holds. A row has the fields of the batch for
one request, `cache_length` (list) beside `cache_tensor` (tensor), which the code
updates in different places. `Fed` is what a pass feeds for a row: tokens, slots,
positions and how much of the block table is attended to. `Written` stores the
keys and values, which are right when position and adapter are. `PrefillHead` is
which logits are computed, where those of a row begin and which one picks its
next token; `NextIds`, `Accepted` and `Taken` choose tokens, accept guesses and
stop; `Outcome` and `AfterPass` are the two loops and the updates between them.
A block holds one slot. The environment chooses how many guesses are right and
when the end-of-sequence token comes.

### BatchModels

`cache` is `Cache` of `cache.py`; `Prefill`, `Decode` and `Filter` are the handlers
of `server.py` in the order in which `batching_task` calls them: with chunking the
cached batch joins the prefill, without it there may be two cached batches, which
the next decode concatenates. `ChunkLen` is the chunk the queue gives the last
request. A shape error is answered by clearing the cache (`Fail`).

### Layers, model modules, TensorParallel

A class of `layers/` or `custom_modeling` is an operator of the same name that
appends instructions to a program: `embed`, `col`, `row`, `heads`, `act`, `mix`,
`add`, `reduce`, `gather`, `head`. Norms, activations and other replicated maps are
`mix` (on whole values) and `act` (on shares). A value is the bag of the places it
was summed from, each whole, a partial sum of one rank, or `Scrambled`, and whether
it is a share of the columns. Ranks interleave freely between collectives; an
`AllReduce` or `AllGather` happens when every rank is at it. `Load` models the
checks of the constructors, `Raise` a shape that torch refuses; a program with a
`refuse` instruction is one whose constructor always raises. `ideal` runs the
same program on one device.

### Launcher

A polling loop is one location and each of its checks an action, so a check may
see what happened after the check before it, as in the code. `terminate` is one
step: the process has exited by itself, or is killed when the time is over. A
shard process may die, listen or ignore signals at any time. `uds` distinguishes
a socket file of a previous run from one bound by this run. `CleanupFails` is
the panic of `remove_file(uds).unwrap()`: nobody is told, and the launcher waits
until a signal comes.

## Runs

All passing runs explore their whole state space. Deadlock is checked except in
the `radix*` runs, whose clock is bounded, and in `batch_models` and
`tensor_parallel`, which end when every request or the forward pass has ended.

| Run | Instance | Shows |
|---|---|---|
| `allocator` | 3 entries, 3 usable blocks of 2 slots, window 3, up to 7 tokens | ownership, no leak, every call answered, implements `BlockPool`; slots are safe, and a health check that fits block 0 touches no request |
| `radix` | 3 entries, 6 usable blocks, 5 prompts of 2 or 3 chunks that share 0, 1 or 2 of them, two aligned to blocks, two with a chunk at two positions, 6 units of time, drops before and after the prefill | reference counts, no assert, eviction order; until a lookup strays ownership, referenced prefixes stay, computed blocks hold their prefix, implements `PrefixCache` |
| `queue` | padded and paged, 3 entries of 1 to 3 tokens, all orders, disconnections, 144 and 180 calls | the answer of `next_batch` is the defined one |
| `batcher` | a server with chunking, 2 shards, 3 requests, 7 blocks, budget 2, a prompt of 4, one failing prefill and one failing decode; and one without chunking, `max_batch_size` 2, ratio 2, 3 waiting tokens, failing calls | no panic, no cut stream, budgets, everyone who stays is answered, and agreement until the prefill fails (first server), batch size (second), order and nothing lost (both) |
| `batch_models` | causal, IDEFICS, encoder-decoder, Mamba, flash with chunks, flash with 1 and with 2 guesses; 2 to 4 requests of 1 to 6 tokens | batching is invisible, shapes fit, announced sizes hold, prompt logprobs are right, every request ends |
| `tensor_parallel` | 44 programs on 1, 2 and 3 ranks, heads and vocabularies that divide and that do not | sharding is invisible, even divisions are served, no rank is left waiting |
| `launcher` | 3 shards | order and cleanup of processes; signals and failures end the launcher |

The bounds are the smallest at which the interesting cases occur: three requests
so that one runs, one is at the head of the queue and one behind it; blocks for
two of them; a prompt longer than the chunk budget; two shards so that one fails
and one does not; a trie with a branch, a second root and not enough blocks for
all. The workloads of `batch_models` mix prompts and generations of different
lengths, so that padding appears on both sides, rows leave from the front, the
middle and the back, and batches of different widths are concatenated; one
request is prefilled in three chunks while others decode; a batch is filtered
while it prefills. A fourth request lets a concatenated batch be filtered and
concatenated again. `tensor_parallel` has one or two layers of each model (two where
a layer hands on an unfinished sum), and the smallest head counts for which heads
divide and key/value heads do not, or the reverse. Each property comes with a
mutant of the code that TLC refutes within the same bounds.

Symmetry is used in the passing `radix` run, over requests, which the module
treats alike. It is not used with liveness properties.

### Fairness

- allocator: the allocator task serves its channel and the queue task takes its
  answer. Entries are never required to drop an allocation.
- batcher (`BothLiveSpec`): the batching task advances when it can (the runtime
  polls it and the shards answer every call, with success or failure), and a
  caller that has appended goes on to notify. No fairness on clients: they may
  stay or leave. The number of failing calls is bounded, so calls do not fail
  for ever.
- batch models: the batching task makes a call while one can be made
  (`RouterIsFair`: weak fairness of the three calls together, with their guard
  written out). Clients need not leave, and the end-of-sequence token need not come.
- tensor parallel: ranks are processes that are scheduled; a collective happens
  once every rank has entered it, and only then.
- launcher: threads are scheduled and each check of a loop is reached again and
  again, the time of `terminate` passes. Nothing is assumed of the processes.

## Findings

Each of these has a run that TLC refutes; `PROJECT.json` quotes the lines.

- `radix_abandoned`: an allocation dropped before its prefill still enters the
  cache.
- `radix_aligned`: of a prompt that ends with a block and is wholly cached, `find_`
  returns the parent of the last node, so the reference is counted on the parent
  (`radix.rs:299`). The blocks the request uses are then evicted for another one. With
  blocks of one token (flashinfer, the default) every prompt ends with a block.
- `batcher_prefill_error`: a failing prefill of a joining batch drains the
  entries of the running one, which is then decoded.
- `tensor_parallel_bias`: the packed bias of the vision attention of Qwen2-VL is
  split in contiguous parts, its weights part by part.
- `speculation_slots`: with speculation, keys and values of guessed tokens are
  written to consecutive physical slots, also where the request's blocks are not
  consecutive.

Other instances of the same models show more, without a run of their own:

- in run `radix`, the properties that carry the guard `~strayed` fail without it: with
  `a b` and then `a b a` cached, a prompt `a a c` is given the block that was computed
  for the third chunk of `a b a`, because after a partial match `find_` goes on in the
  children (`radix.rs:300`); when it is freed, the trie has that block twice;
- `HealthTokens` above `BlockSize` violates `SlotsSafe`: with block
  size 1 the health check writes beyond block 0 (`sharded_client.rs:244`);
- a request of exactly `max_batch_total_tokens` with block size 2 violates
  `AnsweredChunked`: the arguments are accepted (`main.rs:185`), the allocator keeps one
  block back (`block_allocator.rs:151`), and the request blocks the queue;
- with chunking, a failing prefill clears the id the shards did not cache the
  batch under (`backend.rs:309`), so `ShardsAgree` fails after it; this is why
  `ShardsAgreeChunked` is claimed until then. The other properties of `batcher` hold
  with failing prefills;
- `NextChunks` gives the chunk budget to the newest request first, because new
  requests are appended (`server.py:180`), while the comment speaks of older
  requests (`flash_causal_lm.py:1933`);
- `filter_batch` compares sizes only (`backend.rs:373`): without chunking, a batch
  prefilled beside a running one can have as many requests as there are entries
  and still hold another request, and `NoPanic` fails at its next generation;
- the filter of the encoder-decoder batch adds what the *last* kept request may
  still decode (`seq2seq_lm.py:272`), not the sum the other models add, so three
  requests with 1, 6 and 6 new tokens outgrow `max_tokens`; this is why
  `GrowsWithinMaxTokens` leaves them out;
- the padded models truncate a batch to its largest `truncate`
  (`causal_lm.py:114`), so a request with a smaller one gets a longer prompt than
  alone; the workloads give the requests of a padded batch one `truncate`;
- IDEFICS looks for a batch without images only until the images are encoded
  (`idefics_modeling.py:1190`), so a request without images attends evenly to
  empty ones later; the workload gives every request an image;
- Mamba has no mask and consumes the left padding of its prefill
  (`mamba.py:568`), so only prompts of equal length are batched in the workload;
- on two ranks: `mpt_modeling.py:53` splits a fused bias in contiguous parts; the
  row form of LoRA (`lora.py:251`) multiplies a share of its input by whole
  matrices; `flash_pali_gemma_modeling.py:44` and `:103` split and then use
  undivided heads; the small Falcon attention and `phi_modeling.py:163` divide by
  the whole number of heads and raise. They are `FlawedPrograms`, run on one rank
  only;
- `MLPSpeculatorModel` multiplies `self.emb.weight` of an `nn.ModuleList`
  (`mlp.py:190`), which has none, so its constructor raises on any number of ranks;
  only the tied variant can be loaded. `flash_santacoder_modeling.py:177` joins
  separate query and key/value weights along the wrong dimension, and its shape assert
  fails, unless `config.transpose` is set. These are `RefusedPrograms`, which no
  deployment of the run uses: with `Flawed` set to them, `EvenlyDividedIsServed` is
  violated;
- a `K` that does not divide among the ranks is not refused when mistral, qwen2
  and dbrx are loaded, and raises in the first forward pass.

The server without chunking in `batcher` is asked only for properties that do not
depend on these.

## Proofs

Every theorem holds for every value of the constants that satisfies the named
assumptions, which TLC evaluates on the instances of the runs.

`BlockAllocatorProofs`, for every set of entries, number and size of blocks and
window (assumption `AllocatorAssumption`: they are naturals, the block size is
not 0):

- `TypeCorrect`: the type invariant is inductive on its own; it rests on lemmas
  about `SplitOff` and `Keep` (`SplitOffSeq`, `RequiredBlocksNat`).
- `CallsPendingCorrect`: an entry waits exactly while its one allocate command
  is in the channel.
- `NoDoubleOwnershipCorrect`: the places of a block (free list, allocations,
  Free commands) are disjoint. Channel positions shift when the task receives, so
  the steps are proved from lemmas on what a send or a receive does to the blocks
  under way (`FreedAfterCall`, `FreedAfterDrop`, `FreedAfterRecv`) and on
  splitting and concatenating sequences without repetition (`SplitOffRange`,
  `ConcatRange`, `DisjointFacts`).
- `NoLeakCorrect`: every block has a place. It needs `CallsPending`: an answer is
  written to an entry that holds nothing, so no blocks are overwritten.
- `SlotsSafeCorrect`: every position of a request has a slot, and no other
  request, no position within its window and no health check writes it. It needs
  `LiveSized`, that a live allocation has as many blocks as `allocate` computes,
  and its assumption is `HealthTokens <= BlockSize`: without it the health check
  leaves block 0 and the property is false (see the findings).

`ImplementsPoolCorrect`, in the same module: every step of the allocator is a step
of `BlockPool` or leaves its state alone. A call takes effect in the pool
when it is *sent*: the Free commands before it in the channel decide which blocks
it will get, so the mapping runs the channel forward (`FreeAfter`), and the proof
shows that serving a command changes the outcome of no other. Its
invariant `PoolInv` adds to the ownership invariants that the channel holds at
most one allocate command, because the queue task awaits its answer.

`RequestQueueProofs`: `next_batch` for every queue, set of disconnected clients,
budget and kind of model. The entry loop is a function of the number of
iterations, and `IntervalInduction` derives induction over it from the
least-number principle on a set (`LeastNumber`), so that no induction theorem with
an operator parameter is needed. Two other modules of proofs state the same two
lemmas.

- `NextBatchOrdered`: batch and remaining queue are the queue in its order,
  without some of the entries whose client is gone.
- `NextBatchKeeps`: restricted to the entries whose client is there, they are
  exactly the queue.
- `NextBatchSized`: at most `max_size` entries; the loop's invariant is that it
  has fewer as long as it has not stopped.
- `NextBatchPriced` (paged attention): the prompts handed over are within the prefill
  budget rounded up to whole blocks, all of them whole, or all but the last, which
  gets the chunk that is left. Sums over a batch are a function of its length
  (`Total`), so that what an entry adds is one step of the loop.

`QueueTaskProofs`, for any sequence of arrivals, disconnections and calls
(`QueueAssumption`: lengths and budgets are naturals, prompts and answers have a
token, blocks a slot):

- `NothingLostCorrect`: from `NextBatchKeeps`.
- `LongestRunCorrect`: the answer is the one `LongestRun` defines without the loop.
  `LoopInv` says after each entry that the counters of the loop are the needs of its
  batch and, once it has stopped, why: the maximal size, an entry of which nothing
  fits, or one of which a part fits. `WholeIs` turns each reason into the maximum of
  the reference; it needs that a run that does not fit does not fit with more
  entries either (`FitsShrinks`; for the padded models a product of two growing
  numbers). The empty run belongs to the reference whether or not its speculation
  alone fits, which no instance of the run had shown.

`MCQueueTaskProofs`, `ReturnsLongestRunCorrect`: both kinds of models of
`MCQueueTask`, the padded one as an instance of `QueueTaskProofs`.

`BatcherProofs`, for every set of requests and shards and every budget
(`BatcherAssumption`):

- `AccountedCorrect`, `FirstComeFirstServedCorrect`: from `Inv`, which says that an
  entry is in the queue at most once, in the queue or with the task and not both,
  and that the task has none where it rests. Every step is a submission, a call of
  `next_batch` or one that leaves the queue alone (`StepKinds`); the
  calls are covered by `NextBatchOrdered`.
- `ChunkedServesCorrect` (with chunking; any calls fail): the task never panics
  and cuts no stream. `ChunkInv` relates, location by location, the entries, the
  batches the task knows and the batch under way: with chunking there is at most
  one batch, so `filter_batch`, which compares sizes only, compares the right sets.
- `ChunkedAgreesCorrect` (with chunking, until a prefill fails): shards and task
  agree between calls, decodes that fail on some shards included. What `ChunkInv` says
  of the caches is under the condition `NoPrefillFailed`: a failed prefill leaves the
  shards with a batch the task no longer knows (see the findings). The entries and the
  batches of the task do not depend on it, and neither does `ChunkedServesCorrect`.
- `BatchSizeWithinMaxCorrect` (without chunking, with a `max_batch_size`): from
  `SizeInv`. A failed prefill drops entries of requests that stay in the running
  batch, so the sizes cannot be bounded by the number of entries; `SizeInv` bounds
  the batches themselves, and that a request is in at most one of them follows
  because it has left the queue for good (`Gone`).
- `ForwardWithinBudgetCorrect` (with chunking; any calls fail): no forward pass takes
  more tokens than `max_batch_prefill_tokens` rounded up to a block, unless one token
  per request is more. `BudgetInv`: the running batch is *lean*, that is, its next
  pass is within the budget or one token per request, and stays so when requests
  leave it; what joins it fits in what it leaves (`NextBatchPriced`). That a pass
  leaves a lean batch behind is the fact about the loop of `generate_token`: the
  budget starts with a token set aside for every request but one, and every chunk is
  paid from it.

`MCBatcherProofs` carries these over to the two servers of `BothSpec`:
`NoPanicChunkedCorrect`, `NoStreamCutChunkedCorrect`,
`ShardsAgreeChunkedCorrect` and `ForwardWithinBudgetChunkedCorrect` for the one
with chunking, `BatchSizeWithinLimitCorrect` for the limited one, whose
constants satisfy the assumption of `Batcher` (`LimitedAssumption`).

`RadixAllocatorProofs`, for every set of prompts, number of blocks and requests
(`RadixAssumption`: keys are sequences, numbers are naturals). Nothing else is assumed
of the prompts: they may end with a block, and a chunk may occur at several positions.

- `TypeCorrect`, `RefCountsCorrect`, `NoPanicCorrect`: from `AllocInv`
  (`AllocInvariant`). Its core is `TrieOK(T, ext, C, B)`: a trie over chunks `C` and
  blocks `B` in which parents and children know each other under the first chunk of
  the child's key (`LinksOK`), whose nodes have `ext[id]` references besides their
  children (`CountsOK`), and whose leaves are the nodes without references. Each
  operation of the trie has a lemma that says what it does to `ext` (`TouchOK`,
  `IncrefOK`, `DecrefOK`, `AddOK`, `SplitOK`, `RemoveOK`, `CutOK`); in the middle
  of a removal a node is counted for a child it no longer has, and `ext` stands for
  that too. The loops of `find`, `insert` and `evict` keep it
  (`FindKeeps`, `InsertKeeps`, `EvictKeeps`), by the same induction over iterations
  as `next_batch`. In the allocator `ext` is the number of live allocations that
  use a node, so the node of an allocation is there when it is freed and has a reference to
  give back: that is why no assert fires.
- `EvictsOldestFirstCorrect`: an action property, from `AllocInv` and what each
  operation does to the access times (`Touched`, `Bumped`, `Evicted`, `Extended`).
  The delicate step is `allocate`: `find` makes its path the youngest and takes a
  reference before `evict` picks the oldest leaf, so a leaf that came out of the
  call unchanged is older than that path and not older than what was evicted.
- `OneOwnerCorrect`, `ReferencedPrefixCorrect`, `ComputedPrefixCorrect`: from
  `CacheInvOK` (`CacheInvariant`), which is `AllocInv` for good and `CacheInv` until a
  lookup strays; only the properties carry that condition, not the prompts. `find_` is
  shown to walk down a path of the trie, with what it returned the blocks of that path
  to the depth of its match, in every step that does not stray (`FindPathStep`,
  `FindPaths`); that it strayed is never forgotten (`FindStrays`, `StaysStrayed`). The
  statements stop where the code stops being right: on a prompt that ends with a block
  and is wholly cached the reference protects only `Referenced` blocks (`ReferencedIs`
  computes that number from the path to the node), and after a stray lookup all three
  fail (see the findings). `CacheInv` has two parts.
  `Ledger` says where each block is: in the free list, in the trie, or in the own
  part of one allocation (`Own`), in exactly one of them and once. `CacheIs` speaks of the
  paths: there are functions `K` and `V` from nodes to the chunks and the blocks
  between the root and the end of the node (`PathsOK`), and the cached part of an
  allocation is the beginning of the path to its node (`HeldPath`), whatever has
  been split, cut or added since; a block on a path was computed for the path up to
  it, unless its prompt was dropped before the prefill (`Right`). Each operation of
  the trie has a lemma about paths (`SplitPaths`, `AddPaths`, `ShrunkPaths`), each
  loop one about what it finds or adds (`FindPaths`, `InsertPaths`). What `Path` and
  `Contents` compute is then shown to be `K` and `V` (`PathIs`, `ContentsAt`); that
  needs that two nodes with the same path are one node (`OnePath`).

`LauncherProofs`, for every finite nonempty set of shards (`LauncherAssumption`):

- `TypeCorrect`.
- `NoOrphanProcessCorrect`, `WebserverStopsFirstCorrect`: from `Watched`, which
  says where main and the managers are while a process is alive.
- `SuccessOnlyWhenAskedCorrect`: from `Explained`, the same fact for the whole
  way to the exit.
- `WebserverAfterShardsCorrect`: from `Counted`. `shard_ready` is a number, so
  the invariant relates it, plus the reports in the channel, to the number of
  shards that reported; a report of every shard then means all of them, and a
  reported shard has bound its socket because its manager removed the old one.

Only model-checked:

- liveness: fairness and `ENABLED` are beyond the proof system;
- of the prefix cache, the refinement `ImplementsPrefixCache`: that `find` returns the
  longest cached prefix and `insert` leaves every prefix exactly once. `CacheInv`
  and `ContentsAt` are the first half of a proof;
- the batch models and the sharded models: their rows and programs are folds and
  recursive operators over concrete workloads, and what they compute for every
  input needs induction over data.

## Not modelled

- numbers: kernels, quantization, sampling, rotary embeddings; tokenization and
  decoding of text, grammars, watermarks, chat templates, metrics, tracing;
- of the flash models: sliding windows, CUDA graphs, warmup and the batches of the
  vision models, which add images to `FlashCausalLMBatch`;
- loading: choice of the model class (`models/__init__.py`), download and
  conversion of weights, quantized weights;
- the HTTP layer, benchmark, clients, tests;
- `health` of the backend and of `Infer`, validation, startup checks, backend
  v2, the TensorRT-LLM backend (planned);
- prefix caching and speculation inside `Batcher`;
- failures of `filter_batch` and `clear_cache`, which the code answers by a panic.

## Plan

1. Proofs: the refinement of `PrefixCache` by the radix allocator, with `CacheInv` for
   its invariant; that every token id has exactly one rank
   and every row of a packed weight exactly one place (`TensorParallel`).
2. `Startup` and `Validation`: the limits the router accepts, and which admitted
   requests can be scheduled.
3. `Infer`: permits, the `backend_health` flag, `best_of`.
4. Sliding windows and images in `FlashBatch`, backend v2, the TensorRT-LLM looper.
