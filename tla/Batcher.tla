------------------------------- MODULE Batcher -------------------------------
(***************************************************************************)
(* Continuous batching in backend v3: the batching task, the request queue *)
(* it pulls from, the model shards it drives over gRPC, and the clients    *)
(* that submit requests and may go away at any time.                       *)
(*                                                                         *)
(* The task is sequential and suspends at its awaits; one action is what   *)
(* it does between two of them.  A gRPC call goes to every shard, each of  *)
(* which keeps batches in a cache under their id between calls, and it     *)
(* fails when one shard fails, whatever the others have done.              *)
(*                                                                         *)
(* Tokens are counted, not named: what a request generates is abstracted   *)
(* to when it stops.                                                       *)
(***************************************************************************)
EXTENDS RequestQueue, FiniteSets, FiniteSetsExt, TLC

CONSTANTS
    Requests,
    Shards,
    MaxBatchPrefillTokens,
    MaxBatchTotalTokens,
    MaxBatchSize,          \* NoMax stands for None
    MaxWaitingTokens,
    ServedNum, ServedDen,  \* waiting_served_ratio as a fraction
    MaxPrefillErrors,      \* bounds on the calls that fail
    MaxDecodeErrors

ASSUME BatcherAssumption ==
    /\ InputLength \in [Requests -> Nat \ {0}]
    /\ MaxNewTokens \in [Requests -> Nat \ {0}]
    /\ BlockSize \in Nat \ {0} /\ ServedDen \in Nat \ {0}
    /\ {MaxBatchPrefillTokens, MaxBatchTotalTokens, MaxWaitingTokens,
        ServedNum, MaxPrefillErrors, MaxDecodeErrors} \subseteq Nat
    /\ SupportChunking \in BOOLEAN
    /\ RequiresPadding = FALSE    \* the shards are flash attention models
    /\ Speculate = 0              \* a pass makes one token per request
    /\ Shards # {}

VARIABLES
    client,     \* Requests -> the state of its response stream (see Streams)
    notifying,  \* requests appended to the queue whose notify_one is to come
    permit,     \* the permit of the Notify
    queue,      \* entries waiting, front first
    pc,         \* where the batching task is
    entries,    \* the entries the batching task owns
    batches,    \* the cached batches it knows, in the order it sends them
    fresh,      \* the batch to prefill, or the one a call returned
    inner,      \* was the prefill called from the inner loop?
    waiting,    \* waiting_tokens
    nextId,     \* next_batch_id
    cache,      \* Shards -> batch id -> requests, in the order of the batch
    todo,       \* Requests -> prompt tokens that are not in the KV cache
    input,      \* Requests -> tokens of the request in the next forward pass
    made,       \* Requests -> tokens generated
    errors      \* failed prefill and decode calls

clientVars == <<client, notifying, permit>>
taskVars == <<pc, entries, batches, fresh, inner, waiting>>
shardVars == <<cache, todo, input, made>>
vars == <<clientVars, queue, taskVars, nextId, shardVars, errors>>

\* A batch is its id and its requests in order; None is the empty one.
Batch(id, reqs) == [id |-> id, reqs |-> reqs]
None == Batch(0, <<>>)
Ids(b) == Range(b.reqs)

\* A stream that is open becomes closed when the client drops it, ended after
\* its last token, failed after an error, and cut when the sender is dropped
\* without either.
Streams == {"absent", "open", "closed", "ended", "failed", "cut"}

\* Where the task is: before and in notified().await, in the outer next_batch,
\* at the top of the inner loop, in the two model calls, in filter_batch after
\* each of them, or dead of a panic.
Locations == {"start", "idle", "outer", "loop", "prefill", "decode",
              "filterPrefill", "filterDecode", "dead"}

Init ==
    /\ client = [r \in Requests |-> "absent"]
    /\ notifying = {} /\ permit = FALSE /\ queue = <<>>
    /\ pc = "start" /\ entries = {} /\ batches = <<>> /\ fresh = None
    /\ inner = FALSE
    /\ waiting = 1 /\ nextId = 0
    /\ cache = [s \in Shards |-> <<>>]
    /\ todo = [r \in Requests |-> 0]
    /\ input = [r \in Requests |-> 0]
    /\ made = [r \in Requests |-> 0]
    /\ errors = [prefill |-> 0, decode |-> 0]
-----------------------------------------------------------------------------
(* The callers of schedule                                                 *)

\* Append, then notify_one: the task may run in between.
Schedule(r) ==
    /\ client[r] = "absent"
    /\ client' = [client EXCEPT ![r] = "open"]
    /\ queue' = Append(queue, r)
    /\ notifying' = notifying \cup {r}
    /\ UNCHANGED <<permit, taskVars, nextId, shardVars, errors>>

\* Mutant: notify_waiters, which leaves no permit behind.
NotifyWaiters(r) ==
    /\ r \in notifying
    /\ notifying' = notifying \ {r}
    /\ permit' = (permit \/ pc = "idle")
    /\ UNCHANGED <<client, queue, taskVars, nextId, shardVars, errors>>

NotifyOne(r) ==
    /\ r \in notifying
    /\ notifying' = notifying \ {r}
    /\ permit' = TRUE
    /\ UNCHANGED <<client, queue, taskVars, nextId, shardVars, errors>>

\* The receiver of the response stream is dropped.
Disconnect(r) ==
    /\ client[r] = "open"
    /\ client' = [client EXCEPT ![r] = "closed"]
    /\ UNCHANGED <<notifying, permit, queue, taskVars, nextId, shardVars, errors>>

Closed == {r \in Requests : client[r] = "closed"}
-----------------------------------------------------------------------------
(* Waiting for work, and pulling it from the queue                         *)

StartWait ==
    /\ pc = "start"
    /\ pc' = "idle"
    /\ UNCHANGED <<clientVars, queue, entries, batches, fresh, inner, waiting, nextId,
                   shardVars, errors>>

Wake ==
    /\ pc = "idle" /\ permit
    /\ permit' = FALSE
    /\ pc' = "outer"
    /\ UNCHANGED <<client, notifying, queue, entries, batches, fresh, inner,
                   waiting, nextId, shardVars, errors>>

\* Blocks not owned by an entry; block 0 is reserved.
FreeBlocks ==
    Minus(MaxBatchTotalTokens \div BlockSize, 1) - MapThenSumSet(BlocksOf, entries)

\* The batch becomes the one to prefill, its entries move to the task.
Admit(nb) ==
    /\ queue' = nb.queue
    /\ nextId' = nextId + 1
    /\ fresh' = Batch(nextId, nb.batch)
    /\ todo' = [r \in Requests |->
                  IF r \in Range(nb.batch) THEN InputLength[r] ELSE todo[r]]
    /\ input' = [r \in Requests |->
                  IF r \notin Range(nb.batch) THEN input[r]
                  ELSE IF nb.chunk > 0 /\ r = Last(nb.batch) THEN nb.chunk
                  ELSE InputLength[r]]
    /\ pc' = "prefill"
    /\ inner' = (pc = "loop")
    /\ UNCHANGED <<clientVars, batches, waiting, cache, made, errors>>

\* The head of the outer while loop: nothing is running.
PullFirst ==
    /\ pc = "outer"
    /\ LET nb == NextBatch(queue, Closed, 0, MaxBatchSize, MaxBatchPrefillTokens,
                           MaxBatchTotalTokens, FreeBlocks)
       IN  IF nb.batch = NoBatch
           THEN /\ queue' = nb.queue
                /\ pc' = "start"
                /\ UNCHANGED <<clientVars, entries, batches, fresh, inner, waiting, nextId,
                               shardVars, errors>>
           ELSE Admit(nb) /\ entries' = Range(nb.batch)

CurrentTokens(b) == Total(input, b.reqs)
BatchTokens(b) == MapThenSumSet(LAMBDA r : BlocksOf(r) * BlockSize, Ids(b))

MinSize(b) ==
    IF SupportChunking \/ waiting >= MaxWaitingTokens THEN 0
    ELSE (Cardinality(Ids(b)) * ServedNum) \div ServedDen

\* Mutant: the running requests are not counted.
MaxSizeIgnoresRunning(b) == IF SupportChunking THEN NoMax ELSE MaxBatchSize

MaxSize(b) ==
    IF SupportChunking \/ MaxBatchSize = NoMax THEN NoMax
    ELSE Minus(MaxBatchSize, Cardinality(Ids(b)))

\* Mutant: the tokens the running batch already puts in the next forward pass
\* are not subtracted.
PrefillBudgetIgnoresRunning(b) == MaxBatchPrefillTokens

PrefillBudget(b) ==
    IF SupportChunking THEN Minus(MaxBatchPrefillTokens, CurrentTokens(b))
    ELSE MaxBatchPrefillTokens

\* The top of the inner loop: one batch is running, more may join it.
PullMore ==
    /\ pc = "loop"
    /\ LET b == batches[1]
           nb == NextBatch(queue, Closed, MinSize(b), MaxSize(b), PrefillBudget(b),
                           Minus(MaxBatchTotalTokens, BatchTokens(b)), FreeBlocks)
       IN  IF nb.batch = NoBatch
           THEN /\ queue' = nb.queue
                /\ pc' = "decode"
                /\ UNCHANGED <<clientVars, entries, batches, fresh, inner, waiting, nextId,
                               shardVars, errors>>
           ELSE Admit(nb) /\ entries' = entries \cup Range(nb.batch)
-----------------------------------------------------------------------------
(* The shards                                                              *)

\* The next chunk of a request: what is left of its prompt as far as the budget
\* goes, and at least one token, which is also what a request that decodes takes.
Granted(left, budget) ==
    IF left = 0 THEN 1 ELSE Maximum(1, IF left < budget THEN left ELSE budget)

\* The budget after each number of requests, the newest first: it pays the chunks
\* of the prefilling ones, one token of every other request is set aside.
ChunkBudgets(reqs, left) ==
    LET n == Len(reqs)
        b[i \in 0..n] ==
            IF i = 0 THEN MaxBatchPrefillTokens - (n - 1)
            ELSE LET l == left[reqs[n + 1 - i]]
                 IN  IF l = 0 THEN b[i - 1] ELSE b[i - 1] - Granted(l, b[i - 1])
    IN  b

\* Next chunk lengths of the requests.
NextChunks(reqs, left) ==
    LET place(r) == CHOOSE k \in DOMAIN reqs : reqs[k] = r
    IN  [r \in Range(reqs) |->
            Granted(left[r], ChunkBudgets(reqs, left)[Len(reqs) - place(r)])]

\* What is left of the prompts after a forward pass over reqs.
Left(reqs) ==
    [r \in Requests |-> IF r \in Range(reqs) THEN Minus(todo[r], input[r]) ELSE todo[r]]

\* The requests of the pass that have a next token: their prompt is complete.
Emitting(reqs) == {r \in Range(reqs) : Left(reqs)[r] = 0}

\* The ways generation can stop: at the latest after max_new_tokens.
Stops(reqs) ==
    {S \in SUBSET Emitting(reqs) :
        \A r \in Emitting(reqs) : made[r] + 1 >= MaxNewTokens[r] => r \in S}

\* The batch a shard works on: the cached ones in order, then the new one.
Concat(known, new) ==
    FlattenSeq([i \in DOMAIN known |-> known[i].reqs]) \o new

\* generate_token and cache.set on one shard: the batch is kept under the id of
\* its first part unless every request stopped; stopped ones stay in it.
Keep(c, id, reqs, S) ==
    IF S = Range(reqs) THEN c
    ELSE [i \in DOMAIN c \cup {id} |-> IF i = id THEN reqs ELSE c[i]]
Pop(c, ids) == [i \in DOMAIN c \ ids |-> c[i]]

\* A forward pass advances every request of the batch.
Forward(reqs) ==
    LET left == Left(reqs)
        chunks == NextChunks(reqs, left)
    IN  /\ todo' = left
        /\ input' = [r \in Requests |-> IF r \in Range(reqs) THEN chunks[r] ELSE input[r]]
        /\ made' = [r \in Requests |-> IF r \in Emitting(reqs) THEN made[r] + 1 ELSE made[r]]

\* The map of entries is dropped, with the senders in it.
Abandon ==
    /\ client' = [r \in Requests |->
                    IF r \in entries /\ client[r] = "open" THEN "cut" ELSE client[r]]
    /\ entries' = {}

\* filter_send_generations: a generation of an entry the task does not own is
\* a panic; a stopped entry, and one whose client is gone, is removed.
SendGenerations(reqs, S, next) ==
    IF Emitting(reqs) \subseteq entries
    THEN /\ client' = [r \in Requests |->
                          IF r \in S /\ client[r] = "open" THEN "ended" ELSE client[r]]
         /\ entries' = entries \ (S \cup (Emitting(reqs) \cap Closed))
         /\ pc' = next
    ELSE /\ pc' = "dead"
         /\ Abandon

\* Mutant: the entries are cleared, nothing is sent.
SendErrorsClears == Abandon

\* send_errors: every entry is drained.
SendErrors ==
    /\ client' = [r \in Requests |->
                    IF r \in entries /\ client[r] = "open" THEN "failed" ELSE client[r]]
    /\ entries' = {}
-----------------------------------------------------------------------------
(* prefill and decode                                                      *)

CachedIds(bs) == {bs[i].id : i \in DOMAIN bs}

\* With chunking the running batch goes along, to be concatenated.
PrefillIds == IF SupportChunking THEN CachedIds(batches) ELSE {}
PrefillReqs ==
    IF SupportChunking THEN Concat(batches, fresh.reqs) ELSE fresh.reqs
PrefillId ==
    IF SupportChunking /\ batches # <<>> THEN batches[1].id ELSE fresh.id

Present(s, ids) == ids \subseteq DOMAIN cache[s]

PrefillSucceeds(S) ==
    /\ pc = "prefill"
    /\ \A s \in Shards : Present(s, PrefillIds)
    /\ S \in Stops(PrefillReqs)
    /\ cache' = [s \in Shards |->
                   Keep(Pop(cache[s], PrefillIds), PrefillId, PrefillReqs, S)]
    /\ Forward(PrefillReqs)
    /\ SendGenerations(PrefillReqs, S, "filterPrefill")
    /\ fresh' = IF S = Range(PrefillReqs) THEN None ELSE Batch(PrefillId, PrefillReqs)
    /\ batches' = IF SupportChunking THEN <<>> ELSE batches
    /\ waiting' = 1
    /\ UNCHANGED <<notifying, permit, queue, inner, nextId, errors>>

\* How a shard may take part in a call that fails: it did the work, it never
\* got to its cache, or it took the batches out of it and then failed.
Outcomes(ids) ==
    {o \in [Shards -> {"done", "early", "late"}] :
        /\ \E s \in Shards : o[s] # "done"
        /\ \A s \in Shards : ~Present(s, ids) => o[s] # "done"}

CacheAfter(s, o, ids, id, reqs, S) ==
    CASE o[s] = "done"  -> Keep(Pop(cache[s], ids), id, reqs, S)
      [] o[s] = "early" -> cache[s]
      [] o[s] = "late"  -> Pop(cache[s], ids)

\* Where the task goes on when prefill returns no batch: back to the outer
\* loop, or, without chunking, to the batch that was running before.
AfterEmptyPrefill == IF SupportChunking \/ ~inner THEN "outer" ELSE "decode"

\* Only the new batch is cleared from the shards.
PrefillFails(o, S) ==
    /\ pc = "prefill"
    /\ errors.prefill < MaxPrefillErrors
    /\ o \in Outcomes(PrefillIds)
    /\ S \in Stops(PrefillReqs)
    /\ cache' = [s \in Shards |->
                   Pop(CacheAfter(s, o, PrefillIds, PrefillId, PrefillReqs, S),
                       {fresh.id})]
    /\ SendErrors
    /\ errors' = [errors EXCEPT !.prefill = @ + 1]
    /\ fresh' = None
    /\ batches' = IF SupportChunking THEN <<>> ELSE batches
    /\ pc' = AfterEmptyPrefill
    /\ waiting' = 1
    /\ UNCHANGED <<notifying, permit, queue, inner, nextId, todo, input, made>>

DecodeReqs == Concat(batches, <<>>)

DecodeSucceeds(S) ==
    /\ pc = "decode"
    /\ \A s \in Shards : Present(s, CachedIds(batches))
    /\ S \in Stops(DecodeReqs)
    /\ cache' = [s \in Shards |->
                   Keep(Pop(cache[s], CachedIds(batches)), batches[1].id, DecodeReqs, S)]
    /\ Forward(DecodeReqs)
    /\ SendGenerations(DecodeReqs, S, "filterDecode")
    /\ fresh' = IF S = Range(DecodeReqs) THEN None ELSE Batch(batches[1].id, DecodeReqs)
    /\ batches' = <<>>
    /\ waiting' = IF waiting < MaxWaitingTokens THEN waiting + 1 ELSE waiting
    /\ UNCHANGED <<notifying, permit, queue, inner, nextId, errors>>

\* Every batch that was sent is cleared from the shards.
DecodeFails(o, S) ==
    /\ pc = "decode"
    /\ errors.decode < MaxDecodeErrors
    /\ o \in Outcomes(CachedIds(batches))
    /\ S \in Stops(DecodeReqs)
    /\ cache' = [s \in Shards |->
                   Pop(CacheAfter(s, o, CachedIds(batches), batches[1].id, DecodeReqs, S),
                       CachedIds(batches))]
    /\ SendErrors
    /\ errors' = [errors EXCEPT !.decode = @ + 1]
    /\ batches' = <<>>
    /\ pc' = "outer"
    /\ UNCHANGED <<notifying, permit, queue, fresh, inner, waiting, nextId, todo, input, made>>
-----------------------------------------------------------------------------
(* filter_batch                                                            *)

\* Mutant: the first requests are kept, whichever they are.
FilterShardTruncates(reqs, ids) == SubSeq(reqs, 1, Cardinality(ids))

\* FilterBatch on a shard; "We assume that if len(requests) == len(self) then
\* the requests are the same".
FilterShard(reqs, ids) ==
    IF Cardinality(ids) = Len(reqs) THEN reqs
    ELSE Only(reqs, ids)

\* The number of requests decides whether there is anything to filter.
NothingToFilter == fresh = None \/ Len(fresh.reqs) = Cardinality(entries)
Retained == Ids(fresh) \cap entries

\* The batch filter_batch returns ...
Filtered ==
    IF NothingToFilter THEN fresh
    ELSE IF Retained = {} THEN None
    ELSE Batch(fresh.id, FilterShard(fresh.reqs, Retained))

\* Mutant: an empty batch is not cleared from the shards.
CacheFilteredNotCleared(s) ==
    IF NothingToFilter \/ Retained = {} THEN cache[s]
    ELSE [cache[s] EXCEPT ![fresh.id] = FilterShard(@, Retained)]

\* ... and what it leaves in the cache of a shard (clear_cache, filter_batch).
CacheFiltered(s) ==
    IF NothingToFilter THEN cache[s]
    ELSE IF Retained = {} THEN Pop(cache[s], {fresh.id})
    ELSE [cache[s] EXCEPT ![fresh.id] = FilterShard(@, Retained)]

\* filter_batch, and on to the next await: a batch that is left joins the known
\* ones.  Leaving the inner loop drops the map of entries.
Filter ==
    /\ pc \in {"filterPrefill", "filterDecode"}
    /\ cache' = [s \in Shards |-> CacheFiltered(s)]
    /\ batches' = IF Filtered = None THEN batches ELSE Append(batches, Filtered)
    /\ fresh' = None
    /\ pc' = IF Filtered # None
             THEN IF pc = "filterPrefill" /\ inner THEN "decode" ELSE "loop"
             ELSE IF pc = "filterPrefill" THEN AfterEmptyPrefill ELSE "outer"
    /\ IF pc' = "outer" THEN Abandon ELSE UNCHANGED <<client, entries>>
    /\ UNCHANGED <<notifying, permit, queue, inner, waiting, nextId,
                   todo, input, made, errors>>
-----------------------------------------------------------------------------
Task ==
    \/ StartWait \/ Wake \/ PullFirst \/ PullMore
    \/ \E S \in SUBSET Requests :
         \/ PrefillSucceeds(S) \/ DecodeSucceeds(S)
         \/ \E o \in [Shards -> {"done", "early", "late"}] :
              PrefillFails(o, S) \/ DecodeFails(o, S)
    \/ Filter

\* Every request has been submitted and dealt with.
Quiescent ==
    /\ pc = "idle" /\ ~permit /\ notifying = {}
    /\ \A r \in Requests : client[r] \notin {"absent", "open"}
    /\ UNCHANGED vars

Next ==
    \/ \E r \in Requests : Schedule(r) \/ NotifyOne(r) \/ Disconnect(r)
    \/ Task
    \/ Quiescent

\* Every step of the task moves its pc and nothing else does, so this is the
\* task stepping: it can unless it is dead or asleep without a permit.
Advance ==
    /\ pc # "dead" /\ (pc = "idle" => permit)
    /\ pc' \in Locations \ {pc}

\* The runtime keeps polling the task, the shards answer every call, and a
\* caller that appended an entry goes on to notify.
Fairness == WF_pc(Advance) /\ \A r \in Requests : WF_vars(NotifyOne(r))

Spec == Init /\ [][Next]_vars
LiveSpec == Spec /\ Fairness
-----------------------------------------------------------------------------
\* "We can `expect` here as the request id should always be in the entries":
\* the batching task never panics on a generation it has no entry for.
NoPanic == pc # "dead"

\* No stream ends without its last token or an error: an entry is never dropped
\* while its client listens.
NoStreamCut == \A r \in Requests : client[r] # "cut"

\* The batching task and the shards agree.  Between two calls every shard caches
\* exactly the batches the task knows, with the same requests, and these are
\* exactly the entries; no request is in two batches.
ShardsAgree ==
    pc \in {"start", "idle", "outer", "loop", "decode"} =>
        /\ \A s \in Shards : cache[s] = [id \in CachedIds(batches) |->
                (CHOOSE b \in Range(batches) : b.id = id).reqs]
        /\ entries = UNION {Ids(batches[i]) : i \in DOMAIN batches}
        /\ IsInjective(DecodeReqs)

\* An entry a client still waits for is in one place: once in the queue, or with
\* the batching task.
Accounted ==
    \A r \in Requests : client[r] = "open" =>
        Cardinality({i \in DOMAIN queue : queue[i] = r}) + (IF r \in entries THEN 1 ELSE 0) = 1

\* Tokens of the forward pass over reqs.
Pass(reqs) == Total(input, reqs)

\* No forward pass takes more tokens than max_batch_prefill_tokens, padded to
\* the block size, unless one token per request is already more.
ForwardWithinBudget ==
    LET limit(reqs) == Maximum(MaxBatchPrefillTokens + BlockSize - 1, Len(reqs))
    IN  /\ pc = "prefill" => Pass(PrefillReqs) <= limit(PrefillReqs)
        /\ pc = "decode" => Pass(DecodeReqs) <= limit(DecodeReqs)

\* max_batch_size bounds what the shards decode at a time, the requests that
\* joined a running batch included.
BatchSizeWithinMax ==
    (pc = "decode" /\ MaxBatchSize # NoMax) => Len(DecodeReqs) <= MaxBatchSize

Before(q, r, s) ==
    \E i, j \in DOMAIN q : i < j /\ q[i] = r /\ q[j] = s

\* First come, first served: an entry neither starts before one that waits in
\* front of it, nor changes places with it when it is put back.
FirstComeFirstServed ==
    [][\A r, s \in Requests : Before(queue, r, s) =>
         /\ s \in entries' => r \notin Range(queue')
         /\ ~Before(queue', s, r)]_vars

\* Every request that stays connected is answered to the end.
Answered ==
    \A r \in Requests : client[r] = "open" ~> client[r] # "open"
=============================================================================
