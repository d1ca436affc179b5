----------------------------- MODULE BatchModels -----------------------------
(***************************************************************************)
(* The models served by one shard: the cache of batches of server.py, the  *)
(* batch class of the model, and the order in which the router calls them  *)
(* - prefill, filter what has ended, decode one batch or concatenate two.  *)
(*                                                                         *)
(* A workload says which model is served and which requests arrive, in the *)
(* order of their numbers.  The environment chooses how the requests are   *)
(* batched, when the end-of-sequence token comes, how many speculated      *)
(* tokens are right and when a client leaves.                              *)
(***************************************************************************)
EXTENDS Integers, Sequences, FiniteSets

CONSTANTS
    Workloads,      \* the servers and what they are asked, below
    MaxPrefill,     \* the most requests of one prefill
    MaxRequests     \* the most requests of a workload

VARIABLES
    workload,   \* the workload served
    arrived,    \* requests 1 .. arrived were sent to the shard
    cache,      \* the batches the shard holds, in the order of the router
    kv,         \* what each slot of the paged cache holds
    status,     \* "ok", or "error" once torch refused a shape
    sent,       \* history: the tokens streamed to each request
    texts,      \* the final text of each request that has one
    gone        \* the requests whose client has left

vars == <<workload, arrived, cache, kv, status, sent, texts, gone>>

Kinds == {"causal", "idefics", "seq2seq", "mamba", "flash"}

ASSUME WorkloadsAssumption ==
    \A w \in Workloads :
        /\ w.kind \in Kinds
        /\ w.speculate \in Nat
        /\ w.chunking \in BOOLEAN
        /\ w.chunking => w.speculate = 0    \* Model.__init__ turns it off
        /\ w.max_prefill_tokens \in Nat \ {0}
        /\ Len(w.requests) <= MaxRequests
        /\ \A r \in DOMAIN w.requests :
               /\ w.requests[r].length \in Nat \ {0}
               /\ w.requests[r].truncate \in Nat \ {0}
               /\ w.requests[r].max_new_tokens \in Nat \ {0}
               /\ w.requests[r].images \in Nat
               /\ w.kind = "flash" =>
                      /\ w.requests[r].cache_len \in 0 .. w.requests[r].length - 1
                      /\ w.requests[r].cache_len < w.requests[r].truncate
                      /\ w.requests[r].slots \in Seq(Nat)

ASSUME BoundsAssumption == MaxPrefill \in Nat \ {0} /\ MaxRequests \in Nat

Causal == INSTANCE CausalBatch
Seq2Seq == INSTANCE Seq2SeqBatch
Mamba == INSTANCE MambaBatch
Flash == INSTANCE FlashBatch

reqs == workload.requests
Requests == DOMAIN reqs

-----------------------------------------------------------------------------
(* The batch class of the model served (Model.batch_type). *)

FromPb(pb, chunk) ==
    CASE workload.kind = "flash"   -> Flash!FromPb(reqs, pb, chunk)
      [] workload.kind = "seq2seq" -> Seq2Seq!FromPb(reqs, pb)
      [] workload.kind = "mamba"   -> Mamba!FromPb(reqs, pb)
      [] OTHER                     -> Causal!FromPb(reqs, pb)

FilterBatch(b, ids) ==
    CASE workload.kind = "flash"   -> Flash!Filter(reqs, b, ids)
      [] workload.kind = "seq2seq" -> Seq2Seq!Filter(reqs, b, ids)
      [] workload.kind = "mamba"   -> Mamba!Filter(reqs, b, ids)
      [] OTHER                     -> Causal!Filter(reqs, b, ids)

ConcatenateFits(bs) ==
    CASE workload.kind = "flash"   -> TRUE
      [] workload.kind = "seq2seq" -> Seq2Seq!ConcatenateFits(bs)
      [] workload.kind = "mamba"   -> Mamba!ConcatenateFits(bs)
      [] OTHER                     -> Causal!ConcatenateFits(bs)

Concatenate(bs) ==
    CASE workload.kind = "flash"   -> Flash!Concatenate(bs)
      [] workload.kind = "seq2seq" -> Seq2Seq!Concatenate(bs)
      [] workload.kind = "mamba"   -> Mamba!Concatenate(bs)
      [] OTHER                     -> Causal!Concatenate(bs)

ForwardFits(b) ==
    CASE workload.kind = "flash"   -> Flash!ForwardFits(b)
      [] workload.kind = "seq2seq" -> Seq2Seq!ForwardFits(b)
      [] workload.kind = "mamba"   -> TRUE
      [] OTHER                     -> Causal!ForwardFits(b)

GenerateToken(b) ==
    CASE workload.kind = "seq2seq" -> Seq2Seq!GenerateToken(reqs, b)
      [] workload.kind = "mamba"   -> Mamba!GenerateToken(reqs, b)
      [] OTHER -> Causal!GenerateToken(reqs, b, workload.kind = "idefics")

GeneratedText(row) ==
    CASE workload.kind = "flash"   -> Flash!GeneratedText(row)
      [] workload.kind = "seq2seq" -> Seq2Seq!GeneratedText(row)
      [] workload.kind = "mamba"   -> Mamba!GeneratedText(row)
      [] OTHER                     -> Causal!GeneratedText(row)

HeldTokens(b) ==
    CASE workload.kind = "flash"   -> Flash!CachedTokens(b)
      [] workload.kind = "seq2seq" -> Seq2Seq!PaddedTokens(b)
      [] workload.kind = "mamba"   -> Mamba!PaddedTokens(b)
      [] OTHER                     -> Causal!PaddedTokens(b)

-----------------------------------------------------------------------------
Init ==
    /\ workload \in Workloads
    /\ arrived = 0
    /\ cache = <<>>
    /\ kv = IF workload.kind = "flash"
            THEN Flash!Warm(reqs, workload.speculate) ELSE [s \in {} |-> <<>>]
    /\ status = "ok"
    /\ sent = [r \in Requests |-> <<>>]
    /\ texts = [r \in {} |-> <<>>]
    /\ gone = {}

RequestIds(b) == [k \in DOMAIN b.rows |-> b.rows[k].request]
Served(b) == {b.rows[k].request : k \in DOMAIN b.rows}
RowOf(b, r) == b.rows[CHOOSE k \in DOMAIN b.rows : b.rows[k].request = r]
Ended(r) == r \in DOMAIN texts \/ r \in gone
Filtered == \A c \in DOMAIN cache : \A r \in Served(cache[c]) : ~Ended(r)

\* What the environment decides of one forward of batch b.
Guesses(b) == IF workload.kind = "flash" THEN b.guesses ELSE 0
Lucks(b) ==
    {luck \in [Served(b) -> [hits : 0 .. Guesses(b), eos : 0 .. Guesses(b) + 1]] :
        \A r \in Served(b) :
            /\ luck[r].eos <= luck[r].hits + 1
            /\ RowOf(b, r).generated + luck[r].eos < reqs[r].max_new_tokens}

\* generate_token of the padded models, one token for every row.
PaddedOutcome(b, luck) ==
    LET after == GenerateToken(b)
        eos == {r \in Served(b) : luck[r].eos = 1}
    IN  [batch |-> after,
         kv |-> kv,
         outcomes |-> Causal!ForEach([k \in DOMAIN b.rows |-> k], LAMBDA k :
                          [row    |-> after.rows[k],
                           tokens |-> <<after.rows[k].input[1]>>,
                           stops  |-> Causal!Stops(reqs, b.rows[k], eos)])]

Outcome(b, luck) ==
    IF workload.kind = "flash" THEN Flash!GenerateToken(reqs, b, kv, luck, workload)
    ELSE PaddedOutcome(b, luck)

\* One forward of batch b and what comes of it: rows stream tokens, a row that
\* stops has a text, and the batch is cached again unless every row stopped.
Generate(b, others) ==
    \E luck \in Lucks(b) : \E out \in {Outcome(b, luck)} :
        LET of(r) == out.outcomes[CHOOSE k \in DOMAIN b.rows : b.rows[k].request = r]
            stopped == {r \in Served(b) : of(r).stops}
        IN  /\ sent' = [r \in Requests |->
                   IF r \in Served(b) THEN sent[r] \o of(r).tokens ELSE sent[r]]
            /\ texts' = [r \in DOMAIN texts \cup stopped |->
                   IF r \in stopped THEN GeneratedText(of(r).row) ELSE texts[r]]
            /\ cache' = IF stopped = Served(b) THEN others ELSE Append(others, out.batch)
            /\ kv' = out.kv

Fail == /\ status' = "error"
        /\ cache' = <<>>        \* the error handling clears the cache
        /\ UNCHANGED <<kv, sent, texts>>

\* What the router lets the last of n new requests prefill: with chunking, what
\* the batch being served and the requests before it leave of the budget.
PostfixLength(r) == Flash!PromptLength(reqs, r) - reqs[r].cache_len
ChunkLen(n) ==
    LET current == IF cache = <<>> THEN 0
                   ELSE Flash!SumOver(cache[1].rows, LAMBDA row : Len(row.input))
        before == Flash!SumOver([k \in 1 .. n - 1 |-> arrived + k], PostfixLength)
        budget == workload.max_prefill_tokens - current - before
        whole == PostfixLength(arrived + n)
    IN  IF workload.chunking THEN Flash!Smaller(whole, budget) ELSE whole

\* Prefill: a new batch, while at most one is cached.  With chunking the cached
\* batch joins it.
CanPrefill ==
    /\ status = "ok" /\ Filtered /\ Len(cache) <= 1
    /\ arrived < Len(reqs)
    /\ workload.chunking => ChunkLen(1) > 0

Prefill ==
    /\ CanPrefill
    /\ \E n \in 1 .. MaxPrefill :
          /\ arrived + n \in Requests
          /\ workload.chunking => ChunkLen(n) > 0
          /\ arrived' = arrived + n
          /\ \E b \in {FromPb([k \in 1 .. n |-> arrived + k],
                             IF workload.kind = "flash" THEN ChunkLen(n) ELSE 0)} :
             \E all \in {IF workload.chunking /\ cache # <<>>
                         THEN Concatenate(Append(cache, b)) ELSE b} :
                IF ForwardFits(all)
                THEN /\ Generate(all, IF workload.chunking THEN <<>> ELSE cache)
                     /\ UNCHANGED status
                ELSE Fail
    /\ UNCHANGED <<workload, gone>>

\* FilterBatch: keep the rows of the requests still served, in their order; the
\* router clears the batch itself when there are none.
CanFilter == status = "ok" /\ ~Filtered

Filter ==
    /\ CanFilter
    /\ \E c \in DOMAIN cache :
          LET ids == SelectSeq(RequestIds(cache[c]), LAMBDA r : ~Ended(r))
          IN  /\ Len(ids) < Len(cache[c].rows)
              /\ cache' = IF ids = <<>>
                          THEN SubSeq(cache, 1, c - 1)
                                   \o SubSeq(cache, c + 1, Len(cache))
                          ELSE [cache EXCEPT ![c] = FilterBatch(@, ids)]
    /\ UNCHANGED <<workload, arrived, kv, status, sent, texts, gone>>

\* Decode: the cached batch, or the cached batches concatenated.
\* Mutant: a batch that still prefills waits for the next prefill.
CanDecodeOncePrefilled ==
    /\ status = "ok" /\ Filtered /\ cache # <<>>
    /\ workload.kind = "flash" => ~cache[1].prefilling

CanDecode == status = "ok" /\ Filtered /\ cache # <<>>

Decode ==
    /\ CanDecode
    /\ \E b \in {IF Len(cache) > 1 THEN Concatenate(cache) ELSE cache[1]} :
          IF (Len(cache) > 1 => ConcatenateFits(cache)) /\ ForwardFits(b)
          THEN Generate(b, <<>>) /\ UNCHANGED status
          ELSE Fail
    /\ UNCHANGED <<workload, arrived, gone>>

\* A client leaves before its last token: the router drops the request.
Disconnect ==
    /\ status = "ok"
    /\ \E c \in DOMAIN cache : \E r \in Served(cache[c]) :
          /\ ~Ended(r)
          /\ gone' = gone \cup {r}
    /\ UNCHANGED <<workload, arrived, cache, kv, status, sent, texts>>

Next == Prefill \/ Filter \/ Decode \/ Disconnect

\* The router's batching task keeps calling while there is something to do:
\* weak fairness of its three calls together, with the condition under which one
\* of them is enabled written out.  Clients need not leave.
RouterCanCall == CanPrefill \/ CanFilter \/ CanDecode
RouterIsFair ==
    \/ []<>~RouterCanCall
    \/ []<><<Prefill \/ Filter \/ Decode>>_vars

Spec == Init /\ [][Next]_vars /\ RouterIsFair

-----------------------------------------------------------------------------
\* Batching is invisible: whatever requests shared its batches, whatever was
\* filtered or concatenated around it, a request is streamed exactly the tokens
\* it would get if served alone, and its final text is made of those tokens.
SameAsAlone ==
    \A r \in Requests :
        /\ sent[r] = [i \in 1 .. Len(sent[r]) |-> <<r, reqs[r].length + i>>]
        /\ r \in DOMAIN texts => texts[r] = sent[r]

\* No sequence of prefills, filters and concatenations gives torch tensors whose
\* widths disagree.
NoShapeError == status = "ok"

\* max_tokens, "maximum number of tokens this batch will grow to", which the
\* router subtracts from its budget before it admits more requests: a batch with
\* its padding never outgrows it.  Not so for the encoder-decoder models, whose
\* filter counts only what the last kept request may still decode.
GrowsWithinMaxTokens ==
    workload.kind # "seq2seq" =>
        \A c \in DOMAIN cache : HeldTokens(cache[c]) <= cache[c].max_tokens

\* The logprobs of a prompt: whatever the chunks it was prefilled in and whoever
\* shared the passes, each prompt token has the logprob that the logits of the
\* token before it give, and those of the cached prefix have none.
PrefillLogprobsRight ==
    workload.kind = "flash" =>
        \A c \in DOMAIN cache : \A k \in DOMAIN cache[c].rows :
            LET row == cache[c].rows[k]
            IN  row.logprobs # <<>> => row.logprobs = Flash!LogprobsOf(reqs, row)

\* Every request ends: it gets its final text, of at most max_new_tokens tokens,
\* or its client has left.
EveryRequestEnds ==
    \A r \in 1 .. MaxRequests : <>(r \in Requests =>
        \/ r \in gone
        \/ r \in DOMAIN texts /\ Len(texts[r]) \in 1 .. reqs[r].max_new_tokens)
=============================================================================
