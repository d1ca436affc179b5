------------------------------ MODULE FlashBatch ------------------------------
(***************************************************************************)
(* FlashCausalLMBatch and FlashCausalLM.generate_token                     *)
(* (models/flash_causal_lm.py): batches without padding, whose keys and    *)
(* values live in the slots the router gave each request, with prefill in  *)
(* chunks, cached prefixes, speculation, adapters and prefill logprobs.    *)
(*                                                                         *)
(* `kv` maps a physical slot to the token whose keys and values it holds.  *)
(* A block holds one slot, so a row's block table is its list of slots.    *)
(* Fields the code keeps twice, as a list and as a tensor, are kept twice  *)
(* (cache_length and cache_tensor).  Tensors that are None while a batch   *)
(* prefills keep an old value here, which nothing reads.                   *)
(***************************************************************************)
EXTENDS PaddedRows

\* The tokens of a conversation.  The prefix that the router found in its cache
\* is shared by every request that has one.
Conversation(reqs, r, generated) ==
    LET own == Alone(reqs, r, generated)
    IN  [i \in DOMAIN own |-> IF i <= reqs[r].cache_len THEN <<-1, i>> ELSE own[i]]

PromptLength(reqs, r) == Smaller(reqs[r].length, reqs[r].truncate)

\* The slots before the first call: earlier requests left the shared prefix.
Warm(reqs, speculate) ==
    LET last == Max(UNION {ToSet(reqs[r].slots) : r \in DOMAIN reqs}) + speculate
        holds(s, r, i) == i <= reqs[r].cache_len /\ reqs[r].slots[i] = s
    IN  [s \in 0 .. last |->
            IF \E r \in DOMAIN reqs : \E i \in DOMAIN reqs[r].slots : holds(s, r, i)
            THEN <<-1, CHOOSE i \in 1 .. last + 1 :
                           \E r \in DOMAIN reqs : i \in DOMAIN reqs[r].slots /\ holds(s, r, i)>>
            ELSE Pad]

\* <<0, s[1], s[1] + s[2], ...>>
Cumulative(s) == FoldLeft(LAMBDA acc, x : Append(acc, Last(acc) + x), <<0>>, s)

CurrentLength(row) == row.cache_length + row.input_length
LongestInput(rows) == MaxOver(rows, LAMBDA row : row.input_length)
LongestCurrent(rows) == MaxOver(rows, CurrentLength)

-----------------------------------------------------------------------------
(* utils/segments.py: runs of tokens that use the same adapter.             *)

FindSegments(adapters) ==
    LET ends == SelectSeq([i \in DOMAIN adapters |-> i], LAMBDA i :
                    i = Len(adapters) \/ adapters[i + 1] # adapters[i])
    IN  [segments |-> <<0>> \o ends, indices |-> ForEach(ends, LAMBDA i : adapters[i])]

\* Mutant: the segments of the second batch are not offset.
SegmentConcatUnshifted(a, b) ==
    [segments |-> a.segments \o Tail(b.segments), indices |-> a.indices \o b.indices]

SegmentConcat(a, b) ==
    LET shifted == ForEach(Tail(b.segments), LAMBDA i : i + Last(a.segments))
    IN  IF Last(a.indices) = Head(b.indices)
        THEN [segments |-> Front(a.segments) \o shifted,
              indices |-> a.indices \o Tail(b.indices)]
        ELSE [segments |-> a.segments \o shifted, indices |-> a.indices \o b.indices]

\* The adapter of the i-th token of a pass that feeds `width` tokens for each
\* one the segments count.
AdapterAt(meta, i, width) ==
    LET s == {n \in DOMAIN meta.indices : meta.segments[n] * width < i
                                              /\ i <= meta.segments[n + 1] * width}
    IN  IF s = {} THEN 0 ELSE meta.indices[CHOOSE n \in s : TRUE]

-----------------------------------------------------------------------------
(* from_pb, filter and concatenate.  `chunk` is how much of its prompt the  *)
(* last request of the batch prefills now: the router's chunk_len.          *)

FromPb(reqs, pb, chunk) ==
    LET Row(k) ==
            LET r == pb[k]
                prompt == Conversation(reqs, r, 0)
                n == IF k = Len(pb) THEN chunk ELSE Len(prompt) - reqs[r].cache_len
            IN  [request       |-> r,
                 prompt_length |-> Len(prompt),
                 cache_length  |-> reqs[r].cache_len,
                 input_length  |-> n,
                 prefilling    |-> TRUE,
                 input         |-> SubSeq(prompt, reqs[r].cache_len + 1, reqs[r].cache_len + n),
                 all           |-> prompt,
                 generated     |-> 0,
                 table         |-> reqs[r].slots,
                 logprobs      |-> <<>>,
                 cache_tensor |-> 0, input_tensor |-> 0, position |-> 0, slot_index |-> 0]
        rows == ForEach([k \in DOMAIN pb |-> k], Row)
    IN  [rows |-> rows,
         index |-> IndexOf(pb),
         prefilling |-> TRUE,
         slots |-> FlattenSeq(ForEach(rows, LAMBDA row : row.table)),
         cu_slots |-> Cumulative(ForEach(rows, LAMBDA row : Len(row.table))),
         max_input_length |-> LongestInput(rows),
         max_current_length |-> LongestCurrent(rows),
         guesses |-> 0,
         adapters |-> [segments |-> <<0>>, indices |-> <<>>],
         max_tokens |-> SumOver(rows, LAMBDA row : Len(row.table))]

Filter(reqs, b, ids) ==
    LET indices == ForEach(ids, LAMBDA r : b.index[r])
        slots(i) == SubSeq(b.slots, b.cu_slots[i] + 1, b.cu_slots[i + 1])
        kept == ForEach(indices, slots)
        cu_slots == Cumulative(ForEach(kept, Len))
        Row(k) == IF b.prefilling THEN b.rows[indices[k]]
                  ELSE [b.rows[indices[k]] EXCEPT
                            !.slot_index = cu_slots[k] + b.rows[indices[k]].cache_length]
        rows == ForEach([k \in DOMAIN ids |-> k], Row)
    IN  IF Len(ids) = Len(b.rows) THEN b
        ELSE [b EXCEPT
                !.rows = rows,
                !.index = IndexOf(ids),
                !.slots = FlattenSeq(kept),
                !.cu_slots = cu_slots,
                !.max_input_length = LongestInput(rows),
                !.max_current_length = LongestCurrent(rows),
                !.adapters = IF b.prefilling THEN @
                             ELSE FindSegments(ForEach(ids, LAMBDA r : reqs[r].adapter)),
                !.max_tokens = SumOver(rows, LAMBDA row : Len(row.table))]

Concatenate(bs) ==
    LET prefilling == \E k \in DOMAIN bs : bs[k].prefilling
        shift(k) == SumOver(SubSeq(bs, 1, k - 1), LAMBDA b : Len(b.slots))
        numbers == [k \in DOMAIN bs |-> k]
        Rows(k) == IF prefilling THEN bs[k].rows
                   ELSE ForEach(bs[k].rows, LAMBDA row :
                            [row EXCEPT !.slot_index = @ + shift(k)])
        CuSlots(k) == ForEach(Tail(bs[k].cu_slots), LAMBDA s : s + shift(k))
    IN  [rows |-> FlattenSeq(ForEach(numbers, Rows)),
         index |-> ConcatIndex(bs),
         prefilling |-> prefilling,
         slots |-> FlattenSeq(ForEach(bs, LAMBDA b : b.slots)),
         cu_slots |-> <<0>> \o FlattenSeq(ForEach(numbers, CuSlots)),
         max_input_length |-> MaxOver(bs, LAMBDA b : b.max_input_length),
         max_current_length |-> MaxOver(bs, LAMBDA b : b.max_current_length),
         guesses |-> bs[1].guesses,
         adapters |-> IF prefilling THEN bs[1].adapters
                      ELSE FoldLeft(LAMBDA acc, b : SegmentConcat(acc, b.adapters),
                                    bs[1].adapters, Tail(bs)),
         max_tokens |-> SumOver(bs, LAMBDA b : b.max_tokens)]

-----------------------------------------------------------------------------
(* prepare_for_prefill and forward: what each row feeds to the model.       *)

WantsLogprobs(reqs, row) == reqs[row.request].logprobs /\ row.prefilling

\* The rows of the logits, as numbers of tokens of the pass, where the logits of
\* each row begin, and which of them picks its next token.
PrefillHead(reqs, b) ==
    LET wants(row) == WantsLogprobs(reqs, row)
        cu_seqlen == Cumulative(ForEach(b.rows, LAMBDA row : row.input_length))
        cu_outlens == Cumulative(ForEach(b.rows, LAMBDA row :
                                     IF wants(row) THEN row.input_length ELSE 1))
        rows == [k \in DOMAIN b.rows |-> k]
        lasts == ForEach(rows, LAMBDA k : cu_seqlen[k + 1])
        Indices(k) == IF wants(b.rows[k])
                      THEN [i \in 1 .. b.rows[k].input_length |-> cu_seqlen[k] + i]
                      ELSE << lasts[k] >>
        all  == \A k \in DOMAIN b.rows : wants(b.rows[k])
        none == \A k \in DOMAIN b.rows : ~wants(b.rows[k])
    IN  [cu_outlens |-> cu_outlens,
         head |-> CASE all   -> [i \in 1 .. Last(cu_seqlen) |-> i]
                    [] none  -> lasts
                    [] OTHER -> FlattenSeq(ForEach(rows, Indices)),
         next |-> CASE all   -> lasts
                    [] none  -> rows
                    [] OTHER -> Tail(cu_outlens)]

\* The tokens of row k, the slots they are written to, their positions and how
\* much of the block table each attends to.  Speculated tokens follow the row's
\* own, `hits` of them being what the model would generate.
Fed(reqs, b, k, hits) ==
    LET row == b.rows[k]
        guess(j) == IF j <= hits
                    THEN <<row.request, reqs[row.request].length + row.generated + j>>
                    ELSE Garbage
    IN  IF b.prefilling
        THEN LET n == [j \in 1 .. row.input_length |-> j]
             IN  [tokens    |-> row.input,
                  slots     |-> ForEach(n, LAMBDA j : b.slots[b.cu_slots[k] + row.cache_length + j]),
                  positions |-> ForEach(n, LAMBDA j : row.cache_length + j - 1),
                  lengths   |-> ForEach(n, LAMBDA j : row.cache_length + j)]
        ELSE LET n == [j \in 1 .. b.guesses + 1 |-> j]
             IN  [tokens    |-> row.input \o [j \in 1 .. b.guesses |-> guess(j)],
                  slots     |-> ForEach(n, LAMBDA j : b.slots[row.slot_index + 1] + j - 1),
                  positions |-> ForEach(n, LAMBDA j : row.position + j - 1),
                  lengths   |-> ForEach(n, LAMBDA j : row.cache_tensor + row.input_tensor + j - 1)]

\* The adapters of a pass: found in prefill, kept up to date in decode.
PassAdapters(reqs, b) ==
    IF b.prefilling
    THEN FindSegments(FlattenSeq(ForEach(b.rows, LAMBDA row :
             Repeat(reqs[row.request].adapter, row.input_length))))
    ELSE b.adapters

\* The keys and values are right if they were computed at the right position
\* with the right adapter.
Written(reqs, b, fed, kv) ==
    LET meta == PassAdapters(reqs, b)
        width == IF b.prefilling THEN 1 ELSE b.guesses + 1
        starts == Cumulative(ForEach(fed, LAMBDA f : Len(f.tokens)))
        Cell(k, j) ==
            IF /\ fed[k].positions[j] = fed[k].lengths[j] - 1
               /\ AdapterAt(meta, starts[k] + j, width) = reqs[b.rows[k].request].adapter
            THEN fed[k].tokens[j] ELSE Garbage
        Writes(k) == ForEach([j \in DOMAIN fed[k].tokens |-> j],
                             LAMBDA j : <<fed[k].slots[j], Cell(k, j)>>)
    IN  FoldLeft(LAMBDA m, w : [m EXCEPT ![w[1]] = w[2]], kv,
                 FlattenSeq(ForEach([k \in DOMAIN fed |-> k], Writes)))

ForwardFits(b) == b.prefilling => b.guesses = 0

-----------------------------------------------------------------------------
(* generate_token.  `luck` is what the environment decides for each request *)
(* of the batch: how many guesses are right, and which of the new tokens    *)
(* (0 for none) is the end of the sequence.                                 *)

\* How much of each prompt the next pass prefills, 1 for a row that decodes.
\* The rows are served from the last one back, within the budget.
NextChunks(b, max_prefill_tokens) ==
    LET Serve(acc, row) ==
            LET remaining == Larger(row.prompt_length - CurrentLength(row), 0)
                n == Larger(Smaller(remaining, acc.budget), 1)
            IN  IF remaining > 0
                THEN [budget |-> acc.budget - n, lengths |-> <<n>> \o acc.lengths]
                ELSE [acc EXCEPT !.lengths = <<1>> \o @]
    IN  FoldLeft(Serve,
                 [budget |-> max_prefill_tokens - (Len(b.rows) - 1), lengths |-> <<>>],
                 Reverse(b.rows)).lengths

StillPrefilling(b, row, server) ==
    /\ b.prefilling
    /\ server.chunking
    /\ row.prompt_length > CurrentLength(row)

\* The tokens the model gives after each token fed for row k.  The logits of a
\* prefill must be those of the row's last token.
NextIds(reqs, b, k, fed, kv, pass) ==
    LET row == b.rows[k]
        last == SumOver(SubSeq(fed, 1, k), LAMBDA f : Len(f.tokens))
        in_reach(n) == n <= b.max_current_length + b.guesses
        Right(j, n) ==
            /\ in_reach(n)
            /\ n <= Len(row.table)
            /\ [p \in 1 .. n |-> kv[row.table[p]]]
                   = Conversation(reqs, row.request, row.generated + j - 1)
    IN  IF b.prefilling
        THEN << NextToken(reqs, row.request, row.generated,
                    /\ pass.head[pass.next[k]] = last
                    /\ b.max_input_length >= row.input_length
                    /\ Right(1, Last(fed[k].lengths))) >>
        ELSE ForEach([j \in 1 .. b.guesses + 1 |-> j], LAMBDA j :
                 NextToken(reqs, row.request, row.generated + j - 1,
                           Right(j, fed[k].lengths[j])))

\* HeterogeneousNextTokenChooser: the first token is always valid, and each
\* guess that equals the token before it in next_ids makes one more.
Accepted(next_ids, guesses) ==
    Min({j \in 1 .. Len(next_ids) : j = Len(next_ids) \/ next_ids[j] # guesses[j]})

\* The accepted tokens up to the one that ends the generation.
Taken(reqs, row, accepted, eos) ==
    LET stop == {j \in 1 .. accepted :
                    row.generated + j >= reqs[row.request].max_new_tokens \/ eos = j}
    IN  [n |-> Min(stop \cup {accepted}), stops |-> stop # {}]

\* Mutant: the logprobs of the chunks before are dropped.
PrefillLogprobsOfChunk(reqs, b, k, fed, pass, still) ==
    LET row == b.rows[k]
        flat == FlattenSeq(ForEach(fed, LAMBDA f : f.tokens))
        out == [o \in 1 .. pass.cu_outlens[k + 1] - pass.cu_outlens[k] |->
                    flat[pass.head[pass.cu_outlens[k] + o]]]
        n == IF still THEN Len(out) ELSE Len(out) - 1
        chunk == [i \in 1 .. n |-> <<row.all[row.cache_length + 1 + i], out[i]>>]
        unscored == [i \in 1 .. row.cache_length + 1 |-> <<row.all[i], Pad>>]
    IN  IF ~(b.prefilling /\ WantsLogprobs(reqs, row)) THEN <<>>
        ELSE IF row.logprobs = <<>> THEN unscored \o chunk ELSE chunk

\* The logprobs of the prompt tokens of row k: each with the token whose logits
\* gave it, none (Pad) for the cached tokens and the first.
PrefillLogprobs(reqs, b, k, fed, pass, still) ==
    LET row == b.rows[k]
        flat == FlattenSeq(ForEach(fed, LAMBDA f : f.tokens))
        out == [o \in 1 .. pass.cu_outlens[k + 1] - pass.cu_outlens[k] |->
                    flat[pass.head[pass.cu_outlens[k] + o]]]
        n == IF still THEN Len(out) ELSE Len(out) - 1
        chunk == [i \in 1 .. n |-> <<row.all[row.cache_length + 1 + i], out[i]>>]
        unscored == [i \in 1 .. row.cache_length + 1 |-> <<row.all[i], Pad>>]
    IN  IF ~(b.prefilling /\ WantsLogprobs(reqs, row)) THEN <<>>
        ELSE IF row.logprobs = <<>> THEN unscored \o chunk
        ELSE row.logprobs \o chunk

\* What comes of row k: the row after the pass, the tokens it streams and whether
\* it stops.  The tensors are updated once the whole batch decodes.
Outcome(reqs, b, k, fed, written, server, luck, finished) ==
    LET row == b.rows[k]
        pass == PrefillHead(reqs, b)
        next_ids == NextIds(reqs, b, k, fed, written, pass)
        accepted == IF b.guesses = 0 THEN 1 ELSE Accepted(next_ids, Tail(fed[k].tokens))
        taken == Taken(reqs, row, accepted, luck.eos)
        tokens == SubSeq(next_ids, 1, taken.n)
        chunk == NextChunks(b, server.max_prefill_tokens)[k]
        still == StillPrefilling(b, row, server)
        Tensors(new) ==
            IF ~finished THEN new
            ELSE IF b.prefilling
            THEN [new EXCEPT !.cache_tensor = CurrentLength(row) + accepted - 1,
                             !.input_tensor = 1,
                             !.position = Last(fed[k].positions) + accepted,
                             !.slot_index = b.cu_slots[k] + CurrentLength(row) - 1 + accepted]
            ELSE [new EXCEPT !.cache_tensor = @ + row.input_tensor + accepted - 1,
                             !.input_tensor = 1,
                             !.position = @ + accepted,
                             !.slot_index = @ + accepted]
    IN  IF still
        THEN [row |-> [row EXCEPT
                        !.cache_length = CurrentLength(row),
                        !.input_length = chunk,
                        !.input = SubSeq(row.all, CurrentLength(row) + 1,
                                         CurrentLength(row) + chunk),
                        !.logprobs = PrefillLogprobs(reqs, b, k, fed, pass, TRUE)],
              tokens |-> <<>>, stops |-> FALSE]
        ELSE [row |-> Tensors([row EXCEPT
                        !.cache_length = CurrentLength(row) + accepted - 1,
                        !.input_length = 1,
                        !.prefilling = FALSE,
                        !.input = << next_ids[accepted] >>,
                        !.all = @ \o tokens,
                        !.generated = @ + taken.n,
                        !.logprobs = PrefillLogprobs(reqs, b, k, fed, pass, FALSE)]),
              tokens |-> tokens, stops |-> taken.stops]

\* The batch after a pass with these outcomes.
AfterPass(reqs, b, outcomes, server, finished) ==
    LET next == ForEach(outcomes, LAMBDA o : o.row)
        adapters == PassAdapters(reqs, b)
    IN  [b EXCEPT
            !.rows = next,
            !.prefilling = ~finished,
            !.guesses = IF finished THEN server.speculate ELSE @,
            !.adapters = IF ~(b.prefilling /\ finished) THEN adapters
                         ELSE [segments |-> FindSegments(ForEach(b.rows, LAMBDA row :
                                                reqs[row.request].adapter)).segments,
                               indices |-> adapters.indices],
            !.max_input_length = LongestInput(next),
            !.max_current_length = Larger(@, LongestCurrent(next))]

\* The whole of generate_token.
GenerateToken(reqs, b, kv, luck, server) ==
    LET rows == [k \in DOMAIN b.rows |-> k]
        finished == \A k \in DOMAIN b.rows : ~StillPrefilling(b, b.rows[k], server)
        of(k) == luck[b.rows[k].request]
        Outcomes(fed, written) == ForEach(rows, LAMBDA k :
            Outcome(reqs, b, k, fed, written, server, of(k), finished))
        Result(written, outcomes) ==
            [batch |-> AfterPass(reqs, b, outcomes, server, finished),
             kv |-> written, outcomes |-> outcomes]
    IN  With(ForEach(rows, LAMBDA k : Fed(reqs, b, k, of(k).hits)), LAMBDA fed :
            With(Written(reqs, b, fed, kv), LAMBDA written :
                With(Outcomes(fed, written), LAMBDA outcomes :
                    Result(written, outcomes))))

\* The text of a finished generation: its last current_tokens tokens.
GeneratedText(row) == SliceFrom(row.all, Len(row.all) - row.generated)

\* What the batch's requests hold in the cache.
CachedTokens(b) == SumOver(b.rows, LAMBDA row : row.cache_length)

\* The logprobs a row must carry: its prompt as far as it was fed.
LogprobsOf(reqs, row) ==
    LET prompt == Conversation(reqs, row.request, 0)
        known == IF row.prefilling THEN row.cache_length + 1 ELSE Len(prompt)
    IN  [i \in 1 .. known |->
            <<prompt[i], IF i <= reqs[row.request].cache_len + 1 THEN Pad ELSE prompt[i - 1]>>]
=============================================================================
