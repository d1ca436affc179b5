---------------------------- MODULE RequestQueue ----------------------------
(***************************************************************************)
(* The request queue of backend v3: how State::next_batch turns the        *)
(* waiting entries into a batch, as an operator on the queue.  The queue   *)
(* task serves one command at a time, so a call is atomic for its caller;  *)
(* entries appended meanwhile wait in the command channel.                 *)
(*                                                                         *)
(* The blocks of an entry come from the allocator of module BlockAllocator *)
(* and are dropped again with it, which is why only their number is kept.  *)
(* Prefix caching is off here: no part of a prompt is ever cached.         *)
(***************************************************************************)
EXTENDS Integers, Sequences, SequencesExt

CONSTANTS
    InputLength,      \* request -> prompt tokens
    MaxNewTokens,     \* request -> stopping_parameters.max_new_tokens
    BlockSize,
    Speculate,
    SupportChunking,  \* may the last entry be prefilled in part?
    RequiresPadding   \* models without paged attention: no allocator

CeilDivision(a, b) == (a + b - 1) \div b
Maximum(a, b) == IF a >= b THEN a ELSE b
Minus(a, b) == IF a >= b THEN a - b ELSE 0    \* saturating_sub

\* The members of S in s, in their order (a SelectSeq that can be unfolded).
OnlyStep(t, x, S) == IF x \in S THEN Append(t, x) ELSE t
OnlyStates(s, S) ==
    LET f[i \in 0..Len(s)] == IF i = 0 THEN <<>> ELSE OnlyStep(f[i - 1], s[i], S)
    IN  f
Only(s, S) == OnlyStates(s, S)[Len(s)]

\* What the members of s weigh together, after each number of them and in all.
Sums(weight, s) ==
    LET t[i \in 0..Len(s)] == IF i = 0 THEN 0 ELSE t[i - 1] + weight[s[i]]
    IN  t
Total(weight, s) == Sums(weight, s)[Len(s)]

\* Blocks an entry occupies from its admission to its end.
BlocksOf(r) ==
    CeilDivision(InputLength[r] + MaxNewTokens[r] + Speculate - 1, BlockSize)

\* Mutant: the entry is not pushed back.
PutBackForgets(w, r) == [w EXCEPT !.stop = TRUE]

\* The entry at hand is over budget: push_front, and stop.
PutBack(w, r) == [w EXCEPT !.rest = <<r>>, !.stop = TRUE]

\* Mutant: the padding is not counted.
ScanPaddedUnpadded(w, r) ==
    LET prefill == w.prefill + InputLength[r]
        decode == w.decode + MaxNewTokens[r]
        seen == [w EXCEPT !.prefill = prefill, !.decode = decode]
    IN  IF prefill > w.budget \/ prefill + decode + Speculate > w.tokens
        THEN PutBack(seen, r)
        ELSE [seen EXCEPT !.batch = Append(@, r)]

\* Without an allocator: every prompt is padded to the longest of the batch.
ScanPadded(w, r) ==
    LET longest == Maximum(w.longest, InputLength[r])
        prefill == (Len(w.batch) + 1) * longest
        decode == w.decode + MaxNewTokens[r]
        seen == [w EXCEPT !.longest = longest, !.prefill = prefill, !.decode = decode]
    IN  IF prefill > w.budget \/ prefill + decode + Speculate > w.tokens
        THEN PutBack(seen, r)
        ELSE [seen EXCEPT !.batch = Append(@, r)]

\* Mutant: the last entry is chunked even when nothing of it fits.
ScanPagedEmptyChunk(w, r) ==
    IF BlocksOf(r) > w.room THEN PutBack(w, r)
    ELSE IF w.prefill + InputLength[r] <= w.budget
    THEN [w EXCEPT !.batch = Append(@, r), !.room = @ - BlocksOf(r),
                   !.prefill = @ + InputLength[r]]
    ELSE IF SupportChunking
    THEN [w EXCEPT !.batch = Append(@, r), !.stop = TRUE,
                   !.chunk = Maximum(1, Minus(w.budget, w.prefill))]
    ELSE PutBack(w, r)

\* With an allocator: the blocks first, then the prefill budget.  Both ways out
\* drop the allocation together with the place in the batch.
ScanPaged(w, r) ==
    IF BlocksOf(r) > w.room THEN PutBack(w, r)
    ELSE IF w.prefill + InputLength[r] <= w.budget
    THEN [w EXCEPT !.batch = Append(@, r), !.room = @ - BlocksOf(r),
                   !.prefill = @ + InputLength[r]]
    ELSE IF SupportChunking /\ w.prefill < w.budget
    THEN [w EXCEPT !.batch = Append(@, r), !.stop = TRUE,
                   !.chunk = w.budget - w.prefill]
    ELSE PutBack(w, r)

\* Mutant: the loop ends one entry after the maximum size.
ScanOneMore(w, r, closed) ==
    IF w.stop THEN [w EXCEPT !.rest = Append(@, r)]
    ELSE IF r \in closed THEN w
    ELSE LET s == IF RequiresPadding THEN ScanPadded(w, r) ELSE ScanPaged(w, r)
         IN  [s EXCEPT !.stop = @ \/ (w.max >= 0 /\ Len(s.batch) > w.max)]

\* Mutant: the entries behind one that is put back overtake it.
ScanPushBack(w, r, closed) ==
    IF w.stop THEN [w EXCEPT !.rest = <<r>> \o @]
    ELSE IF r \in closed THEN w
    ELSE LET s == IF RequiresPadding THEN ScanPadded(w, r) ELSE ScanPaged(w, r)
         IN  [s EXCEPT !.stop = @ \/ Len(s.batch) = w.max]

\* One iteration of the entry loop.  Entries whose client is gone are dropped.
Scan(w, r, closed) ==
    IF w.stop THEN [w EXCEPT !.rest = Append(@, r)]
    ELSE IF r \in closed THEN w
    ELSE LET s == IF RequiresPadding THEN ScanPadded(w, r) ELSE ScanPaged(w, r)
         IN  [s EXCEPT !.stop = @ \/ Len(s.batch) = w.max]

NoBatch == <<>>
NoMax == 0 - 1

\* The state of the loop before its first entry.
LoopStart(max, prefillBudget, tokenBudget, room) ==
    [batch |-> <<>>, rest |-> <<>>, chunk |-> 0, longest |-> 0,
     prefill |-> 0, decode |-> 0, stop |-> FALSE, max |-> max,
     budget |-> CeilDivision(prefillBudget, BlockSize) * BlockSize,
     tokens |-> tokenBudget, room |-> room]

\* The state of the loop after each number of entries of the queue.
LoopStates(queue, closed, start) ==
    LET w[i \in 0..Len(queue)] ==
            IF i = 0 THEN start ELSE Scan(w[i - 1], queue[i], closed)
    IN  w

\* The entry loop over the whole queue.
EntryLoop(queue, closed, max, prefillBudget, tokenBudget, room) ==
    LoopStates(queue, closed,
               LoopStart(max, prefillBudget, tokenBudget, room))[Len(queue)]

\* Mutant: the entries of a batch that is too small are ditched.
DecideDitching(w, min) ==
    IF w.batch = NoBatch \/ Len(w.batch) < min
    THEN [batch |-> NoBatch, queue |-> w.rest, chunk |-> 0]
    ELSE [batch |-> w.batch, queue |-> w.rest, chunk |-> w.chunk]

\* Mutant: they go back behind the entries that wait.
DecideToTheBack(w, min) ==
    IF w.batch = NoBatch \/ Len(w.batch) < min
    THEN [batch |-> NoBatch, queue |-> w.rest \o w.batch, chunk |-> 0]
    ELSE [batch |-> w.batch, queue |-> w.rest, chunk |-> w.chunk]

\* The entries of a batch that is too small go back to the front.
Decide(w, min) ==
    IF w.batch = NoBatch \/ Len(w.batch) < min
    THEN [batch |-> NoBatch, queue |-> w.batch \o w.rest, chunk |-> 0]
    ELSE [batch |-> w.batch, queue |-> w.rest, chunk |-> w.chunk]

\* State::next_batch.  min is 0 and max is NoMax where the code passes None;
\* room is the number of free blocks.
StateNextBatch(queue, closed, min, max, prefillBudget, tokenBudget, room) ==
    IF Len(queue) < min \/ max = 0
    THEN [batch |-> NoBatch, queue |-> queue, chunk |-> 0]
    ELSE Decide(EntryLoop(queue, closed, max, prefillBudget, tokenBudget, room), min)

\* Queue::next_batch: without a budget the queue task is not asked.
NextBatch(queue, closed, min, max, prefillBudget, tokenBudget, room) ==
    IF prefillBudget = 0 \/ tokenBudget = 0
    THEN [batch |-> NoBatch, queue |-> queue, chunk |-> 0]
    ELSE StateNextBatch(queue, closed, min, max, prefillBudget, tokenBudget, room)
=============================================================================
