------------------------------ MODULE PaddedRows ------------------------------
(***************************************************************************)
(* What the batches of the padded models are made of: requests, their      *)
(* tokens, and the rows of the tensors, sliced the way Python slices.      *)
(*                                                                         *)
(* A token is <<r, i>>: the i-th token of the conversation of request r,   *)
(* its prompt first.  Row contents are kept symbolically, so what a row    *)
(* attends to can be compared with what the request alone would attend to. *)
(***************************************************************************)
EXTENDS Integers, Sequences, SequencesExt, FiniteSetsExt

\* The padding token, and what a model that attends to anything but the
\* request's own conversation generates.
Pad == <<0, 0>>
Garbage == <<0, 1>>

Repeat(x, n) == [i \in 1 .. n |-> x]

\* Op applied to every element, as a tuple: TLC then evaluates each once.
ForEach(s, Op(_)) == SubSeq([k \in DOMAIN s |-> Op(s[k])], 1, Len(s))
\* Op of a value that TLC evaluates once.
With(v, Op(_)) == CHOOSE y \in {Op(x) : x \in {v}} : TRUE
MaxOver(s, Op(_)) == Max({Op(s[k]) : k \in DOMAIN s})
SumOver(s, Op(_)) == FoldLeft(LAMBDA acc, x : acc + Op(x), 0, s)
Smaller(a, b) == IF a <= b THEN a ELSE b
Larger(a, b) == IF a >= b THEN a ELSE b

-----------------------------------------------------------------------------
(* Python's s[i:j], s[i] and s[i:j] = src on a tensor's last dimension: a   *)
(* negative bound counts from the end, -0 is 0, bounds are clamped, and the *)
(* source must be as wide as the slice or be one column that broadcasts.    *)

Bound(n, i) == Larger(0, Smaller(n, IF i < 0 THEN n + i ELSE i))
Slice(s, i, j) == SubSeq(s, Bound(Len(s), i) + 1, Bound(Len(s), j))
SliceFrom(s, i) == Slice(s, i, Len(s))
Index(s, i) == (IF i < 0 THEN Len(s) + i ELSE i) + 1

Assignable(dst, i, j, src) ==
    Len(src) \in {1, Len(Slice(dst, i, j))}

Assigned(dst, i, j, src) ==
    LET first == Bound(Len(dst), i)
        last  == Bound(Len(dst), j)
    IN  SubSeq(dst, 1, first)
            \o (IF Len(src) = 1 THEN Repeat(src[1], last - first) ELSE src)
            \o SubSeq(dst, last + 1, Len(dst))

\* The cells of a row that its attention mask lets through.
Attended(cells, mask) ==
    LET visible == SelectSeq([i \in DOMAIN cells |-> i], LAMBDA i : mask[i] = 1)
    IN  ForEach(visible, LAMBDA i : cells[i])

-----------------------------------------------------------------------------
(* Requests: [length, truncate, max_new_tokens, images].                    *)

\* The last n tokens of the prompt: every tokenizer truncates on the left.
Prompt(reqs, r, n) ==
    [i \in 1 .. n |-> <<r, reqs[r].length - n + i>>]

\* The conversation of request r when it is served alone, once `generated`
\* tokens have been generated.
Alone(reqs, r, generated) ==
    Prompt(reqs, r, Smaller(reqs[r].length, reqs[r].truncate))
        \o [i \in 1 .. generated |-> <<r, reqs[r].length + i>>]

\* The token the model generates from a context, which it knows only if it is
\* the request's own.
NextToken(reqs, r, generated, right) ==
    IF right THEN <<r, reqs[r].length + generated + 1>> ELSE Garbage

\* Tokenization of a batch: one call of the tokenizer, truncated to the largest
\* `truncate` of the batch and padded on the left to the longest prompt.
Tokenized(reqs, pb) ==
    LET truncation == MaxOver(pb, LAMBDA r : reqs[r].truncate)
    IN  ForEach(pb, LAMBDA r : Prompt(reqs, r, Smaller(reqs[r].length, truncation)))

PaddedLeft(x, s, width) == Repeat(x, width - Len(s)) \o s

\* StoppingCriteria.__call__, the end-of-sequence token and the stop sequences
\* being the environment's choice `eos`.
Stops(reqs, row, eos) ==
    \/ row.generated + 1 >= reqs[row.request].max_new_tokens
    \/ row.request \in eos

Remaining(reqs, row) == reqs[row.request].max_new_tokens - row.generated

\* filter's keep_indices: the rows its index says the kept requests have.
Kept(b, ids) == ForEach(ids, LAMBDA r : b.rows[b.index[r]])
IndexOf(ids) ==
    [r \in ToSet(ids) |-> CHOOSE k \in DOMAIN ids : ids[k] = r]

\* concatenate's requests_idx_mapping: each batch's own, shifted by the rows of
\* the batches before it.
ConcatIndex(bs) ==
    LET shift(k) == SumOver(SubSeq(bs, 1, k - 1), LAMBDA b : Len(b.rows))
        owner(r) == CHOOSE k \in DOMAIN bs : r \in DOMAIN bs[k].index
    IN  [r \in UNION {DOMAIN bs[k].index : k \in DOMAIN bs} |->
            bs[owner(r)].index[r] + shift(owner(r))]
=============================================================================
