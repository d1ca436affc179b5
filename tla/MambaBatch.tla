------------------------------ MODULE MambaBatch ------------------------------
(***************************************************************************)
(* MambaBatch and Mamba.generate_token (models/mamba.py).  A state space   *)
(* model keeps no keys and values: a row's conv_states and ssm_states have *)
(* consumed a sequence of tokens, and there is no mask, so the padding of  *)
(* a prefill is consumed with the prompt.                                  *)
(***************************************************************************)
EXTENDS PaddedRows

FromPb(reqs, pb) ==
    LET inputs == Tokenized(reqs, pb)
        max_input_length == MaxOver(inputs, Len)
        new(r) == reqs[r].max_new_tokens
        Row(r, input) ==
            [request   |-> r,
             input     |-> PaddedLeft(Pad, input, max_input_length),
             all       |-> PaddedLeft(Pad, input, max_input_length),
             consumed  |-> <<>>,
             length    |-> Len(input),
             generated |-> 0]
    IN  [rows |-> ForEach([k \in DOMAIN pb |-> k], LAMBDA k : Row(pb[k], inputs[k])),
         index |-> IndexOf(pb),
         max_input_length |-> max_input_length,
         seqlen_offset |-> 0,
         max_tokens |-> Len(pb) * (max_input_length + SumOver(pb, new))]

Filter(reqs, b, ids) ==
    LET kept == Kept(b, ids)
        max_input_length == MaxOver(kept, LAMBDA row : row.length)
    IN  IF Len(ids) = Len(b.rows) THEN b
        ELSE [b EXCEPT
                 !.rows = kept,
                 !.index = IndexOf(ids),
                 !.max_input_length = max_input_length,
                 !.max_tokens = Len(ids) * max_input_length
                     + SumOver(kept, LAMBDA row : Remaining(reqs, row))]

\* "Invalid seqlen offset": only batches that did one step are concatenated.
ConcatenateFits(bs) == \A b \in ToSet(bs) : b.seqlen_offset # 0

Concatenate(bs) ==
    LET max_input_length == MaxOver(bs, LAMBDA b : b.max_input_length)
    IN  [rows |-> FlattenSeq(ForEach(bs, LAMBDA b : b.rows)),
         index |-> ConcatIndex(bs),
         max_input_length |-> max_input_length,
         seqlen_offset |-> MaxOver(bs, LAMBDA b : b.seqlen_offset),
         max_tokens |-> SumOver(bs, LAMBDA b : b.max_tokens
             + (max_input_length - b.max_input_length) * Len(b.rows))]

\* A step with a positive seqlen_offset continues from the states, a prefill
\* starts from nothing.
Consumed(b, row) ==
    IF b.seqlen_offset > 0 THEN row.consumed \o row.input ELSE row.input

AfterToken(b, row, next) ==
    [row EXCEPT !.consumed = Consumed(b, row),
                !.input = <<next>>,
                !.all = Append(@, next),
                !.length = @ + 1,
                !.generated = @ + 1]

GenerateToken(reqs, b) ==
    LET next(row) == NextToken(reqs, row.request, row.generated,
            Consumed(b, row) = Alone(reqs, row.request, row.generated))
    IN  [b EXCEPT
            !.rows = ForEach(@, LAMBDA row : AfterToken(b, row, next(row))),
            !.max_input_length = Larger(@, MaxOver(b.rows, LAMBDA row : row.length + 1)),
            !.seqlen_offset = @ + Len(b.rows[1].input)]

GeneratedText(row) == SliceFrom(row.all, Len(row.all) - row.generated)

PaddedTokens(b) == Len(b.rows) * b.max_input_length
=============================================================================
