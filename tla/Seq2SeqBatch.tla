----------------------------- MODULE Seq2SeqBatch -----------------------------
(***************************************************************************)
(* Seq2SeqLMBatch and Seq2SeqLM.generate_token (models/seq2seq_lm.py): the *)
(* prompt goes to an encoder, the decoder starts from one bos token.       *)
(*                                                                         *)
(* A row holds the columns of attention_mask, of encoder_last_hidden_state *)
(* together with the cross-attention keys and values (encoder), of         *)
(* decoder_attention_mask (mask, <<>> while it is None), of the decoder's  *)
(* past_key_values and decoder_input_ids, and the row's lengths.           *)
(***************************************************************************)
EXTENDS PaddedRows

Bos(r) == <<r, 0>>

FromPb(reqs, pb) ==
    LET inputs == Tokenized(reqs, pb)
        max_input_length == MaxOver(inputs, Len)
        new(r) == reqs[r].max_new_tokens
        Row(r, input) ==
            [request   |-> r,
             source    |-> PaddedLeft(Pad, input, max_input_length),
             attention_mask |-> PaddedLeft(0, Repeat(1, Len(input)), max_input_length),
             encoder   |-> <<>>,
             mask      |-> <<>>,
             past      |-> <<>>,
             input     |-> <<Bos(r)>>,
             all       |-> <<Bos(r)>>,
             length    |-> Len(input),
             decoder_length |-> 1,
             generated |-> 0]
    IN  [rows |-> ForEach([k \in DOMAIN pb |-> k], LAMBDA k : Row(pb[k], inputs[k])),
         index |-> IndexOf(pb),
         max_input_length |-> max_input_length,
         max_decoder_input_length |-> 1,
         padding_right_offset |-> MaxOver(pb, new),
         max_tokens |-> Len(pb) * (max_input_length + SumOver(pb, new))]

FilterRow(b, row, max_input_length, max_decoder_input_length, padding_right_offset) ==
    [row EXCEPT
        !.attention_mask = SliceFrom(@, -max_input_length),
        !.encoder = SliceFrom(@, -max_input_length),
        !.mask = IF @ = <<>> THEN @
                 ELSE Slice(@, -(b.padding_right_offset + max_decoder_input_length),
                            Len(@) - b.padding_right_offset + padding_right_offset),
        !.past = SliceFrom(@, -(max_decoder_input_length - 1))]

\* max_tokens adds remaining_decode_tokens, the loop variable: what is left of
\* the last request kept.
Filter(reqs, b, ids) ==
    LET kept == Kept(b, ids)
        max_input_length == MaxOver(kept, LAMBDA row : row.length)
        max_decoder_input_length == MaxOver(kept, LAMBDA row : row.decoder_length)
        padding_right_offset == MaxOver(kept, LAMBDA row : Remaining(reqs, row))
    IN  IF Len(ids) = Len(b.rows) THEN b
        ELSE [rows |-> ForEach(kept, LAMBDA row :
                 FilterRow(b, row, max_input_length, max_decoder_input_length,
                           padding_right_offset)),
              index |-> IndexOf(ids),
              max_input_length |-> max_input_length,
              max_decoder_input_length |-> max_decoder_input_length,
              padding_right_offset |-> padding_right_offset,
              max_tokens |->
                  Len(ids) * (max_input_length + max_decoder_input_length)
                      + Remaining(reqs, kept[Len(kept)])]

-----------------------------------------------------------------------------
\* A decoder mask that does not exist yet hides nothing: ones, broadcast.
MaskPart(b, mask) ==
    IF mask = <<>> THEN <<1>>
    ELSE Slice(mask,
               Len(mask) - b.max_decoder_input_length - b.padding_right_offset,
               -b.padding_right_offset)

PastPart(b, row) == SliceFrom(row.past, -(b.max_decoder_input_length - 1))

ConcatenateFits(bs) ==
    LET max_input_length == MaxOver(bs, LAMBDA b : b.max_input_length)
        max_decoder == MaxOver(bs, LAMBDA b : b.max_decoder_input_length)
        padding_right_offset == MaxOver(bs, LAMBDA b : b.padding_right_offset)
        zeros == Repeat(0, max_decoder + padding_right_offset)
        source == Repeat(Pad, max_input_length)
        past == Repeat(Pad, max_decoder - 1)
    IN  \A b \in ToSet(bs) : \A k \in DOMAIN b.rows :
            /\ Assignable(zeros, max_decoder - b.max_decoder_input_length,
                          -padding_right_offset, MaskPart(b, b.rows[k].mask))
            /\ Assignable(source, -b.max_input_length, max_input_length,
                          SliceFrom(b.rows[k].attention_mask, -b.max_input_length))
            /\ Assignable(source, -b.max_input_length, max_input_length,
                          SliceFrom(b.rows[k].encoder, -b.max_input_length))
            /\ Assignable(past, -(b.max_decoder_input_length - 1), Len(past),
                          PastPart(b, b.rows[k]))

Concatenate(bs) ==
    LET max_input_length == MaxOver(bs, LAMBDA b : b.max_input_length)
        max_decoder == MaxOver(bs, LAMBDA b : b.max_decoder_input_length)
        padding_right_offset == MaxOver(bs, LAMBDA b : b.padding_right_offset)
        OnTheRight(b, empty, cells) ==
            Assigned(Repeat(empty, max_input_length), -b.max_input_length,
                     max_input_length, SliceFrom(cells, -b.max_input_length))
        Row(b, row) ==
            [row EXCEPT
                !.attention_mask = OnTheRight(b, 0, @),
                !.encoder = OnTheRight(b, Pad, @),
                !.mask = Assigned(Repeat(0, max_decoder + padding_right_offset),
                                  max_decoder - b.max_decoder_input_length,
                                  -padding_right_offset, MaskPart(b, @)),
                !.past = Assigned(Repeat(Pad, max_decoder - 1),
                                  -(b.max_decoder_input_length - 1), max_decoder - 1,
                                  PastPart(b, row))]
        Rows(b) == ForEach(b.rows, LAMBDA row : Row(b, row))
        padded(b) ==
            b.max_tokens + (max_input_length - b.max_input_length
                + max_decoder - b.max_decoder_input_length) * Len(b.rows)
    IN  [rows |-> FlattenSeq(ForEach(bs, Rows)),
         index |-> ConcatIndex(bs),
         max_input_length |-> max_input_length,
         max_decoder_input_length |-> max_decoder,
         padding_right_offset |-> padding_right_offset,
         max_tokens |-> SumOver(bs, padded)]

-----------------------------------------------------------------------------
DecoderMask(b, row) ==
    IF row.mask = <<>> THEN Repeat(1, Len(row.past) + 1)
    ELSE Slice(row.mask, 0, -b.padding_right_offset)

\* The encoder runs once, on the prompt; afterwards its output is passed back.
Encoded(row) == IF row.encoder = <<>> THEN row.source ELSE row.encoder

ForwardFits(b) ==
    \A k \in DOMAIN b.rows :
        LET row == b.rows[k]
        IN  /\ Len(DecoderMask(b, row)) = Len(row.past) + 1
            /\ Len(row.attention_mask) = Len(Encoded(row))

SeesItself(reqs, b, row) ==
    /\ Attended(Encoded(row), row.attention_mask) = Alone(reqs, row.request, 0)
    /\ Attended(row.past \o row.input, DecoderMask(b, row))
           = <<Bos(row.request)>> \o [i \in 1 .. row.generated |->
                                         <<row.request, reqs[row.request].length + i>>]

AfterToken(b, row, next) ==
    [row EXCEPT
        !.source = <<>>,
        !.encoder = Encoded(row),
        !.mask = IF @ = <<>> THEN @
                 ELSE [@ EXCEPT ![Index(@, -b.padding_right_offset)] = 1],
        !.past = row.past \o row.input,
        !.input = <<next>>,
        !.all = Append(@, next),
        !.decoder_length = @ + 1,
        !.generated = @ + 1]

GenerateToken(reqs, b) ==
    LET next(row) == NextToken(reqs, row.request, row.generated,
                               SeesItself(reqs, b, row))
    IN  [b EXCEPT
            !.rows = ForEach(@, LAMBDA row : AfterToken(b, row, next(row))),
            !.max_input_length = Larger(@, MaxOver(b.rows, LAMBDA row : row.length)),
            !.max_decoder_input_length =
                Larger(@, MaxOver(b.rows, LAMBDA row : row.decoder_length + 1)),
            !.padding_right_offset = @ - 1]

\* The text is cut by the decoder length before this token: all but the bos.
GeneratedText(row) == SliceFrom(row.all, Len(row.all) - (row.decoder_length - 1))

\* The cached keys and values: those of the encoder and those of the decoder.
PaddedTokens(b) == Len(b.rows) * (Len(b.rows[1].encoder) + Len(b.rows[1].past))
=============================================================================
