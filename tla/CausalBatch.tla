----------------------------- MODULE CausalBatch -----------------------------
(***************************************************************************)
(* CausalLMBatch and CausalLM.generate_token (models/causal_lm.py), and    *)
(* their copies for IDEFICS (models/idefics_causal_lm.py), which also      *)
(* carry images.  Each operator is the whole method; *Fits says whether    *)
(* torch accepts the shapes.                                               *)
(*                                                                         *)
(* A row holds what the batch's tensors hold for one request: the columns  *)
(* of attention_mask, past_key_values and input_ids, the last position id, *)
(* all_input_ids, input_length, current_tokens and, for IDEFICS, the       *)
(* columns of image_attention_mask (the images each column may attend to), *)
(* pixel_values and image_hidden_states (<<>> is None).                    *)
(***************************************************************************)
EXTENDS PaddedRows

Images(reqs, r, width) ==
    [n \in 1 .. width |-> IF n <= reqs[r].images THEN <<r, n>> ELSE Pad]

FromPb(reqs, pb) ==
    LET inputs == Tokenized(reqs, pb)
        max_input_length == MaxOver(inputs, Len)
        new(r) == reqs[r].max_new_tokens
        padding_right_offset == MaxOver(pb, new)
        max_num_images == Larger(1, MaxOver(pb, LAMBDA r : reqs[r].images))
        Row(r, input) ==
            LET pad == max_input_length - Len(input)
                last_image == {reqs[r].images} \ {0}
            IN  [request   |-> r,
                 input     |-> PaddedLeft(Pad, input, max_input_length),
                 mask      |-> Repeat(0, pad) \o Repeat(1, Len(input))
                                   \o Repeat(0, padding_right_offset),
                 image_mask |-> Repeat({}, pad) \o Repeat(last_image, Len(input))
                                   \o Repeat({}, padding_right_offset),
                 pixels    |-> Images(reqs, r, max_num_images),
                 hidden    |-> <<>>,
                 past      |-> <<>>,
                 position  |-> Len(input) - 1,
                 all       |-> PaddedLeft(Pad, input, max_input_length),
                 length    |-> Len(input),
                 generated |-> 0]
    IN  [rows |-> ForEach([k \in DOMAIN pb |-> k], LAMBDA k : Row(pb[k], inputs[k])),
         index |-> IndexOf(pb),
         max_input_length |-> max_input_length,
         padding_right_offset |-> padding_right_offset,
         max_tokens |-> Len(pb) * (max_input_length + SumOver(pb, new))]

\* Mutant: the keys and values keep the padding of the rows that left.
FilterRowKeepsPast(b, row, max_input_length, padding_right_offset) ==
    LET first == -(b.padding_right_offset + max_input_length)
        last  == Len(row.mask) - b.padding_right_offset + padding_right_offset
    IN  [row EXCEPT !.mask = Slice(@, first, last),
                    !.image_mask = Slice(@, first, last)]

FilterRow(b, row, max_input_length, padding_right_offset) ==
    LET first == -(b.padding_right_offset + max_input_length)
        last  == Len(row.mask) - b.padding_right_offset + padding_right_offset
    IN  [row EXCEPT !.mask = Slice(@, first, last),
                    !.image_mask = Slice(@, first, last),
                    !.past = SliceFrom(@, -(max_input_length - 1))]

\* Mutant: max_tokens adds what the last request has left, not what all have.
FilterCountsLast(reqs, b, ids) ==
    LET kept == Kept(b, ids)
        max_input_length == MaxOver(kept, LAMBDA row : row.length)
        padding_right_offset == MaxOver(kept, LAMBDA row : Remaining(reqs, row))
    IN  IF Len(ids) = Len(b.rows) THEN b
        ELSE [rows |-> ForEach(kept, LAMBDA row :
                 FilterRow(b, row, max_input_length, padding_right_offset)),
              index |-> IndexOf(ids),
              max_input_length |-> max_input_length,
              padding_right_offset |-> padding_right_offset,
              max_tokens |-> Len(ids) * max_input_length
                                 + Remaining(reqs, kept[Len(kept)])]

Filter(reqs, b, ids) ==
    LET kept == Kept(b, ids)
        max_input_length == MaxOver(kept, LAMBDA row : row.length)
        remaining(row) == Remaining(reqs, row)
        padding_right_offset == MaxOver(kept, remaining)
    IN  IF Len(ids) = Len(b.rows) THEN b
        ELSE [rows |-> ForEach(kept, LAMBDA row :
                 FilterRow(b, row, max_input_length, padding_right_offset)),
              index |-> IndexOf(ids),
              max_input_length |-> max_input_length,
              padding_right_offset |-> padding_right_offset,
              max_tokens |-> Len(ids) * max_input_length
                                 + SumOver(kept, remaining)]

-----------------------------------------------------------------------------
(* concatenate: the masks lose the padding of previous steps and their     *)
(* unused space, then are copied next to each other on a common right edge.*)

\* Mutant: the mask is cut on its left edge, where the padding is.
MaskPartFromTheLeft(b, mask) == Slice(mask, 0, b.max_input_length)

MaskPart(b, mask) ==
    Slice(mask, Len(mask) - b.max_input_length - b.padding_right_offset,
          -b.padding_right_offset)

PastPart(b, row) == SliceFrom(row.past, -(b.max_input_length - 1))

ConcatenateFits(bs) ==
    LET max_input_length == MaxOver(bs, LAMBDA b : b.max_input_length)
        padding_right_offset == MaxOver(bs, LAMBDA b : b.padding_right_offset)
        zeros == Repeat(0, max_input_length + padding_right_offset)
        past == Repeat(Pad, max_input_length - 1)
    IN  \A b \in ToSet(bs) : \A k \in DOMAIN b.rows :
            /\ Assignable(zeros, max_input_length - b.max_input_length,
                          -padding_right_offset, MaskPart(b, b.rows[k].mask))
            /\ Assignable(past, -(b.max_input_length - 1), Len(past),
                          PastPart(b, b.rows[k]))

Concatenate(bs) ==
    LET max_input_length == MaxOver(bs, LAMBDA b : b.max_input_length)
        padding_right_offset == MaxOver(bs, LAMBDA b : b.padding_right_offset)
        max_num_images == MaxOver(bs, LAMBDA b : Len(b.rows[1].pixels))
        width == max_input_length + padding_right_offset
        Shifted(b, empty, mask) ==
            Assigned(Repeat(empty, width), max_input_length - b.max_input_length,
                     -padding_right_offset, MaskPart(b, mask))
        Row(b, row) ==
            [row EXCEPT
                !.mask = Shifted(b, 0, @),
                !.image_mask = Shifted(b, {}, @),
                !.pixels = @ \o Repeat(Pad, max_num_images - Len(@)),
                !.hidden = <<>>,
                !.past = Assigned(Repeat(Pad, max_input_length - 1),
                                  -(b.max_input_length - 1), max_input_length - 1,
                                  PastPart(b, row))]
        Rows(b) == ForEach(b.rows, LAMBDA row : Row(b, row))
        padded(b) == b.max_tokens
                         + (max_input_length - b.max_input_length) * Len(b.rows)
    IN  [rows |-> FlattenSeq(ForEach(bs, Rows)),
         index |-> ConcatIndex(bs),
         max_input_length |-> max_input_length,
         padding_right_offset |-> padding_right_offset,
         max_tokens |-> SumOver(bs, padded)]

-----------------------------------------------------------------------------
(* generate_token *)

AttentionMask(b, row) == Slice(row.mask, 0, -b.padding_right_offset)

ForwardFits(b) ==
    \A k \in DOMAIN b.rows :
        Len(AttentionMask(b, b.rows[k])) = Len(b.rows[k].past) + Len(b.rows[k].input)

\* The images the newest column of a row attends to.  Pure language mode
\* (no_images) is only looked for while the images are not encoded yet; a row
\* whose mask hides every image otherwise attends evenly to all it carries.
SeenImages(b, row) ==
    LET encoded   == row.hidden # <<>>
        no_images == /\ ~encoded
                     /\ \A k \in DOMAIN b.rows : ToSet(b.rows[k].pixels) = {Pad}
        hidden    == IF encoded THEN row.hidden ELSE row.pixels
        column    == row.image_mask[Index(row.image_mask, -(b.padding_right_offset + 1))]
    IN  CASE no_images   -> {}
          [] column = {} -> ToSet(hidden)
          [] OTHER       -> {hidden[n] : n \in column}

SeesItself(reqs, b, row, multimodal) ==
    /\ Attended(row.past \o row.input, AttentionMask(b, row))
           = Alone(reqs, row.request, row.generated)
    /\ row.position = Len(Alone(reqs, row.request, row.generated)) - 1
    /\ multimodal => SeenImages(b, row) =
           {<<row.request, n>> : n \in {reqs[row.request].images} \ {0}}

AfterToken(b, row, next) ==
    LET column == Index(row.mask, -b.padding_right_offset)
    IN  [row EXCEPT
            !.input = <<next>>,
            !.mask = [@ EXCEPT ![column] = 1],
            !.image_mask = [@ EXCEPT ![column] =
                row.image_mask[Index(row.image_mask, -(b.padding_right_offset + 1))]],
            !.hidden = IF @ = <<>> THEN row.pixels ELSE @,
            !.past = row.past \o row.input,
            !.position = @ + 1,
            !.all = Append(@, next),
            !.length = @ + 1,
            !.generated = @ + 1]

GenerateToken(reqs, b, multimodal) ==
    LET next(row) == NextToken(reqs, row.request, row.generated,
                               SeesItself(reqs, b, row, multimodal))
    IN  [b EXCEPT
            !.rows = ForEach(@, LAMBDA row : AfterToken(b, row, next(row))),
            !.max_input_length = Larger(@, MaxOver(b.rows, LAMBDA row : row.length + 1)),
            !.padding_right_offset = @ - 1]

\* The text of a finished generation: the last current_tokens of all_input_ids.
GeneratedText(row) == SliceFrom(row.all, Len(row.all) - row.generated)

\* What the batch occupies: its rows, padded to the longest.
PaddedTokens(b) == Len(b.rows) * b.max_input_length
=============================================================================
