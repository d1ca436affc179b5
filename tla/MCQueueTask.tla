----------------------------- MODULE MCQueueTask -----------------------------
(***************************************************************************)
(* QueueTask on a small instance, for both kinds of models: with paged     *)
(* attention and chunking (the constants of the configuration), and with   *)
(* padding, which needs no allocator.                                      *)
(***************************************************************************)
EXTENDS QueueTask

VARIABLE padded

\* Prompts of one to three tokens.
Lengths == [r \in Requests |-> r]
\* The shorter the prompt, the longer the answer.
NewTokens == [r \in Requests |-> 4 - r]

Call(min, max, prefill, tokens, room) ==
    [min |-> min, max |-> max, prefill |-> prefill, tokens |-> tokens, room |-> room]

PaddedCalls ==
    {Call(min, max, prefill, tokens, 0) :
        min \in 0..2, max \in {NoMax, 0, 2}, prefill \in {0, 2, 3, 6},
        tokens \in {0, 5, 9, 16}}

PagedCalls ==
    {Call(min, max, prefill, 1, room) :
        min \in 0..2, max \in {NoMax, 0, 2}, prefill \in {0, 1, 2, 4, 6},
        room \in {0, 2, 3, 6}}

\* The padded model; as an instance of QueueTaskProofs, with the theorems.
Padded == INSTANCE QueueTaskProofs WITH
    RequiresPadding <- TRUE, SupportChunking <- FALSE, Calls <- PaddedCalls

BothInit == padded \in BOOLEAN /\ Init
BothNext ==
    /\ \/ padded /\ Padded!Next
       \/ ~padded /\ Next
    /\ UNCHANGED padded
BothSpec == BothInit /\ [][BothNext]_<<vars, padded>>

\* LongestRun of QueueTask, for both kinds of models: next_batch returns the
\* longest run of waiting entries that its budgets allow.
ReturnsLongestRun == IF padded THEN Padded!LongestRun ELSE LongestRun
=============================================================================
