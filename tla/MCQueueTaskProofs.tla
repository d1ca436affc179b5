------------------------- MODULE MCQueueTaskProofs --------------------------
(***************************************************************************)
(* The theorems of QueueTaskProofs for both kinds of models of BothSpec.   *)
(***************************************************************************)
EXTENDS MCQueueTask, QueueTaskProofs

\* What QueueTask assumes of its constants is true of those of the padded model.
LEMMA PaddedAssumption ==
    /\ InputLength \in [Requests -> Nat \ {0}]
    /\ MaxNewTokens \in [Requests -> Nat \ {0}]
    /\ BlockSize \in Nat \ {0} /\ Speculate \in Nat
    /\ {FALSE, TRUE} \subseteq BOOLEAN
    /\ \A c \in PaddedCalls : /\ {c.min, c.prefill, c.tokens, c.room} \subseteq Nat
                              /\ c.max \in Nat \cup {Padded!NoMax}
  BY QueueAssumption DEF PaddedCalls, Call, NoMax, Padded!NoMax

\* The invariant of the kind of model that runs.
BothInv == IF padded THEN Padded!CallInv ELSE CallInv

\* ReturnsLongestRun: the answer of next_batch is the one defined without its loop,
\* for the model with an allocator whatever its constants and calls, and for the
\* one that pads.
THEOREM ReturnsLongestRunCorrect == BothSpec => []ReturnsLongestRun
<1>1. BothInit => BothInv
  <2>1. Init => Padded!Init
    BY DEF Init, Padded!Init, NoCall, Padded!NoCall, NoBatch, Padded!NoBatch
  <2>2. Padded!Init => Padded!CallInv
    BY PaddedAssumption, Padded!InitCallInv
  <2> QED BY <2>1, <2>2, InitCallInv, Zenon DEF BothInit, BothInv
<1>2. ASSUME BothInv, [BothNext]_<<vars, padded>> PROVE BothInv'
  <2>1. padded' = padded
    BY <1>2, Zenon DEF BothNext
  <2>2. /\ ~padded => [Next]_vars
        /\ padded => [Padded!Next]_(Padded!vars)
    BY <1>2, Zenon DEF BothNext, vars, Padded!vars
  <2>3. CallInv /\ [Next]_vars => CallInv'
    BY NextCallInv
  <2>4. Padded!CallInv /\ [Padded!Next]_(Padded!vars) => Padded!CallInv'
    BY PaddedAssumption, Padded!NextCallInv
  <2> QED BY <1>2, <2>1, <2>2, <2>3, <2>4, Zenon DEF BothInv
<1>3. BothInv => ReturnsLongestRun
  <2>1. Padded!CallInv => Padded!LongestRun
    BY PaddedAssumption, Padded!CallInvLongest
  <2> QED BY <2>1, CallInvLongest, Zenon DEF BothInv, ReturnsLongestRun
<1> QED BY <1>1, <1>2, <1>3, PTL DEF BothSpec
=============================================================================
