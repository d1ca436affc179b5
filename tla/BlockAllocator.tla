--------------------------- MODULE BlockAllocator ---------------------------
(***************************************************************************)
(* The paged KV cache allocator of backend v3 without prefix caching:      *)
(* SimpleAllocator, the background task that owns it, and the unbounded    *)
(* command channel in front of it.  The request queue is the only caller   *)
(* of allocate (it awaits the answer before it does anything else); an     *)
(* allocation is dropped by whoever owns the entry at that moment (queue,  *)
(* batching task), and the drop only sends a Free command.                 *)
(*                                                                         *)
(* Token ids do not matter here: an allocation is characterised by the     *)
(* number of token positions it must cover.                                *)
(***************************************************************************)
EXTENDS Naturals, Sequences, FiniteSets, Functions

CONSTANTS
    Requests,     \* entries that may own a BlockAllocation
    NBlocks,      \* max_batch_total_tokens / block_size
    BlockSize,
    WindowSize,   \* sliding window in tokens; 0 stands for None
    MaxTokens,    \* bound on the tokens of one call
    HealthTokens  \* tokens of the prompt "liveness" of a model health check

ASSUME AllocatorAssumption ==
    /\ NBlocks \in Nat
    /\ BlockSize \in Nat \ {0}
    /\ WindowSize \in Nat
    /\ MaxTokens \in Nat
    /\ HealthTokens \in Nat

VARIABLES
    free_blocks,  \* Vec<u32> of SimpleAllocator
    commands,     \* the mpsc channel of BlockAllocatorCommand, in order
    phase,        \* Requests -> where the entry is in its use of allocate
    tokens,       \* Requests -> tokens of its call or allocation, or 0
    allocation    \* Requests -> blocks of the answered or held allocation

vars == <<free_blocks, commands, phase, tokens, allocation>>

Phases == {"idle", "waiting", "answered", "refused", "holding"}

\* Block 0 is reserved for health checks.
Blocks == 1..(NBlocks - 1)

Free(blocks) == [op |-> "Free", blocks |-> blocks]
Allocate(r) == [op |-> "Allocate", req |-> r]

CeilDiv(a, b) == (a + b - 1) \div b

\* The window bounds the blocks an allocation needs ...
RequiredBlocks(t) ==
    CeilDiv(IF WindowSize = 0 \/ t < WindowSize THEN t ELSE WindowSize,
            BlockSize)

\* Mutant: a partly used window is not counted.
RepeatsRoundedDown(t) == IF WindowSize = 0 THEN 1 ELSE t \div WindowSize

\* ... and the same blocks are then reused for the positions beyond it.
Repeats(t) == IF WindowSize = 0 THEN 1 ELSE CeilDiv(t, WindowSize)

\* The slot of each of the t positions.
Slots(blocks, t) ==
    LET room == Len(blocks) * BlockSize * Repeats(t)
        block(p) == blocks[(((p - 1) \div BlockSize) % Len(blocks)) + 1]
    IN  [p \in 1..(IF t < room THEN t ELSE room) |->
            (block(p) * BlockSize) + ((p - 1) % BlockSize)]

\* Mutant: the blocks are copied, not moved, out of the free list.
KeepAll(s, n) == s

\* Vec::split_off(len - n): what stays, and the n last elements.
Keep(s, n) == SubSeq(s, 1, Len(s) - n)
SplitOff(s, n) == SubSeq(s, Len(s) - n + 1, Len(s))
-----------------------------------------------------------------------------
\* Mutant: block 0 is handed out too.
InitWithBlockZero ==
    /\ free_blocks = [i \in 1..NBlocks |-> i - 1]
    /\ commands = <<>>
    /\ phase = [r \in Requests |-> "idle"]
    /\ tokens = [r \in Requests |-> 0]
    /\ allocation = [r \in Requests |-> <<>>]

Init ==
    /\ free_blocks = [i \in 1..(NBlocks - 1) |-> i]
    /\ commands = <<>>
    /\ phase = [r \in Requests |-> "idle"]
    /\ tokens = [r \in Requests |-> 0]
    /\ allocation = [r \in Requests |-> <<>>]

\* The queue task has no call in flight.
QueueIdle == \A r \in Requests : phase[r] \in {"idle", "holding"}

\* Mutant: a call overtakes the Free commands that were sent before it.
CallOvertaking(r, t) ==
    /\ phase[r] = "idle"
    /\ QueueIdle
    /\ tokens' = [tokens EXCEPT ![r] = t]
    /\ commands' = <<Allocate(r)>> \o commands
    /\ phase' = [phase EXCEPT ![r] = "waiting"]
    /\ UNCHANGED <<free_blocks, allocation>>

\* Mutant: the command is sent a second time.
CallTwice(r, t) ==
    /\ phase[r] = "idle"
    /\ QueueIdle
    /\ tokens' = [tokens EXCEPT ![r] = t]
    /\ commands' = commands \o <<Allocate(r), Allocate(r)>>
    /\ phase' = [phase EXCEPT ![r] = "waiting"]
    /\ UNCHANGED <<free_blocks, allocation>>

\* BlockAllocator::allocate, up to the await on the response channel.
CallAllocate(r, t) ==
    /\ phase[r] = "idle"
    /\ QueueIdle
    /\ tokens' = [tokens EXCEPT ![r] = t]
    /\ commands' = Append(commands, Allocate(r))
    /\ phase' = [phase EXCEPT ![r] = "waiting"]
    /\ UNCHANGED <<free_blocks, allocation>>

\* Mutant: a call that cannot be granted is dropped without an answer.
ServeOnlyGrants(r) ==
    /\ commands # <<>>
    /\ Head(commands) = Allocate(r)
    /\ commands' = Tail(commands)
    /\ LET required == RequiredBlocks(tokens[r])
       IN \/ required > Len(free_blocks) /\ UNCHANGED <<free_blocks, allocation, phase>>
          \/ /\ required <= Len(free_blocks)
             /\ free_blocks' = Keep(free_blocks, required)
             /\ allocation' = [allocation EXCEPT ![r] = SplitOff(free_blocks, required)]
             /\ phase' = [phase EXCEPT ![r] = "answered"]
    /\ UNCHANGED tokens

\* block_allocator_task serves an Allocate command.
ServeAllocate(r) ==
    /\ commands # <<>>
    /\ Head(commands) = Allocate(r)
    /\ commands' = Tail(commands)
    /\ LET required == RequiredBlocks(tokens[r])
       IN \/ /\ required > Len(free_blocks)
             /\ phase' = [phase EXCEPT ![r] = "refused"]
             /\ UNCHANGED <<free_blocks, allocation>>
          \/ /\ required <= Len(free_blocks)
             /\ free_blocks' = Keep(free_blocks, required)
             /\ allocation' = [allocation EXCEPT ![r] =
                                  SplitOff(free_blocks, required)]
             /\ phase' = [phase EXCEPT ![r] = "answered"]
    /\ UNCHANGED tokens

\* The await returns: the entry owns the allocation from here on.
TakeAnswer(r) ==
    /\ phase[r] = "answered"
    /\ phase' = [phase EXCEPT ![r] = "holding"]
    /\ UNCHANGED <<free_blocks, commands, tokens, allocation>>

\* The await returns None: the entry goes back to the queue.
TakeRefusal(r) ==
    /\ phase[r] = "refused"
    /\ phase' = [phase EXCEPT ![r] = "idle"]
    /\ tokens' = [tokens EXCEPT ![r] = 0]
    /\ UNCHANGED <<free_blocks, commands, allocation>>

\* Mutant: the allocation does not know its allocator (block_allocator: None).
DropWithoutFree(r) ==
    /\ phase[r] = "holding"
    /\ allocation' = [allocation EXCEPT ![r] = <<>>]
    /\ phase' = [phase EXCEPT ![r] = "idle"]
    /\ tokens' = [tokens EXCEPT ![r] = 0]
    /\ UNCHANGED <<free_blocks, commands>>

\* Drop for BlockAllocation.
DropAllocation(r) ==
    /\ phase[r] = "holding"
    /\ commands' = Append(commands, Free(allocation[r]))
    /\ allocation' = [allocation EXCEPT ![r] = <<>>]
    /\ phase' = [phase EXCEPT ![r] = "idle"]
    /\ tokens' = [tokens EXCEPT ![r] = 0]
    /\ UNCHANGED free_blocks

\* block_allocator_task serves a Free command.
ServeFree ==
    /\ commands # <<>>
    /\ Head(commands).op = "Free"
    /\ free_blocks' = free_blocks \o Head(commands).blocks
    /\ commands' = Tail(commands)
    /\ UNCHANGED <<phase, tokens, allocation>>

Serve == ServeFree \/ \E r \in Requests : ServeAllocate(r)

Next ==
    \/ \E r \in Requests :
         \/ \E t \in 1..MaxTokens : CallAllocate(r, t)
         \/ TakeAnswer(r)
         \/ TakeRefusal(r)
         \/ DropAllocation(r)
    \/ Serve

\* The allocator task loops on recv; both tasks keep being polled.
Fairness ==
    /\ WF_vars(Serve)
    /\ \A r \in Requests : WF_vars(TakeAnswer(r)) /\ WF_vars(TakeRefusal(r))

Spec == Init /\ [][Next]_vars
LiveSpec == Spec /\ Fairness
-----------------------------------------------------------------------------
TypeOK ==
    /\ free_blocks \in Seq(Blocks)
    /\ commands \in Seq([op : {"Free"}, blocks : Seq(Blocks)]
                          \cup [op : {"Allocate"}, req : Requests])
    /\ phase \in [Requests -> Phases]
    /\ tokens \in [Requests -> 0..MaxTokens]
    /\ allocation \in [Requests -> Seq(Blocks)]

\* The blocks on their way back to the allocator in the i-th command.
Freed(i) == IF commands[i].op = "Free" THEN commands[i].blocks ELSE <<>>

Disjoint(s, t) == Range(s) \cap Range(t) = {}

\* No block has two owners: not twice on the free list, not in two live
\* allocations, not live while it is free or on its way back.  This is what
\* SimpleAllocator::free relies on when it extends the free list unchecked.
NoDoubleOwnership ==
    /\ IsInjective(free_blocks)
    /\ \A r \in Requests :
         /\ IsInjective(allocation[r])
         /\ Disjoint(allocation[r], free_blocks)
         /\ \A q \in Requests \ {r} : Disjoint(allocation[r], allocation[q])
         /\ \A i \in DOMAIN commands : Disjoint(allocation[r], Freed(i))
    /\ \A i \in DOMAIN commands :
         /\ IsInjective(Freed(i))
         /\ Disjoint(Freed(i), free_blocks)
         /\ \A j \in DOMAIN commands \ {i} : Disjoint(Freed(i), Freed(j))

\* No block is lost: whatever is neither free nor allocated is in a Free
\* command that the task has still to serve.
NoLeak ==
    \A b \in Blocks :
        \/ b \in Range(free_blocks)
        \/ \E r \in Requests : b \in Range(allocation[r])
        \/ \E i \in DOMAIN commands : b \in Range(Freed(i))

\* An entry whose call is not granted owns nothing, and an Allocate command in
\* the channel is the only one of a caller that still awaits its answer: no
\* grant ever overwrites another one, and no oneshot is answered twice.
CallsPending ==
    /\ \A r \in Requests :
         phase[r] \in {"idle", "waiting", "refused"} => allocation[r] = <<>>
    /\ \A i \in DOMAIN commands : commands[i].op = "Allocate" =>
         /\ phase[commands[i].req] = "waiting"
         /\ \A j \in DOMAIN commands : commands[j] = commands[i] => j = i

Live(r) == phase[r] \in {"answered", "holding"}
SlotsOf(r) == Slots(allocation[r], tokens[r])

\* The slots a model health check writes to: the first of 0..16, for its whole
\* prompt.
HealthSlots == {s \in 0..15 : s < HealthTokens}

\* What the shards rely on when they write keys and values at these slots:
\* every position has one, no other live request writes there, nor does a
\* health check, which may run at any time beside the batching task ("Block 0
\* is reserved for health checks"), and a position is only overwritten by one
\* at least a window later.
SlotsSafe ==
    \A r \in Requests : Live(r) =>
        /\ Len(SlotsOf(r)) = tokens[r]
        /\ \A p \in 1..tokens[r] : SlotsOf(r)[p] \in (0..(NBlocks * BlockSize - 1)) \ HealthSlots
        /\ \A q \in Requests \ {r} : Live(q) => Disjoint(SlotsOf(r), SlotsOf(q))
        /\ \A p, q \in 1..tokens[r] :
             (p < q /\ (WindowSize = 0 \/ q - p < WindowSize))
                => SlotsOf(r)[p] # SlotsOf(r)[q]

\* A caller of allocate is always answered: response_receiver.await returns.
CallAnswered ==
    \A r \in Requests : phase[r] = "waiting" ~> phase[r] \in {"holding", "idle"}
=============================================================================
