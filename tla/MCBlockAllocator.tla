-------------------------- MODULE MCBlockAllocator --------------------------
(***************************************************************************)
(* BlockAllocator on small instances, and the atomic pool it implements.   *)
(***************************************************************************)
EXTENDS BlockAllocator

\* The free list once the task has served a command that needs no answer.
BlocksIn(c) == IF c.op = "Free" THEN c.blocks ELSE <<>>
Extended(list, c) == list \o BlocksIn(c)

\* The free list after each number of the commands sent.
FreeAfter(free, sent) ==
    LET list[i \in 0..Len(sent)] ==
            IF i = 0 THEN free ELSE Extended(list[i - 1], sent[i])
    IN  list

\* The outcome of a pending call is already determined when it is made: it will
\* see today's free list, extended by the Free commands ahead of it.
Position(sent, r) == CHOOSE i \in DOMAIN sent : sent[i] = Allocate(r)
FreeWhenServed(r) == FreeAfter(free_blocks, commands)[Position(commands, r) - 1]
WillBeGranted(r) == RequiredBlocks(tokens[r]) <= Len(FreeWhenServed(r))

OwnedBy(r) ==
    IF phase[r] = "waiting"
    THEN IF WillBeGranted(r)
         THEN Range(SplitOff(FreeWhenServed(r), RequiredBlocks(tokens[r])))
         ELSE {}
    ELSE Range(allocation[r])

StatusOf(r) ==
    CASE phase[r] = "waiting" ->
            IF WillBeGranted(r) THEN "granted" ELSE "refused"
      [] phase[r] \in {"answered", "holding"} -> "granted"
      [] phase[r] = "refused" -> "refused"
      [] OTHER -> "none"

WantOf(r) == IF tokens[r] = 0 THEN 0 ELSE RequiredBlocks(tokens[r])

Demands == {RequiredBlocks(t) : t \in 1..MaxTokens}
Available == Blocks \ UNION {OwnedBy(r) : r \in Requests}
Owned == [r \in Requests |-> OwnedBy(r)]
Wanted == [r \in Requests |-> WantOf(r)]
Status == [r \in Requests |-> StatusOf(r)]

Pool == INSTANCE BlockPool WITH
    avail <- Available, owned <- Owned, want <- Wanted, status <- Status

\* The allocator behind its channel is an atomic pool: a drop is effective at
\* once for every later call, and a call is refused only when the blocks that
\* are not owned at that moment do not cover it.
ImplementsPool == Pool!PoolSpec
=============================================================================
