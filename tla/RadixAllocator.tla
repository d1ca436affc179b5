--------------------------- MODULE RadixAllocator ---------------------------
(***************************************************************************)
(* The paged KV cache allocator of backend v3 with prefix caching: blocks  *)
(* that hold the keys and values of a finished prompt stay in a radix trie *)
(* and are shared by later prompts with the same prefix, until the space   *)
(* is needed.                                                              *)
(*                                                                         *)
(* The allocator is a sequential object behind the command channel of      *)
(* module BlockAllocator, which makes every call atomic; one action here   *)
(* is one whole command.  Everything is counted in blocks (see RadixTrie). *)
(* kv is the shards' memory, as far as it matters: which prompt prefix the *)
(* keys and values in a block were computed for.                           *)
(***************************************************************************)
EXTENDS RadixTrie, Functions

CONSTANTS
    Requests,      \* entries that may own a BlockAllocation
    NBlocks,       \* max_batch_total_tokens / block_size
    Prompts,       \* [key : full blocks, partial : tokens after them?]
    Extras,        \* blocks an entry needs after the full blocks of its prompt
    MaxTime        \* bound on the trie's clock, which is unbounded

ASSUME RadixAssumption ==
    /\ NBlocks \in Nat
    /\ MaxTime \in Nat
    /\ \A p \in Prompts : p.key \in Seq(Range(p.key))
                          /\ p.partial \in BOOLEAN
    /\ Extras \subseteq Nat

VARIABLES
    trie,          \* cache_blocks
    free_blocks,   \* Vec<u32>: blocks immediately available
    held,          \* Requests -> the live allocation, or NoAllocation
    kv,            \* block -> prefix its contents belong to, <<>> for others
    uncomputed,    \* history: blocks of prompts dropped before their prefill
    strayed        \* history: some lookup went on below a partly matched node

vars == <<trie, free_blocks, held, kv, uncomputed, strayed>>

Blocks == 1..(NBlocks - 1)
NoAllocation == [blocks |-> <<>>]
Holding == {r \in Requests : held[r] # NoAllocation}
-----------------------------------------------------------------------------
Init ==
    /\ trie = NewTrie
    /\ free_blocks = [i \in Blocks |-> i]
    /\ held = [r \in Requests |-> NoAllocation]
    /\ kv = [b \in Blocks |-> <<>>]
    /\ uncomputed = {}
    /\ strayed = FALSE

\* alloc_or_reclaim: the trie and the free list after making room for n.
Reclaim(T, n) ==
    IF Len(free_blocks) >= n THEN [trie |-> T, free |-> free_blocks]
    ELSE LET ev == Evict(T, n - Len(free_blocks))
         IN  [trie |-> ev.trie, free |-> free_blocks \o ev.evicted]

\* Mutant: the prefix that was found is not protected from the eviction.
AllocateUnprotected(r, p, extra) ==
    /\ held[r] = NoAllocation
    /\ trie.time < MaxTime /\ ~trie.panicked
    /\ p.partial => extra > 0
    /\ LET found == Find(trie, p.key, p.partial)
           cached == Len(found.blocks)
           needed == Len(p.key) + extra - cached
           room == Reclaim(found.trie, needed)
           left == Len(room.free) - needed
       IN  \/ /\ Len(room.free) >= needed
              /\ trie' = Incref(room.trie, found.node)
              /\ free_blocks' = Take(room.free, left)
              /\ held' = [held EXCEPT ![r] =
                    [prefix_node |-> found.node, cached |-> cached,
                     key |-> p.key, partial |-> p.partial, prefilled |-> FALSE,
                     blocks |-> found.blocks \o Skip(room.free, left)]]
           \/ /\ Len(room.free) < needed
              /\ trie' = room.trie
              /\ free_blocks' = room.free
              /\ UNCHANGED held
    /\ strayed' = (strayed \/ Find(trie, p.key, p.partial).strayed)
    /\ UNCHANGED <<kv, uncomputed>>

\* RadixAllocator::allocate.  A prompt shorter than a block, or one whose
\* cache use is disabled (decoder_input_details), has an empty key.
Allocate(r, p, extra) ==
    /\ held[r] = NoAllocation
    /\ trie.time < MaxTime /\ ~trie.panicked
    /\ p.partial => extra > 0
    /\ LET found == Find(trie, p.key, p.partial)
           cached == Len(found.blocks)
           needed == Len(p.key) + extra - cached
           room == Reclaim(Incref(found.trie, found.node), needed)
           left == Len(room.free) - needed
       IN  \/ /\ Len(room.free) >= needed
              /\ trie' = room.trie
              /\ free_blocks' = Take(room.free, left)
              /\ held' = [held EXCEPT ![r] =
                    [prefix_node |-> found.node, cached |-> cached,
                     key |-> p.key, partial |-> p.partial, prefilled |-> FALSE,
                     blocks |-> found.blocks \o Skip(room.free, left)]]
           \/ /\ Len(room.free) < needed
              /\ trie' = Decref(room.trie, found.node)
              /\ free_blocks' = room.free
              /\ UNCHANGED held
    /\ strayed' = (strayed \/ Find(trie, p.key, p.partial).strayed)
    /\ UNCHANGED <<kv, uncomputed>>

\* The shards run the prefill: keys and values of the part of the prompt that
\* was not cached, then of the generated tokens, go to the blocks given.
Prefill(r) ==
    /\ r \in Holding
    /\ ~held[r].prefilled
    /\ LET a == held[r]
           written == {i \in DOMAIN a.blocks : i > a.cached}
           content(i) == IF i <= Len(a.key) THEN Take(a.key, i) ELSE <<>>
       IN  /\ kv' = [b \in Blocks |->
                    IF \E i \in written : a.blocks[i] = b
                    THEN content(CHOOSE i \in written : a.blocks[i] = b)
                    ELSE kv[b]]
           /\ uncomputed' = uncomputed \ {a.blocks[i] : i \in written}
    /\ held' = [held EXCEPT ![r].prefilled = TRUE]
    /\ UNCHANGED <<trie, free_blocks, strayed>>

\* Mutant: the blocks another request cached meanwhile are not given back.
FreeKeepsDuplicates(r) ==
    LET a == held[r]
        released == Decref(trie, a.prefix_node)
        insert == (Len(a.key) > a.cached \/ a.partial) /\ a.key # <<>>
        ins == Insert(released, a.key, Take(a.blocks, Len(a.key)))
    IN  /\ trie' = IF insert THEN ins.trie ELSE released
        /\ free_blocks' = free_blocks \o Skip(a.blocks, Len(a.key))
        /\ held' = [held EXCEPT ![r] = NoAllocation]
        /\ uncomputed' = IF a.prefilled THEN uncomputed
                         ELSE uncomputed \cup Range(SubSeq(a.blocks, a.cached + 1, Len(a.key)))
        /\ UNCHANGED <<kv, strayed>>

\* RadixAllocator::free: the full blocks of the prompt go to the trie, except
\* those that another request put there meanwhile; the rest is free.
Free(r) ==
    LET a == held[r]
        released == Decref(trie, a.prefix_node)
        insert == (Len(a.key) > a.cached \/ a.partial) /\ a.key # <<>>
        ins == Insert(released, a.key, Take(a.blocks, Len(a.key)))
        duplicates == IF insert /\ ins.common > a.cached
                      THEN SubSeq(a.blocks, a.cached + 1, ins.common) ELSE <<>>
    IN  /\ trie' = IF insert THEN ins.trie ELSE released
        /\ free_blocks' = free_blocks \o duplicates \o Skip(a.blocks, Len(a.key))
        /\ held' = [held EXCEPT ![r] = NoAllocation]
        /\ uncomputed' = IF a.prefilled THEN uncomputed
                         ELSE uncomputed \cup Range(SubSeq(a.blocks, a.cached + 1, Len(a.key)))
        /\ UNCHANGED <<kv, strayed>>

CanFree(r) == r \in Holding /\ trie.time < MaxTime /\ ~trie.panicked

\* The entry is finished, or its client left, after the prefill.
DropFinished(r) == CanFree(r) /\ held[r].prefilled /\ Free(r)

\* The allocation is dropped before the prefill: the entry goes back to the
\* queue over budget, its batch is below the minimum size, or prefill fails.
DropAbandoned(r) == CanFree(r) /\ ~held[r].prefilled /\ Free(r)

Next ==
    \E r \in Requests :
        \/ \E p \in Prompts, extra \in Extras : Allocate(r, p, extra)
        \/ Prefill(r)
        \/ DropFinished(r)
        \/ DropAbandoned(r)

Spec == Init /\ [][Next]_vars
-----------------------------------------------------------------------------
NonRoot(T) == DOMAIN T.nodes \ {Root}

\* The trie is a tree: every node is the child its parent knows under the
\* first chunk of its key, and has one block per chunk.
TypeOK ==
    /\ \A id \in NonRoot(trie) :
         LET node == trie.nodes[id]
         IN  /\ node.key # <<>>
             /\ Len(node.key) = Len(node.blocks)
             /\ Range(node.blocks) \subseteq Blocks
             /\ node.parent \in DOMAIN trie.nodes
             /\ Head(node.key) \in DOMAIN trie.nodes[node.parent].children
             /\ trie.nodes[node.parent].children[Head(node.key)] = id
    /\ \A id \in DOMAIN trie.nodes : \A c \in DOMAIN trie.nodes[id].children :
         trie.nodes[id].children[c] \in NonRoot(trie)
    /\ Range(free_blocks) \subseteq Blocks
    /\ \A r \in Requests : Range(held[r].blocks) \subseteq Blocks

\* A node is referenced by its children and by the allocations that use its
\* prefix, and the leaves that evict may take are the unreferenced nodes, each
\* under the time of its last access.
RefCountsExact ==
    /\ \A id \in NonRoot(trie) :
         trie.nodes[id].ref_count =
            Cardinality(DOMAIN trie.nodes[id].children)
            + Cardinality({r \in Holding : held[r].prefix_node = id})
    /\ trie.leaves = {<<trie.nodes[id].last_accessed, id>> :
                        id \in {n \in NonRoot(trie) : trie.nodes[n].ref_count = 0}}

\* None of the asserts, expects and unreachables of the allocator fires.
NoPanic == ~trie.panicked

\* Where block b is owned: in the free list, in a node of the trie, in the part
\* of an allocation that did not come from the cache.
PlacesIn(b, s) == {i \in DOMAIN s : s[i] = b}
Owners(b) ==
    {<<"free", Root, i>> : i \in PlacesIn(b, free_blocks)}
    \cup (UNION {{<<"trie", id, i>> : i \in PlacesIn(b, trie.nodes[id].blocks)} :
                 id \in NonRoot(trie)})
    \cup (UNION {{<<"held", r, i>> : i \in {j \in PlacesIn(b, held[r].blocks) : j > held[r].cached}} :
                 r \in Holding})

\* Every block has exactly one owner: none is lost, none is handed out twice.
\* After a lookup that strayed (radix.rs:300) this fails: what it found need not
\* be a prefix in the cache.
OneOwner == ~strayed => \A b \in Blocks : Cardinality(Owners(b)) = 1

\* The chunks from the root to the end of a node, and their blocks.
Path(T) ==
    LET up[id \in DOMAIN T.nodes] ==
            IF id = Root THEN [key |-> <<>>, blocks |-> <<>>]
            ELSE [key |-> up[T.nodes[id].parent].key \o T.nodes[id].key,
                  blocks |-> up[T.nodes[id].parent].blocks \o T.nodes[id].blocks]
    IN  up

\* The cache as a mapping from prefixes to blocks.
Contents(T) ==
    LET path == Path(T)
        from(id) == Len(path[id].key) - Len(T.nodes[id].key)
        entries == UNION {{<<Take(path[id].key, i), path[id].blocks[i]>> :
                             i \in (from(id) + 1)..Len(path[id].key)} :
                          id \in NonRoot(T)}
    IN  [k \in {e[1] : e \in entries} |-> (CHOOSE e \in entries : e[1] = k)[2]]

\* The blocks of its cached prefix that an allocation protects by its reference:
\* all of them, unless the prompt ends with a block and all of it was cached.
\* find_ then returns the parent of the last node.
Referenced(r) ==
    IF held[r].partial \/ held[r].cached < Len(held[r].key)
    THEN held[r].cached
    ELSE Len(Path(trie)[held[r].prefix_node].key)

\* The first n blocks that allocation r got from the cache are still cached,
\* under its own prefix.
StillCached(r, n) ==
    \A i \in 1..n : /\ Take(held[r].key, i) \in DOMAIN Contents(trie)
                    /\ Contents(trie)[Take(held[r].key, i)] = held[r].blocks[i]

\* What an allocation references stays cached, under its own prefix, while the
\* allocation lives, through evictions, splits and inserts by others.
ReferencedPrefixKept ==
    ~strayed => \A r \in Holding : StillCached(r, Referenced(r))

\* "We need to increase the refcount to ensure that the prefix that was found is
\* not evicted" (radix.rs:92).
FoundPrefixNotEvicted == \A r \in Holding : StillCached(r, held[r].cached)

\* "Prefix that was cached and for which the KV does not have to be
\* recomputed": the blocks of the cached part of a live allocation hold what
\* a prefill of its prompt would have written there.
CachedPrefixValid ==
    \A r \in Holding : \A i \in 1..held[r].cached :
        kv[held[r].blocks[i]] = Take(held[r].key, i)

\* The same for what the allocation references, except for blocks that entered
\* the trie when an allocation was dropped before its prefill: lookups, splits,
\* evictions and reuse never hand out a block under a prefix it was not computed
\* for.
ComputedPrefixValid ==
    ~strayed => \A r \in Holding : \A i \in 1..Referenced(r) :
        held[r].blocks[i] \notin uncomputed => kv[held[r].blocks[i]] = Take(held[r].key, i)

\* Eviction is least recently used first: a node that loses blocks was not
\* used after any leaf that keeps all of its own.
EvictsOldestFirst ==
    [][\A id, keep \in NonRoot(trie) :
         (/\ id \notin DOMAIN trie'.nodes
             \/ Len(trie'.nodes[id].blocks) < Len(trie.nodes[id].blocks)
          /\ keep \in DOMAIN trie'.nodes
          /\ trie'.nodes[keep] = trie.nodes[keep]
          /\ trie.nodes[keep].ref_count = 0
          /\ trie'.next_id = trie.next_id)
            => trie.nodes[id].last_accessed <= trie.nodes[keep].last_accessed]_vars
=============================================================================
