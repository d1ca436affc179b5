-------------------------- MODULE MCRadixAllocator --------------------------
(***************************************************************************)
(* RadixAllocator on small instances.                                      *)
(***************************************************************************)
EXTENDS RadixAllocator, TLC

Prompt(key, partial) == [key |-> key, partial |-> partial]

\* Prompts that end with a block and prompts with some tokens after it, that share
\* one block, two blocks or nothing.  A chunk that occurs at two positions lets a
\* lookup stray.
BranchingPrompts ==
    {Prompt(<<"a", "b">>, FALSE), Prompt(<<"a", "b", "a">>, TRUE),
     Prompt(<<"a", "a", "c">>, FALSE), Prompt(<<"a", "c">>, TRUE),
     Prompt(<<"d", "e", "f">>, TRUE)}

\* Prompts that end with a block, as every prompt does when a block is one token.
\* No chunk occurs at two positions.
AlignedPrompts == {Prompt(<<"a", "b">>, FALSE), Prompt(<<"c", "d", "e">>, FALSE)}

\* The trie as the mapping it stands for.
Cache == INSTANCE PrefixCache WITH
    cache <- Contents(trie),
    pool <- Range(free_blocks),
    grants <- [r \in Requests |->
                 IF r \in Holding
                 THEN [key |-> held[r].key, cached |-> held[r].cached,
                       pinned |-> Referenced(r), blocks |-> held[r].blocks]
                 ELSE [key |-> <<>>, cached |-> 0, pinned |-> 0, blocks |-> <<>>]]

\* Until a lookup strays, the radix allocator implements the prefix cache: what
\* find returns is the longest cached prefix, what evict takes is not pinned and
\* never more than needed, and what insert leaves in the trie is every prefix
\* exactly once.
ImplementsPrefixCache ==
    Cache!CacheInit /\ [][strayed' \/ Cache!CacheNext]_(Cache!cacheVars)

Symmetry == Permutations(Requests)
=============================================================================
