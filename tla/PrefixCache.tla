----------------------------- MODULE PrefixCache -----------------------------
(***************************************************************************)
(* What the radix allocator promises, with the trie abstracted away: a     *)
(* mapping from prompt prefixes to blocks, closed under prefixes.  A call  *)
(* gets the blocks of its longest cached prefix and fresh blocks for the   *)
(* rest.  What it got cannot be evicted before the call is returned, but   *)
(* when the whole prompt is cached and nothing follows, only some of it is *)
(* pinned.  Nothing is evicted unless the free blocks do not suffice, and  *)
(* no more than what is missing when that is enough.                       *)
(***************************************************************************)
EXTENDS Naturals, Sequences, FiniteSets, Functions

CONSTANTS
    Requests,
    Blocks,
    Prompts,    \* [key : sequence of chunks, partial : BOOLEAN]
    Extras

VARIABLES
    cache,      \* prefix -> block
    pool,       \* the free blocks
    grants      \* Requests -> [key, cached, pinned, blocks], or None

cacheVars == <<cache, pool, grants>>

None == [key |-> <<>>, cached |-> 0, pinned |-> 0, blocks |-> <<>>]
Prefix(s, n) == SubSeq(s, 1, n)
Prefixes(s, n) == {Prefix(s, i) : i \in 1..n}

\* Length of the longest prefix of key that is cached.
Hit(key) ==
    CHOOSE n \in 0..Len(key) :
        /\ Prefixes(key, n) \subseteq DOMAIN cache
        /\ n < Len(key) => Prefix(key, n + 1) \notin DOMAIN cache

Pinned == UNION {Prefixes(grants[r].key, grants[r].pinned) : r \in Requests}

\* The sets of prefixes that may remain when those of keep must.
Remaining(keep) ==
    {D \in SUBSET DOMAIN cache :
        keep \subseteq D /\ \A k \in D : Prefixes(k, Len(k)) \subseteq D}

\* How much of a hit is pinned while the call runs and the grant lives.
Pins(p, hit) == IF p.partial \/ hit < Len(p.key) THEN {hit} ELSE 0..hit

Image(S) == {cache[k] : k \in S}

CacheInit ==
    /\ cache = <<>>
    /\ pool = Blocks
    /\ grants = [r \in Requests |-> None]

Grant(r, p, extra) ==
    /\ grants[r] = None
    /\ LET hit == Hit(p.key)
           needed == Len(p.key) + extra - hit
       IN  \E pinned \in Pins(p, hit) :
           \E D \in Remaining(Pinned \cup Prefixes(p.key, pinned)) :
             LET room == pool \cup Image(DOMAIN cache \ D)
             IN  /\ D = DOMAIN cache \/ Cardinality(pool) < needed
                 /\ D = DOMAIN cache \/ Cardinality(room) = needed
                 /\ \E fresh \in [1..needed -> room] :
                      /\ IsInjective(fresh)
                      /\ pool' = room \ Range(fresh)
                      /\ grants' = [grants EXCEPT ![r] =
                            [key |-> p.key, cached |-> hit, pinned |-> pinned,
                             blocks |-> [i \in 1..hit |-> cache[Prefix(p.key, i)]]
                                        \o fresh]]
                 /\ cache' = Restrict(cache, D)

Refuse(r, p, extra) ==
    /\ grants[r] = None
    /\ LET hit == Hit(p.key)
           needed == Len(p.key) + extra - hit
       IN  \E pinned \in Pins(p, hit) :
           \E D \in Remaining(Pinned \cup Prefixes(p.key, pinned)) :
             /\ Cardinality(pool \cup Image(DOMAIN cache \ D)) < needed
             /\ pool' = pool \cup Image(DOMAIN cache \ D)
             /\ cache' = Restrict(cache, D)
    /\ UNCHANGED grants

Return(r) ==
    /\ grants[r] # None
    /\ LET g == grants[r]
           new == IF g.cached = Len(g.key) THEN {}
                  ELSE Prefixes(g.key, Len(g.key)) \ DOMAIN cache
       IN  /\ cache' = [k \in DOMAIN cache \cup new |->
                          IF k \in DOMAIN cache THEN cache[k] ELSE g.blocks[Len(k)]]
           /\ pool' = pool \cup {g.blocks[i] : i \in {j \in DOMAIN g.blocks :
                            j > g.cached /\ (j > Len(g.key) \/ Prefix(g.key, j) \notin new)}}
    /\ grants' = [grants EXCEPT ![r] = None]

CacheNext ==
    \E r \in Requests :
        \/ \E p \in Prompts, extra \in Extras : Grant(r, p, extra) \/ Refuse(r, p, extra)
        \/ Return(r)

CacheSpec == CacheInit /\ [][CacheNext]_cacheVars
=============================================================================
