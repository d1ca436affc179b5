------------------------ MODULE RadixAllocatorProofs ------------------------
(***************************************************************************)
(* What the radix allocator keeps for any prompts, any number of blocks    *)
(* and any number of requests, with their prompts aligned to blocks or     *)
(* not: the trie stays a tree, its reference counts are exact, none of the *)
(* asserts of the code fires and evict takes the oldest leaves first.  And *)
(* what it keeps until a lookup strays: every block has one owner, what an *)
(* allocation references stays cached, and a cached block holds what was   *)
(* computed for its prefix.                                                *)
(*                                                                         *)
(* TrieOK(T, ext, C, B) is a well-formed trie over chunks C and blocks B   *)
(* whose nodes are referenced ext[id] times from outside.  There is one    *)
(* lemma per operation of the trie: what it changes (a predicate on the    *)
(* trie before and after it) and that it keeps TrieOK.  find, insert and   *)
(* evict are loops over those; the allocator's invariant AllocInv takes    *)
(* for ext the numbers of allocations that use each node.                  *)
(*                                                                         *)
(* CacheInv adds to it where every block is (Ledger) and, with K[id] and   *)
(* V[id] for the chunks and the blocks from the root to the end of a node, *)
(* that an allocation and its node agree on the cached prefix and that a   *)
(* block of a path was computed for the path up to it (CacheIs).           *)
(***************************************************************************)
EXTENDS RadixAllocator, SequenceTheorems, FiniteSetTheorems, WellFoundedInduction, TLAPS
-----------------------------------------------------------------------------
(* Induction over the iterations of a loop, without a second-order rule: a *)
(* set of numbers that has 0 and the successor of each of its members below*)
(* n has them all.  A loop is a function of the number of iterations done. *)

\* A set of numbers that is not empty has a least one.
LEMMA LeastNumber ==
    ASSUME NEW T, T \subseteq Nat, T # {}
    PROVE  \E n \in T : \A k \in T : n <= k
<1> DEFINE R == OpToRel(<, Nat)
<1>1. IsWellFoundedOn(R, Nat)
  BY NatLessThanWellFounded
<1>2. PICK n \in T : \A k \in T : ~ (<<k, n>> \in R)
  BY <1>1, WFMin
<1>3. ASSUME NEW k \in T PROVE n <= k
  <2>1. <<k, n>> \notin R
    BY <1>2
  <2>2. k \in Nat /\ n \in Nat
    OBVIOUS
  <2>3. ~ (k < n)
    BY <2>1, <2>2, Zenon DEF OpToRel
  <2> QED BY <2>2, <2>3
<1> QED BY <1>2, <1>3

\* What holds before a loop and is kept by each of its n iterations holds
\* after every one of them.
LEMMA IntervalInduction ==
    ASSUME NEW n \in Nat, NEW S, 0 \in S,
           \A i \in 1..n : i - 1 \in S => i \in S
    PROVE  0..n \subseteq S
<1> DEFINE T == {i \in 0..n : i \notin S}
<1> SUFFICES ASSUME T # {} PROVE FALSE
  OBVIOUS
<1>1. PICK m \in T : \A k \in T : m <= k
  <2>1. T \subseteq Nat
    OBVIOUS
  <2> HIDE DEF T
  <2> QED BY <2>1, LeastNumber
<1>2. m # 0 /\ m \in 1..n
  OBVIOUS
<1>3. m - 1 \in S
  <2> SUFFICES ASSUME m - 1 \notin S PROVE FALSE
    OBVIOUS
  <2>1. m - 1 \in T
    BY <1>2
  <2> QED BY <1>1, <1>2, <2>1
<1> QED BY <1>2, <1>3
-----------------------------------------------------------------------------
TrieFields == {"nodes", "leaves", "time", "next_id", "panicked"}
NodeFields == {"key", "blocks", "children", "last_accessed", "parent", "ref_count"}

\* What the trie stores: nodes with as many blocks as chunks.
NodeOK(n, C, B) ==
    /\ NodeFields \subseteq DOMAIN n
    /\ n.key \in Seq(C) /\ n.blocks \in Seq(B) /\ Len(n.key) = Len(n.blocks)
    /\ n.last_accessed \in Nat /\ n.ref_count \in Nat
    /\ IsFiniteSet(DOMAIN n.children)

\* Ids come from the counter, and the root is never removed.
StoreOK(T, C, B) ==
    /\ TrieFields \subseteq DOMAIN T
    /\ T.time \in Nat /\ T.next_id \in Nat /\ T.panicked = FALSE
    /\ Root \in DOMAIN T.nodes
    /\ \A id \in DOMAIN T.nodes :
         /\ id \in Nat /\ id < T.next_id
         /\ NodeOK(T.nodes[id], C, B)
         /\ T.nodes[id].last_accessed <= T.time

\* Parents and children know each other, under the first chunk of the child's key.
LinksOK(T) ==
    /\ \A id \in NonRoot(T) :
         LET n == T.nodes[id]
         IN  /\ n.key # <<>>
             /\ n.parent \in DOMAIN T.nodes /\ n.parent # id
             /\ Head(n.key) \in DOMAIN T.nodes[n.parent].children
             /\ T.nodes[n.parent].children[Head(n.key)] = id
    /\ \A id \in DOMAIN T.nodes : \A c \in DOMAIN T.nodes[id].children :
         LET k == T.nodes[id].children[c]
         IN  k \in NonRoot(T) /\ T.nodes[k].parent = id /\ Head(T.nodes[k].key) = c

\* A node is referenced by its children and ext[id] times from outside.
CountsOK(T, ext) ==
    /\ ext \in [Nat -> Nat]
    /\ \A id \in Nat : ext[id] > 0 => id \in DOMAIN T.nodes
    /\ \A id \in NonRoot(T) :
         T.nodes[id].ref_count = Cardinality(DOMAIN T.nodes[id].children) + ext[id]

\* The leaves are the nodes without references, under their access times.
LeavesOf(nodes) ==
    {<<nodes[id].last_accessed, id>> :
        id \in {i \in DOMAIN nodes \ {Root} : nodes[i].ref_count = 0}}

TrieOK(T, ext, C, B) ==
    /\ StoreOK(T, C, B)
    /\ LinksOK(T)
    /\ CountsOK(T, ext)
    /\ T.leaves = LeavesOf(T.nodes)

Chunks == UNION {Range(p.key) : p \in Prompts}

\* The requests with an allocation in h, and how many of them use the prefix that
\* ends in a node.
HoldingIn(h) == {r \in Requests : h[r] # NoAllocation}
UsersIn(h) == [id \in Nat |-> Cardinality({r \in HoldingIn(h) : h[r].prefix_node = id})]

AllocFields == {"prefix_node", "cached", "key", "partial", "prefilled", "blocks"}

HeldOK(a) ==
    /\ AllocFields \subseteq DOMAIN a
    /\ a.prefix_node \in Nat /\ a.cached \in Nat
    /\ a.key \in Seq(Chunks) /\ a.blocks \in Seq(Blocks)
    /\ a.cached <= Len(a.key) /\ Len(a.key) <= Len(a.blocks)

\* The allocations are consistent, whatever the trie.
HolderOK(h) ==
    /\ DOMAIN h = Requests
    /\ IsFiniteSet(HoldingIn(h))
    /\ \A r \in HoldingIn(h) : HeldOK(h[r])

\* The inductive invariant: the references from outside the trie are those of the
\* allocations.
AllocInv ==
    /\ TrieOK(trie, UsersIn(held), Chunks, Blocks)
    /\ free_blocks \in Seq(Blocks)
    /\ HolderOK(held)
-----------------------------------------------------------------------------
(* The parts of the invariant under changes of the nodes                   *)

\* A pair is in the leaves when it is the entry of a node without references.
LEMMA LeafIs ==
    ASSUME NEW N, NEW t, NEW i
    PROVE  <<t, i>> \in LeavesOf(N)
             <=> i \in DOMAIN N \ {Root} /\ N[i].ref_count = 0 /\ t = N[i].last_accessed
  BY DEF LeavesOf

\* A set is the leaves when it has the entries of such nodes, and no more.
LEMMA LeavesAre ==
    ASSUME NEW N, NEW L,
           \A x \in L : \E i \in DOMAIN N \ {Root} :
               N[i].ref_count = 0 /\ x = <<N[i].last_accessed, i>>,
           \A i \in DOMAIN N \ {Root} :
               N[i].ref_count = 0 => <<N[i].last_accessed, i>> \in L
    PROVE  L = LeavesOf(N)
  BY DEF LeavesOf

\* Every leaf is the entry of a node.
LEMMA LeafOf ==
    ASSUME NEW N, NEW x \in LeavesOf(N)
    PROVE  \E i \in DOMAIN N \ {Root} :
               N[i].ref_count = 0 /\ x = <<N[i].last_accessed, i>>
  BY DEF LeavesOf

\* A node that differs in its access time and its reference count only.
Alike(n, m) ==
    /\ NodeFields \subseteq DOMAIN m
    /\ m.key = n.key /\ m.blocks = n.blocks
    /\ m.children = n.children /\ m.parent = n.parent

\* Such changes keep the tree.
LEMMA AlikeLinks ==
    ASSUME NEW T, NEW U, LinksOK(T), DOMAIN U.nodes = DOMAIN T.nodes,
           \A i \in DOMAIN T.nodes : Alike(T.nodes[i], U.nodes[i])
    PROVE  LinksOK(U)
<1> DEFINE N == T.nodes
           M == U.nodes
<1>1. \A i \in DOMAIN N : /\ M[i].key = N[i].key /\ M[i].parent = N[i].parent
                          /\ M[i].children = N[i].children
  BY DEF Alike
<1>2. ASSUME NEW i \in NonRoot(U)
      PROVE  /\ M[i].key # <<>> /\ M[i].parent \in DOMAIN M /\ M[i].parent # i
             /\ Head(M[i].key) \in DOMAIN M[M[i].parent].children
             /\ M[M[i].parent].children[Head(M[i].key)] = i
  <2>1. i \in NonRoot(T)
    BY DEF NonRoot
  <2>2. /\ N[i].key # <<>> /\ N[i].parent \in DOMAIN N /\ N[i].parent # i
        /\ Head(N[i].key) \in DOMAIN N[N[i].parent].children
        /\ N[N[i].parent].children[Head(N[i].key)] = i
    BY <2>1, Zenon DEF LinksOK
  <2>3. i \in DOMAIN N
    BY <2>1 DEF NonRoot
  <2> QED BY <1>1, <2>2, <2>3
<1>3. ASSUME NEW i \in DOMAIN M, NEW c \in DOMAIN M[i].children
      PROVE  LET k == M[i].children[c]
             IN  k \in NonRoot(U) /\ M[k].parent = i /\ Head(M[k].key) = c
  <2>1. i \in DOMAIN N /\ c \in DOMAIN N[i].children /\ M[i].children = N[i].children
    BY <1>1
  <2> DEFINE k == N[i].children[c]
  <2>2. k \in NonRoot(T) /\ N[k].parent = i /\ Head(N[k].key) = c
    BY <2>1, Zenon DEF LinksOK
  <2>3. k \in DOMAIN N /\ k \in NonRoot(U)
    BY <2>2 DEF NonRoot
  <2> QED BY <1>1, <2>1, <2>2, <2>3
<1> QED BY <1>2, <1>3, Zenon DEF LinksOK

\* The nodes of a well-formed trie, in one fact.
LEMMA NodeIs ==
    ASSUME NEW T, NEW C, NEW B, StoreOK(T, C, B), NEW i \in DOMAIN T.nodes
    PROVE  /\ i \in Nat /\ i < T.next_id /\ T.next_id \in Nat
           /\ NodeFields \subseteq DOMAIN T.nodes[i]
           /\ T.nodes[i].key \in Seq(C) /\ T.nodes[i].blocks \in Seq(B)
           /\ Len(T.nodes[i].key) = Len(T.nodes[i].blocks)
           /\ T.nodes[i].last_accessed \in Nat /\ T.nodes[i].ref_count \in Nat
           /\ T.nodes[i].last_accessed <= T.time
           /\ IsFiniteSet(DOMAIN T.nodes[i].children)
  BY DEF StoreOK, NodeOK

\* Changes of access times and reference counts keep the store.
LEMMA AlikeStore ==
    ASSUME NEW T, NEW U, NEW C, NEW B, StoreOK(T, C, B),
           TrieFields \subseteq DOMAIN U, DOMAIN U.nodes = DOMAIN T.nodes,
           U.time \in Nat, U.next_id = T.next_id, U.panicked = T.panicked,
           \A i \in DOMAIN T.nodes :
               /\ Alike(T.nodes[i], U.nodes[i])
               /\ U.nodes[i].last_accessed \in Nat /\ U.nodes[i].ref_count \in Nat
               /\ U.nodes[i].last_accessed <= U.time
    PROVE  StoreOK(U, C, B)
<1>1. ASSUME NEW i \in DOMAIN U.nodes
      PROVE  /\ i \in Nat /\ i < U.next_id /\ NodeOK(U.nodes[i], C, B)
             /\ U.nodes[i].last_accessed <= U.time
  BY NodeIs DEF Alike, NodeOK
<1>2. Root \in DOMAIN U.nodes /\ U.next_id \in Nat /\ U.panicked = FALSE
  BY DEF StoreOK
<1> QED BY <1>1, <1>2 DEF StoreOK
-----------------------------------------------------------------------------
(* Access times and reference counts                                       *)

\* A node with another access time, a node with another reference count.
LEMMA NodeUpdate ==
    ASSUME NEW n, NEW v, NodeFields \subseteq DOMAIN n
    PROVE  /\ Alike(n, [n EXCEPT !.last_accessed = v])
           /\ [n EXCEPT !.last_accessed = v].last_accessed = v
           /\ [n EXCEPT !.last_accessed = v].ref_count = n.ref_count
           /\ Alike(n, [n EXCEPT !.ref_count = v])
           /\ [n EXCEPT !.ref_count = v].ref_count = v
           /\ [n EXCEPT !.ref_count = v].last_accessed = n.last_accessed
  BY Zenon DEF Alike, NodeFields

\* A node is alike to itself.
LEMMA AlikeSelf ==
    ASSUME NEW n, NodeFields \subseteq DOMAIN n
    PROVE  Alike(n, n)
  BY Zenon DEF Alike

\* update_access_time changes the access time of a node, and its entry in the leaves.
LEMMA TouchIs ==
    ASSUME NEW T, NEW id, TrieFields \subseteq DOMAIN T,
           id \in DOMAIN T.nodes, NodeFields \subseteq DOMAIN T.nodes[id]
    PROVE  LET U == UpdateAccessTime(T, id)
               old == <<T.nodes[id].last_accessed, id>>
           IN  /\ TrieFields \subseteq DOMAIN U
               /\ U.nodes = [T.nodes EXCEPT ![id] = [@ EXCEPT !.last_accessed = T.time]]
               /\ U.leaves = IF old \in T.leaves
                             THEN (T.leaves \ {old}) \cup {<<T.time, id>>} ELSE T.leaves
               /\ U.time = T.time /\ U.next_id = T.next_id /\ U.panicked = T.panicked
  BY Zenon DEF UpdateAccessTime, TrieFields, NodeFields

\* The nodes after update_access_time.
LEMMA TouchNodes ==
    ASSUME NEW T, NEW C, NEW B, StoreOK(T, C, B), NEW id \in DOMAIN T.nodes
    PROVE  LET U == UpdateAccessTime(T, id)
           IN  /\ DOMAIN U.nodes = DOMAIN T.nodes
               /\ \A i \in DOMAIN T.nodes :
                    /\ Alike(T.nodes[i], U.nodes[i])
                    /\ U.nodes[i].ref_count = T.nodes[i].ref_count
                    /\ U.nodes[i].last_accessed =
                         IF i = id THEN T.time ELSE T.nodes[i].last_accessed
                    /\ i # id => U.nodes[i] = T.nodes[i]
<1> DEFINE U == UpdateAccessTime(T, id)
           m == [T.nodes[id] EXCEPT !.last_accessed = T.time]
<1>1. U.nodes = [T.nodes EXCEPT ![id] = m]
  BY TouchIs, NodeIs, Zenon DEF StoreOK
<1>2. Alike(T.nodes[id], m) /\ m.last_accessed = T.time /\ m.ref_count = T.nodes[id].ref_count
  BY NodeIs, NodeUpdate, Zenon
<1> HIDE DEF U, m
<1>3. /\ DOMAIN U.nodes = DOMAIN T.nodes
      /\ \A i \in DOMAIN T.nodes : U.nodes[i] = IF i = id THEN m ELSE T.nodes[i]
  BY <1>1, Zenon
<1>4. \A i \in DOMAIN T.nodes : Alike(T.nodes[i], T.nodes[i])
  BY NodeIs, AlikeSelf, Zenon
<1>5. ASSUME NEW i \in DOMAIN T.nodes
      PROVE  /\ Alike(T.nodes[i], U.nodes[i])
             /\ U.nodes[i].ref_count = T.nodes[i].ref_count
             /\ U.nodes[i].last_accessed = IF i = id THEN T.time ELSE T.nodes[i].last_accessed
             /\ i # id => U.nodes[i] = T.nodes[i]
  BY <1>2, <1>3, <1>4, Zenon
<1> QED BY <1>3, <1>5, Zenon DEF U

\* update_access_time keeps a trie well formed.
LEMMA TouchOK ==
    ASSUME NEW T, NEW ext, NEW C, NEW B, TrieOK(T, ext, C, B), NEW id \in NonRoot(T)
    PROVE  TrieOK(UpdateAccessTime(T, id), ext, C, B)
<1> DEFINE U == UpdateAccessTime(T, id)
           old == <<T.nodes[id].last_accessed, id>>
<1>1. StoreOK(T, C, B) /\ LinksOK(T) /\ CountsOK(T, ext) /\ T.leaves = LeavesOf(T.nodes)
  BY DEF TrieOK
<1>2. id \in DOMAIN T.nodes /\ id # Root
  BY DEF NonRoot
<1>3. /\ TrieFields \subseteq DOMAIN U
      /\ U.leaves = IF old \in T.leaves
                    THEN (T.leaves \ {old}) \cup {<<T.time, id>>} ELSE T.leaves
      /\ U.time = T.time /\ U.next_id = T.next_id /\ U.panicked = T.panicked
  BY <1>1, <1>2, TouchIs, NodeIs, Zenon DEF StoreOK
<1>4. /\ DOMAIN U.nodes = DOMAIN T.nodes
      /\ \A i \in DOMAIN T.nodes :
           /\ Alike(T.nodes[i], U.nodes[i])
           /\ U.nodes[i].ref_count = T.nodes[i].ref_count
           /\ U.nodes[i].last_accessed = IF i = id THEN T.time ELSE T.nodes[i].last_accessed
  BY <1>1, <1>2, TouchNodes, Zenon
<1> HIDE DEF U
<1>5. LinksOK(U)
  BY <1>1, <1>4, AlikeLinks, Zenon
<1>6. StoreOK(U, C, B)
  <2>1. T.time \in Nat
    BY <1>1 DEF StoreOK
  <2>2. \A i \in DOMAIN T.nodes :
          /\ U.nodes[i].last_accessed \in Nat /\ U.nodes[i].ref_count \in Nat
          /\ U.nodes[i].last_accessed <= U.time
    BY <1>1, <1>3, <1>4, <2>1, NodeIs
  <2> QED BY <1>1, <1>3, <1>4, <2>1, <2>2, AlikeStore, Zenon
<1>7. CountsOK(U, ext)
  BY <1>1, <1>4 DEF CountsOK, NonRoot, Alike
<1>8. U.leaves = LeavesOf(U.nodes)
  <2>1. ASSUME NEW x \in U.leaves
        PROVE  \E i \in DOMAIN U.nodes \ {Root} :
                   U.nodes[i].ref_count = 0 /\ x = <<U.nodes[i].last_accessed, i>>
    <3>1. CASE x \in T.leaves /\ x # old
      <4>1. PICK i \in DOMAIN T.nodes \ {Root} :
                T.nodes[i].ref_count = 0 /\ x = <<T.nodes[i].last_accessed, i>>
        BY <1>1, <3>1, LeafOf
      <4>2. i # id
        BY <3>1, <4>1
      <4> QED BY <1>4, <4>1, <4>2
    <3>2. CASE old \in T.leaves /\ x = <<T.time, id>>
      <4>1. T.nodes[id].ref_count = 0
        BY <1>1, <3>2, LeafIs
      <4> QED BY <1>2, <1>4, <3>2, <4>1
    <3> QED BY <1>3, <3>1, <3>2
  <2>2. ASSUME NEW i \in DOMAIN U.nodes \ {Root}, U.nodes[i].ref_count = 0
        PROVE  <<U.nodes[i].last_accessed, i>> \in U.leaves
    <3>1. <<T.nodes[i].last_accessed, i>> \in T.leaves
      BY <1>1, <1>4, <2>2, LeafIs
    <3>2. CASE i = id
      BY <1>2, <1>3, <1>4, <3>1, <3>2
    <3>3. CASE i # id
      <4>1. <<T.nodes[i].last_accessed, i>> # old
        BY <3>3
      <4>2. <<T.nodes[i].last_accessed, i>> \in U.leaves
        BY <1>3, <3>1, <4>1
      <4> QED BY <1>4, <3>3, <4>2
    <3> QED BY <3>2, <3>3
  <2> QED BY <2>1, <2>2, LeavesAre
<1> QED BY <1>5, <1>6, <1>7, <1>8, Zenon DEF TrieOK, U

\* U is T with v references of the node id, which is a leaf if that is none.
Recounted(T, U, id, v) ==
    /\ TrieFields \subseteq DOMAIN U
    /\ U.nodes = [T.nodes EXCEPT ![id] = [@ EXCEPT !.ref_count = v]]
    /\ U.time = T.time /\ U.next_id = T.next_id /\ U.panicked = T.panicked
    /\ U.leaves = IF v = 0 THEN T.leaves \cup {<<T.nodes[id].last_accessed, id>>}
                           ELSE T.leaves \ {<<T.nodes[id].last_accessed, id>>}

\* A trie in which the count of one node, its references from outside and the
\* leaves have changed together is well formed.
LEMMA Recount ==
    ASSUME NEW T, NEW ext, NEW C, NEW B, TrieOK(T, ext, C, B), NEW id \in NonRoot(T),
           NEW v \in Nat, NEW ext2 \in [Nat -> Nat],
           \A i \in Nat : i # id => ext2[i] = ext[i],
           v = Cardinality(DOMAIN T.nodes[id].children) + ext2[id],
           NEW U, Recounted(T, U, id, v)
    PROVE  TrieOK(U, ext2, C, B)
<1> DEFINE m == [T.nodes[id] EXCEPT !.ref_count = v]
           entry == <<T.nodes[id].last_accessed, id>>
<1>1. StoreOK(T, C, B) /\ LinksOK(T) /\ CountsOK(T, ext) /\ T.leaves = LeavesOf(T.nodes)
  BY DEF TrieOK
<1>2. id \in DOMAIN T.nodes /\ id # Root
  BY DEF NonRoot
<1>3. Alike(T.nodes[id], m) /\ m.ref_count = v /\ m.last_accessed = T.nodes[id].last_accessed
  <2> DEFINE n == T.nodes[id]
  <2>1. NodeFields \subseteq DOMAIN n
    BY <1>1, <1>2, NodeIs, Zenon
  <2> HIDE DEF n
  <2>2. /\ Alike(n, [n EXCEPT !.ref_count = v])
        /\ [n EXCEPT !.ref_count = v].ref_count = v
        /\ [n EXCEPT !.ref_count = v].last_accessed = n.last_accessed
    BY ONLY <2>1, NodeUpdate, Zenon
  <2> QED BY ONLY <2>2, Zenon DEF n
<1>4. /\ U.nodes = [T.nodes EXCEPT ![id] = m]
      /\ TrieFields \subseteq DOMAIN U
      /\ U.time = T.time /\ U.next_id = T.next_id /\ U.panicked = T.panicked
      /\ U.leaves = IF v = 0 THEN T.leaves \cup {entry} ELSE T.leaves \ {entry}
  BY Zenon DEF Recounted
<1> HIDE DEF m
<1>5. /\ DOMAIN U.nodes = DOMAIN T.nodes
      /\ \A i \in DOMAIN T.nodes : U.nodes[i] = IF i = id THEN m ELSE T.nodes[i]
  BY <1>2, <1>4, Zenon
<1>6. \A i \in DOMAIN T.nodes :
        /\ Alike(T.nodes[i], U.nodes[i])
        /\ U.nodes[i].ref_count = IF i = id THEN v ELSE T.nodes[i].ref_count
        /\ U.nodes[i].last_accessed = T.nodes[i].last_accessed
  <2>1. \A i \in DOMAIN T.nodes : Alike(T.nodes[i], T.nodes[i])
    BY <1>1, NodeIs, AlikeSelf, Zenon
  <2> QED BY <1>3, <1>5, <2>1, Zenon
<1>7. LinksOK(U)
  BY <1>1, <1>5, <1>6, AlikeLinks, Zenon
<1>8. StoreOK(U, C, B)
  <2>1. T.time \in Nat
    BY <1>1 DEF StoreOK
  <2>2. \A i \in DOMAIN T.nodes :
          /\ U.nodes[i].last_accessed \in Nat /\ U.nodes[i].ref_count \in Nat
          /\ U.nodes[i].last_accessed <= U.time
    BY <1>1, <1>4, <1>6, <2>1, NodeIs
  <2> QED BY <1>1, <1>4, <1>5, <1>6, <2>1, <2>2, AlikeStore, Zenon
<1>9. CountsOK(U, ext2)
  <2>1. ASSUME NEW i \in NonRoot(U)
        PROVE  U.nodes[i].ref_count = Cardinality(DOMAIN U.nodes[i].children) + ext2[i]
    <3>1. i \in NonRoot(T) /\ i \in DOMAIN T.nodes
      BY <1>5 DEF NonRoot
    <3>2. U.nodes[i].children = T.nodes[i].children /\ i \in Nat
      BY <1>1, <1>6, <3>1, NodeIs DEF Alike
    <3>3. T.nodes[i].ref_count = Cardinality(DOMAIN T.nodes[i].children) + ext[i]
      BY <1>1, <3>1 DEF CountsOK
    <3> QED BY <1>6, <3>1, <3>2, <3>3
  <2>2. \A i \in Nat : ext2[i] > 0 => i \in DOMAIN U.nodes
    BY <1>1, <1>2, <1>5 DEF CountsOK
  <2> QED BY <2>1, <2>2, Zenon DEF CountsOK
<1>10. U.leaves = LeavesOf(U.nodes)
  <2>1. ASSUME NEW x \in U.leaves
        PROVE  \E i \in DOMAIN U.nodes \ {Root} :
                   U.nodes[i].ref_count = 0 /\ x = <<U.nodes[i].last_accessed, i>>
    <3>1. CASE x \in T.leaves /\ x # entry
      <4>1. PICK i \in DOMAIN T.nodes \ {Root} :
                T.nodes[i].ref_count = 0 /\ x = <<T.nodes[i].last_accessed, i>>
        BY <1>1, <3>1, LeafOf
      <4>2. i # id
        BY <3>1, <4>1
      <4> QED BY <1>5, <1>6, <4>1, <4>2
    <3>2. CASE v = 0 /\ x = entry
      BY <1>2, <1>5, <1>6, <3>2
    <3> QED BY <1>4, <3>1, <3>2
  <2>2. ASSUME NEW i \in DOMAIN U.nodes \ {Root}, U.nodes[i].ref_count = 0
        PROVE  <<U.nodes[i].last_accessed, i>> \in U.leaves
    <3>1. CASE i = id
      BY <1>2, <1>4, <1>6, <2>2, <3>1
    <3>2. CASE i # id
      <4>1. <<T.nodes[i].last_accessed, i>> \in T.leaves
        BY <1>1, <1>5, <1>6, <2>2, <3>2, LeafIs
      <4>2. <<T.nodes[i].last_accessed, i>> # entry
        BY <3>2
      <4> QED BY <1>4, <1>5, <1>6, <4>1, <4>2
    <3> QED BY <3>1, <3>2
  <2> QED BY <2>1, <2>2, LeavesAre
<1> QED BY <1>7, <1>8, <1>9, <1>10, Zenon DEF TrieOK

\* One reference from outside more, or less.
More(ext, id) == [ext EXCEPT ![id] = @ + 1]
Less(ext, id) == [ext EXCEPT ![id] = @ - 1]

\* They undo each other.
LEMMA MoreLess ==
    ASSUME NEW ext \in [Nat -> Nat], NEW id \in Nat
    PROVE  /\ More(ext, id) \in [Nat -> Nat] /\ More(ext, id)[id] = ext[id] + 1
           /\ More(ext, id)[id] > 0
           /\ \A i \in Nat : i # id => More(ext, id)[i] = ext[i]
           /\ Less(More(ext, id), id) = ext
<1>1. /\ More(ext, id) \in [Nat -> Nat] /\ More(ext, id)[id] = ext[id] + 1
      /\ More(ext, id)[id] > 0
      /\ \A i \in Nat : i # id => More(ext, id)[i] = ext[i]
  BY DEF More
<1> DEFINE more == More(ext, id)
<1> HIDE DEF more
<1>2. Less(more, id) = [i \in Nat |-> IF i = id THEN more[i] - 1 ELSE more[i]]
  BY <1>1 DEF Less, more
<1>3. \A i \in Nat : (IF i = id THEN more[i] - 1 ELSE more[i]) = ext[i]
  BY <1>1 DEF more
<1>4. Less(more, id) = ext
  BY <1>2, <1>3
<1> QED BY <1>1, <1>4 DEF more

\* The root is not counted.
LEMMA RootUncounted ==
    ASSUME NEW T, NEW ext, NEW ext2 \in [Nat -> Nat], NEW C, NEW B, TrieOK(T, ext, C, B),
           \A i \in Nat : i # Root => ext2[i] = ext[i]
    PROVE  TrieOK(T, ext2, C, B)
<1>1. Root \in DOMAIN T.nodes /\ \A i \in NonRoot(T) : i \in Nat /\ i # Root
  BY NodeIs DEF TrieOK, StoreOK, NonRoot
<1>2. CountsOK(T, ext2)
  BY <1>1 DEF TrieOK, CountsOK
<1> QED BY <1>2 DEF TrieOK

\* incref counts one reference more.
LEMMA IncrefOK ==
    ASSUME NEW T, NEW ext, NEW C, NEW B, TrieOK(T, ext, C, B), NEW id \in DOMAIN T.nodes
    PROVE  TrieOK(Incref(T, id), More(ext, id), C, B)
<1>1. StoreOK(T, C, B) /\ CountsOK(T, ext) /\ T.leaves = LeavesOf(T.nodes)
  BY DEF TrieOK
<1>2. id \in Nat /\ ext \in [Nat -> Nat]
  BY <1>1, NodeIs DEF CountsOK
<1>3. /\ More(ext, id) \in [Nat -> Nat] /\ More(ext, id)[id] = ext[id] + 1
      /\ \A i \in Nat : i # id => More(ext, id)[i] = ext[i]
  BY <1>2 DEF More
<1>4. CASE id = Root
  BY <1>3, <1>4, RootUncounted, Zenon DEF Incref
<1>5. CASE id # Root
  <2> DEFINE U == Incref(T, id)
             ref == T.nodes[id].ref_count
             entry == <<T.nodes[id].last_accessed, id>>
  <2>1. TrieFields \subseteq DOMAIN T /\ NodeFields \subseteq DOMAIN T.nodes[id] /\ ref \in Nat
    BY <1>1, NodeIs DEF StoreOK
  <2>2. /\ TrieFields \subseteq DOMAIN U
        /\ U.nodes = [T.nodes EXCEPT ![id] = [@ EXCEPT !.ref_count = ref + 1]]
        /\ U.time = T.time /\ U.next_id = T.next_id /\ U.panicked = T.panicked
        /\ U.leaves = IF ref = 0 THEN T.leaves \ {entry} ELSE T.leaves
    BY <1>5, <2>1, Zenon DEF Incref, TrieFields, NodeFields
  <2>3. ref # 0 => entry \notin T.leaves
    BY <1>1, LeafIs
  <2> HIDE DEF U
  <2>4. U.leaves = T.leaves \ {entry}
    BY <2>2, <2>3
  <2>5. id \in NonRoot(T)
    BY <1>5 DEF NonRoot
  <2>6. ref = Cardinality(DOMAIN T.nodes[id].children) + ext[id]
    BY <1>1, <2>5 DEF CountsOK
  <2>7. Cardinality(DOMAIN T.nodes[id].children) \in Nat
    BY <1>1, NodeIs, FS_CardinalityType
  <2>8. ref + 1 = Cardinality(DOMAIN T.nodes[id].children) + More(ext, id)[id]
    BY <1>2, <1>3, <2>6, <2>7
  <2> DEFINE v == ref + 1
  <2>9. v \in Nat /\ v # 0
    BY <2>1
  <2> HIDE DEF v
  <2>10. v = Cardinality(DOMAIN T.nodes[id].children) + More(ext, id)[id]
    BY <2>8 DEF v
  <2>11. Recounted(T, U, id, v)
    BY <2>2, <2>4, <2>9, Zenon DEF Recounted, v
  <2>12. TrieOK(U, More(ext, id), C, B)
    BY <1>3, <2>5, <2>9, <2>10, <2>11, Recount, Zenon
  <2> QED BY <2>12 DEF U
<1> QED BY <1>4, <1>5

\* decref of a node that is referenced from outside counts one reference less, and
\* does not fail.
LEMMA DecrefOK ==
    ASSUME NEW T, NEW ext, NEW C, NEW B, TrieOK(T, ext, C, B), NEW id \in DOMAIN T.nodes,
           ext[id] > 0
    PROVE  TrieOK(Decref(T, id), Less(ext, id), C, B)
<1>1. StoreOK(T, C, B) /\ CountsOK(T, ext) /\ T.leaves = LeavesOf(T.nodes)
  BY DEF TrieOK
<1>2. id \in Nat /\ ext \in [Nat -> Nat]
  BY <1>1, NodeIs DEF CountsOK
<1>3. /\ Less(ext, id) \in [Nat -> Nat] /\ Less(ext, id)[id] = ext[id] - 1
      /\ \A i \in Nat : i # id => Less(ext, id)[i] = ext[i]
  BY <1>2 DEF Less
<1>4. CASE id = Root
  BY <1>3, <1>4, RootUncounted, Zenon DEF Decref
<1>5. CASE id # Root
  <2> DEFINE U == Decref(T, id)
             ref == T.nodes[id].ref_count
             kids == DOMAIN T.nodes[id].children
             entry == <<T.nodes[id].last_accessed, id>>
  <2>1. TrieFields \subseteq DOMAIN T /\ NodeFields \subseteq DOMAIN T.nodes[id] /\ ref \in Nat
    BY <1>1, NodeIs DEF StoreOK
  <2>2. id \in NonRoot(T)
    BY <1>5 DEF NonRoot
  <2>3. ref = Cardinality(kids) + ext[id] /\ IsFiniteSet(kids)
    BY <1>1, <2>2, NodeIs DEF CountsOK
  <2>4. Cardinality(kids) \in Nat
    BY <2>3, FS_CardinalityType
  <2>5. ref > 0 /\ (ref <= 1 => ref = 1 /\ kids = {})
    BY <1>2, <2>3, <2>4, FS_EmptySet
  <2> DEFINE v == ref - 1
  <2>6. v \in Nat /\ v = Cardinality(kids) + Less(ext, id)[id] /\ (v = 0 <=> ~ (ref > 1)) /\ ref # 0
    BY <1>2, <1>3, <2>1, <2>3, <2>4, <2>5
  <2>7. entry \notin T.leaves
    BY <1>1, <2>6, LeafIs
  <2>8. /\ TrieFields \subseteq DOMAIN U
        /\ U.nodes = [T.nodes EXCEPT ![id] = [@ EXCEPT !.ref_count = v]]
        /\ U.time = T.time /\ U.next_id = T.next_id /\ U.panicked = T.panicked
        /\ U.leaves = IF v = 0 THEN T.leaves \cup {entry} ELSE T.leaves \ {entry}
    <3>1. CASE ref > 1
      <4>1. /\ TrieFields \subseteq DOMAIN U
            /\ U.nodes = [T.nodes EXCEPT ![id] = [@ EXCEPT !.ref_count = v]]
            /\ U.time = T.time /\ U.next_id = T.next_id /\ U.panicked = T.panicked
            /\ U.leaves = T.leaves
        BY <1>5, <2>1, <2>6, <3>1, Zenon DEF Decref, TrieFields, NodeFields
      <4>2. T.leaves \ {entry} = T.leaves
        BY <2>7
      <4> QED BY <2>6, <3>1, <4>1, <4>2, Zenon
    <3>2. CASE ~ (ref > 1)
      <4>1. v = 0 /\ kids = {}
        BY <2>1, <2>5, <2>6, <3>2
      <4>2. /\ TrieFields \subseteq DOMAIN U
            /\ U.nodes = [T.nodes EXCEPT ![id] = [@ EXCEPT !.ref_count = 0]]
            /\ U.time = T.time /\ U.next_id = T.next_id /\ U.panicked = T.panicked
            /\ U.leaves = T.leaves \cup {entry}
        BY <1>5, <2>1, <2>6, <3>2, <4>1, Zenon DEF Decref, TrieFields, NodeFields
      <4> QED BY <4>1, <4>2, Zenon
    <3> QED BY <3>1, <3>2
  <2> HIDE DEF U, v
  <2>9. Recounted(T, U, id, v)
    BY <2>8, Zenon DEF Recounted
  <2>10. TrieOK(U, Less(ext, id), C, B)
    BY <1>3, <2>2, <2>6, <2>9, Recount, Zenon
  <2> QED BY <2>10 DEF U
<1> QED BY <1>4, <1>5
-----------------------------------------------------------------------------
(* Adding a node and splitting one                                         *)

\* U is T in which the parent knows a child under a chunk.  The child is counted if
\* it does not replace another one.
Linked(T, U, parent, chunk, id) ==
    LET n == T.nodes[parent]
        m == U.nodes[parent]
        counted == chunk \notin DOMAIN n.children /\ parent # Root
    IN  /\ TrieFields \subseteq DOMAIN U
        /\ U.time = T.time /\ U.next_id = T.next_id /\ U.panicked = T.panicked
        /\ DOMAIN U.nodes = DOMAIN T.nodes
        /\ \A i \in DOMAIN T.nodes : i # parent => U.nodes[i] = T.nodes[i]
        /\ NodeFields \subseteq DOMAIN m
        /\ m.key = n.key /\ m.blocks = n.blocks /\ m.parent = n.parent
        /\ m.last_accessed = n.last_accessed
        /\ m.children = With(n.children, chunk, id)
        /\ m.ref_count = IF counted THEN n.ref_count + 1 ELSE n.ref_count
        /\ U.leaves = IF counted /\ n.ref_count = 0
                      THEN T.leaves \ {<<n.last_accessed, parent>>} ELSE T.leaves

\* add_node_to_parent.
LEMMA LinkIs ==
    ASSUME NEW T, NEW parent, NEW chunk, NEW id,
           TrieFields \subseteq DOMAIN T, parent \in DOMAIN T.nodes,
           NodeFields \subseteq DOMAIN T.nodes[parent]
    PROVE  Linked(T, AddNodeToParent(T, parent, chunk, id), parent, chunk, id)
<1> DEFINE n == T.nodes[parent]
           m == [n EXCEPT !.children = With(@, chunk, id)]
           K == [T EXCEPT !.nodes[parent].children = With(@, chunk, id)]
           U == AddNodeToParent(T, parent, chunk, id)
<1>1. /\ TrieFields \subseteq DOMAIN K
      /\ K.nodes = [T.nodes EXCEPT ![parent] = m]
      /\ K.time = T.time /\ K.next_id = T.next_id /\ K.panicked = T.panicked
      /\ K.leaves = T.leaves
  BY Zenon DEF TrieFields, NodeFields
<1>2. /\ NodeFields \subseteq DOMAIN m
      /\ m.key = n.key /\ m.blocks = n.blocks /\ m.parent = n.parent
      /\ m.last_accessed = n.last_accessed /\ m.ref_count = n.ref_count
      /\ m.children = With(n.children, chunk, id)
  BY Zenon DEF NodeFields
<1>3. U = IF chunk \notin DOMAIN n.children THEN Incref(K, parent) ELSE K
  BY Zenon DEF AddNodeToParent
<1> HIDE DEF m, K, U
<1>4. DOMAIN K.nodes = DOMAIN T.nodes /\ K.nodes[parent] = m
      /\ \A i \in DOMAIN T.nodes : i # parent => K.nodes[i] = T.nodes[i]
  BY <1>1, Zenon
<1>5. CASE chunk \notin DOMAIN n.children /\ parent # Root
  <2> DEFINE q == [m EXCEPT !.ref_count = @ + 1]
  <2>1. U = [K EXCEPT !.nodes[parent].ref_count = @ + 1,
                      !.leaves = IF K.nodes[parent].ref_count = 0
                                 THEN @ \ {<<K.nodes[parent].last_accessed, parent>>} ELSE @]
    BY <1>3, <1>4, <1>5, Zenon DEF Incref
  <2>2. /\ TrieFields \subseteq DOMAIN U
        /\ U.nodes = [K.nodes EXCEPT ![parent] = [K.nodes[parent] EXCEPT !.ref_count = @ + 1]]
        /\ U.time = K.time /\ U.next_id = K.next_id /\ U.panicked = K.panicked
        /\ U.leaves = IF K.nodes[parent].ref_count = 0
                      THEN K.leaves \ {<<K.nodes[parent].last_accessed, parent>>} ELSE K.leaves
    BY <1>1, <2>1, Zenon DEF TrieFields
  <2>3. U.nodes = [K.nodes EXCEPT ![parent] = q]
    BY <1>4, <2>2, Zenon
  <2>4. /\ NodeFields \subseteq DOMAIN q
        /\ q.key = m.key /\ q.blocks = m.blocks /\ q.parent = m.parent
        /\ q.last_accessed = m.last_accessed /\ q.ref_count = m.ref_count + 1
        /\ q.children = m.children
    BY <1>2, Zenon DEF NodeFields
  <2> HIDE DEF q
  <2>5. DOMAIN U.nodes = DOMAIN T.nodes /\ U.nodes[parent] = q
        /\ \A i \in DOMAIN T.nodes : i # parent => U.nodes[i] = T.nodes[i]
    BY <1>4, <2>3, Zenon
  <2>6. U.leaves = IF n.ref_count = 0
                   THEN T.leaves \ {<<n.last_accessed, parent>>} ELSE T.leaves
    BY <1>1, <1>2, <1>4, <2>2, Zenon
  <2>7. U.time = T.time /\ U.next_id = T.next_id /\ U.panicked = T.panicked
    BY <1>1, <2>2, Zenon
  <2>8. Linked(T, U, parent, chunk, id)
    BY <1>2, <1>5, <2>2, <2>4, <2>5, <2>6, <2>7, Zenon DEF Linked
  <2> QED BY <2>8 DEF U
<1>6. CASE ~ (chunk \notin DOMAIN n.children /\ parent # Root)
  <2>1. U = K
    BY <1>3, <1>6, Zenon DEF Incref
  <2>2. Linked(T, K, parent, chunk, id)
    BY <1>1, <1>2, <1>4, <1>6, Zenon DEF Linked
  <2> QED BY <2>1, <2>2 DEF U
<1> QED BY <1>5, <1>6

\* U is T with a new node, which the parent knows under the first chunk of its key.
Added(T, U, parent, key, blocks) ==
    LET id == T.next_id
        n == T.nodes[parent]
        m == U.nodes[parent]
        counted == Head(key) \notin DOMAIN n.children /\ parent # Root
    IN  /\ TrieFields \subseteq DOMAIN U
        /\ U.time = T.time /\ U.next_id = T.next_id + 1 /\ U.panicked = T.panicked
        /\ DOMAIN U.nodes = DOMAIN T.nodes \cup {id}
        /\ \A i \in DOMAIN T.nodes : i # parent => U.nodes[i] = T.nodes[i]
        /\ U.nodes[id] = TrieNode(key, blocks, T.time, parent)
        /\ NodeFields \subseteq DOMAIN m
        /\ m.key = n.key /\ m.blocks = n.blocks /\ m.parent = n.parent
        /\ m.last_accessed = n.last_accessed
        /\ m.children = With(n.children, Head(key), id)
        /\ m.ref_count = IF counted THEN n.ref_count + 1 ELSE n.ref_count
        /\ U.leaves = (IF counted /\ n.ref_count = 0
                       THEN T.leaves \ {<<n.last_accessed, parent>>} ELSE T.leaves)
                      \cup {<<T.time, id>>}

\* add_node.
LEMMA AddIs ==
    ASSUME NEW T, NEW parent, NEW key, NEW blocks,
           TrieFields \subseteq DOMAIN T, parent \in DOMAIN T.nodes,
           NodeFields \subseteq DOMAIN T.nodes[parent], T.next_id \notin DOMAIN T.nodes
    PROVE  Added(T, AddNode(T, parent, key, blocks), parent, key, blocks)
<1> DEFINE id == T.next_id
           G == [T EXCEPT !.nodes = With(@, id, TrieNode(key, blocks, T.time, parent)),
                          !.next_id = @ + 1]
           L == AddNodeToParent(G, parent, Head(key), id)
           U == AddNode(T, parent, key, blocks)
<1>1. /\ TrieFields \subseteq DOMAIN G
      /\ G.nodes = With(T.nodes, id, TrieNode(key, blocks, T.time, parent))
      /\ G.time = T.time /\ G.next_id = T.next_id + 1 /\ G.panicked = T.panicked
      /\ G.leaves = T.leaves
  BY Zenon DEF TrieFields
<1>2. U = [L EXCEPT !.leaves = @ \cup {<<T.time, id>>}]
  BY Zenon DEF AddNode
<1> HIDE DEF G, U
<1>3. /\ DOMAIN G.nodes = DOMAIN T.nodes \cup {id}
      /\ G.nodes[id] = TrieNode(key, blocks, T.time, parent)
      /\ \A i \in DOMAIN T.nodes : G.nodes[i] = T.nodes[i]
  <2> DEFINE N == T.nodes
             new == TrieNode(key, blocks, T.time, parent)
  <2>1. G.nodes = With(N, id, new) /\ id \notin DOMAIN N
    BY <1>1
  <2> HIDE DEF N, new
  <2>2. /\ DOMAIN With(N, id, new) = DOMAIN N \cup {id}
        /\ With(N, id, new)[id] = new
        /\ \A i \in DOMAIN N : With(N, id, new)[i] = N[i]
    BY <2>1 DEF With
  <2> QED BY <2>1, <2>2, Zenon DEF N, new
<1>4. Linked(G, L, parent, Head(key), id)
  BY <1>1, <1>3, LinkIs
<1> HIDE DEF L
<1>5. /\ TrieFields \subseteq DOMAIN U
      /\ U.nodes = L.nodes /\ U.time = L.time /\ U.next_id = L.next_id
      /\ U.panicked = L.panicked /\ U.leaves = L.leaves \cup {<<T.time, id>>}
  <2>1. TrieFields \subseteq DOMAIN L
    BY <1>4, Zenon DEF Linked
  <2> QED BY <1>2, <2>1, Zenon DEF TrieFields
<1>6. Added(T, U, parent, key, blocks)
  <2>1. G.nodes[parent] = T.nodes[parent] /\ parent # id
    BY <1>3
  <2>2. \A i \in DOMAIN T.nodes : i # parent => U.nodes[i] = T.nodes[i]
    BY <1>3, <1>4, <1>5 DEF Linked
  <2>3. U.nodes[id] = TrieNode(key, blocks, T.time, parent)
    BY <1>3, <1>4, <1>5, <2>1 DEF Linked
  <2>4. DOMAIN U.nodes = DOMAIN T.nodes \cup {id}
    BY <1>3, <1>4, <1>5 DEF Linked
  <2> QED BY <1>1, <1>4, <1>5, <2>1, <2>2, <2>3, <2>4, Zenon DEF Linked, Added
<1> QED BY <1>6 DEF U

\* A new node.
LEMMA NewNode ==
    ASSUME NEW key, NEW blocks, NEW t, NEW parent
    PROVE  LET n == TrieNode(key, blocks, t, parent)
           IN  /\ NodeFields \subseteq DOMAIN n
               /\ n.key = key /\ n.blocks = blocks /\ n.last_accessed = t /\ n.parent = parent
               /\ n.ref_count = 0 /\ DOMAIN n.children = {} /\ n.children = <<>>
  BY DEF TrieNode, NodeFields

\* The next id is not in use, nor are there references to it.
LEMMA FreshId ==
    ASSUME NEW T, NEW ext, NEW C, NEW B, TrieOK(T, ext, C, B)
    PROVE  /\ T.next_id \in Nat /\ T.next_id \notin DOMAIN T.nodes /\ T.next_id # Root
           /\ ext[T.next_id] = 0
<1>1. /\ T.next_id \in Nat /\ Root \in DOMAIN T.nodes
      /\ \A i \in DOMAIN T.nodes : i \in Nat /\ i < T.next_id
  BY DEF TrieOK, StoreOK
<1>2. T.next_id \notin DOMAIN T.nodes /\ T.next_id # Root
  BY <1>1
<1>3. ext[T.next_id] \in Nat /\ ~ (ext[T.next_id] > 0)
  BY <1>1, <1>2 DEF TrieOK, CountsOK
<1> QED BY <1>1, <1>2, <1>3

\* add_node under a chunk that has no child keeps a trie well formed.
LEMMA AddOK ==
    ASSUME NEW T, NEW ext, NEW C, NEW B, TrieOK(T, ext, C, B), NEW parent \in DOMAIN T.nodes,
           NEW key \in Seq(C), NEW blocks \in Seq(B), key # <<>>, Len(key) = Len(blocks),
           Head(key) \notin DOMAIN T.nodes[parent].children
    PROVE  TrieOK(AddNode(T, parent, key, blocks), ext, C, B)
<1> DEFINE U == AddNode(T, parent, key, blocks)
           N == T.nodes
           M == U.nodes
           id == T.next_id
           c == Head(key)
<1>1. StoreOK(T, C, B) /\ LinksOK(T) /\ CountsOK(T, ext) /\ T.leaves = LeavesOf(N)
  BY DEF TrieOK
<1>2. id \in Nat /\ id \notin DOMAIN N /\ id # Root /\ ext[id] = 0 /\ parent # id
  BY FreshId
<1>3. TrieFields \subseteq DOMAIN T /\ NodeFields \subseteq DOMAIN N[parent] /\ T.time \in Nat
      /\ T.panicked = FALSE /\ Root \in DOMAIN N
  BY <1>1, NodeIs DEF StoreOK
<1>4. Added(T, U, parent, key, blocks)
  BY <1>2, <1>3, AddIs, Zenon
<1> HIDE DEF U, c
<1>5. /\ TrieFields \subseteq DOMAIN U
      /\ U.time = T.time /\ U.next_id = id + 1 /\ U.panicked = T.panicked
      /\ DOMAIN M = DOMAIN N \cup {id}
      /\ \A i \in DOMAIN N : i # parent => M[i] = N[i]
  BY <1>4, Zenon DEF Added
<1>6. /\ NodeFields \subseteq DOMAIN M[id]
      /\ M[id].key = key /\ M[id].blocks = blocks /\ M[id].last_accessed = T.time
      /\ M[id].parent = parent /\ M[id].ref_count = 0 /\ DOMAIN M[id].children = {}
  <2> DEFINE n == TrieNode(key, blocks, T.time, parent)
  <2>1. M[id] = n
    BY <1>4, Zenon DEF Added
  <2>2. /\ NodeFields \subseteq DOMAIN n
        /\ n.key = key /\ n.blocks = blocks /\ n.last_accessed = T.time /\ n.parent = parent
        /\ n.ref_count = 0 /\ DOMAIN n.children = {}
    BY NewNode
  <2> HIDE DEF n
  <2> QED BY <2>1, <2>2, Zenon
<1>7. /\ NodeFields \subseteq DOMAIN M[parent]
      /\ M[parent].key = N[parent].key /\ M[parent].blocks = N[parent].blocks
      /\ M[parent].parent = N[parent].parent
      /\ M[parent].last_accessed = N[parent].last_accessed
      /\ M[parent].children = With(N[parent].children, c, id)
      /\ M[parent].ref_count = IF parent # Root THEN N[parent].ref_count + 1
                               ELSE N[parent].ref_count
      /\ U.leaves = (IF parent # Root /\ N[parent].ref_count = 0
                     THEN T.leaves \ {<<N[parent].last_accessed, parent>>} ELSE T.leaves)
                    \cup {<<T.time, id>>}
  BY <1>4, Zenon DEF Added, c
<1>8. /\ DOMAIN M[parent].children = DOMAIN N[parent].children \cup {c}
      /\ M[parent].children[c] = id
      /\ \A d \in DOMAIN N[parent].children : d # c => M[parent].children[d] = N[parent].children[d]
      /\ c \notin DOMAIN N[parent].children
  <2> DEFINE f == N[parent].children
  <2>1. M[parent].children = With(f, c, id) /\ c \notin DOMAIN f
    BY <1>7 DEF c
  <2> HIDE DEF f
  <2>2. /\ DOMAIN With(f, c, id) = DOMAIN f \cup {c} /\ With(f, c, id)[c] = id
        /\ \A d \in DOMAIN f : d # c => With(f, c, id)[d] = f[d]
    BY DEF With
  <2> QED BY <2>1, <2>2, Zenon DEF f
<1>9. \A i \in DOMAIN N : /\ M[i].key = N[i].key /\ M[i].blocks = N[i].blocks
                          /\ M[i].parent = N[i].parent
                          /\ M[i].last_accessed = N[i].last_accessed
                          /\ NodeFields \subseteq DOMAIN M[i]
  BY <1>1, <1>5, <1>7, NodeIs, Zenon
<1> HIDE DEF N, M, id
<1>10. StoreOK(U, C, B)
  <2>1. ASSUME NEW i \in DOMAIN M
        PROVE  /\ i \in Nat /\ i < U.next_id /\ NodeOK(M[i], C, B)
               /\ M[i].last_accessed <= U.time
    <3>1. CASE i = id
      <4>1. IsFiniteSet(DOMAIN M[id].children)
        BY <1>6, FS_EmptySet
      <4>2. NodeOK(M[id], C, B)
        BY <1>3, <1>6, <4>1 DEF NodeOK
      <4> QED BY <1>2, <1>3, <1>5, <1>6, <3>1, <4>2
    <3>2. CASE i # id
      <4>1. i \in DOMAIN N
        BY <1>5, <3>2
      <4>2. /\ i \in Nat /\ i < id
            /\ N[i].key \in Seq(C) /\ N[i].blocks \in Seq(B) /\ Len(N[i].key) = Len(N[i].blocks)
            /\ N[i].last_accessed \in Nat /\ N[i].ref_count \in Nat
            /\ N[i].last_accessed <= T.time /\ IsFiniteSet(DOMAIN N[i].children)
        BY <1>1, <4>1, NodeIs DEF N, id
      <4>3. IsFiniteSet(DOMAIN M[i].children)
        <5>1. CASE i = parent
          <6>1. DOMAIN M[i].children = DOMAIN N[i].children \cup {c}
            BY <1>8, <5>1
          <6> QED BY <4>2, <6>1, FS_AddElement
        <5>2. CASE i # parent
          BY <1>5, <4>1, <4>2, <5>2
        <5> QED BY <5>1, <5>2
      <4>4. M[i].ref_count \in Nat
        BY <1>5, <1>7, <4>1, <4>2
      <4>5. NodeOK(M[i], C, B)
        BY <1>9, <4>1, <4>2, <4>3, <4>4, Zenon DEF NodeOK
      <4>6. i < U.next_id /\ M[i].last_accessed <= U.time
        BY <1>2, <1>5, <1>9, <4>1, <4>2
      <4> QED BY <4>2, <4>5, <4>6
    <3> QED BY <3>1, <3>2
  <2>2. U.next_id \in Nat /\ Root \in DOMAIN M
    BY <1>2, <1>3, <1>5 DEF N
  <2> QED BY <1>3, <1>5, <2>1, <2>2, Zenon DEF StoreOK, M
<1>11. LinksOK(U)
  <2>1. ASSUME NEW i \in DOMAIN M, i # Root
        PROVE  /\ M[i].key # <<>> /\ M[i].parent \in DOMAIN M /\ M[i].parent # i
               /\ Head(M[i].key) \in DOMAIN M[M[i].parent].children
               /\ M[M[i].parent].children[Head(M[i].key)] = i
    <3>1. CASE i = id
      <4>1. Head(M[i].key) = c /\ M[i].key # <<>> /\ M[i].parent = parent
        BY <1>6, <3>1 DEF c
      <4>2. parent \in DOMAIN M
        BY <1>5 DEF N
      <4> QED BY <1>2, <1>8, <3>1, <4>1, <4>2
    <3>2. CASE i # id
      <4>1. i \in DOMAIN N /\ i \in NonRoot(T)
        BY <1>5, <2>1, <3>2 DEF NonRoot, N
      <4>2. /\ N[i].key # <<>> /\ N[i].parent \in DOMAIN N /\ N[i].parent # i
            /\ Head(N[i].key) \in DOMAIN N[N[i].parent].children
            /\ N[N[i].parent].children[Head(N[i].key)] = i
        BY <1>1, <4>1, Zenon DEF LinksOK, N
      <4>3. M[i].key = N[i].key /\ M[i].parent = N[i].parent
        BY <1>9, <4>1
      <4>4. CASE N[i].parent = parent
        <5>1. Head(N[i].key) # c
          BY <1>8, <4>2, <4>4
        <5> QED BY <1>5, <1>8, <4>2, <4>3, <4>4, <5>1
      <4>5. CASE N[i].parent # parent
        BY <1>5, <4>2, <4>3, <4>5
      <4> QED BY <4>4, <4>5
    <3> QED BY <3>1, <3>2
  <2>2. ASSUME NEW i \in DOMAIN M, NEW d \in DOMAIN M[i].children
        PROVE  LET k == M[i].children[d]
               IN  k \in DOMAIN M \ {Root} /\ M[k].parent = i /\ Head(M[k].key) = d
    <3>1. i # id
      BY <1>6
    <3>2. i \in DOMAIN N
      BY <1>5, <3>1
    <3>3. CASE i = parent /\ d = c
      BY <1>2, <1>5, <1>6, <1>8, <3>3 DEF c
    <3>4. CASE ~ (i = parent /\ d = c)
      <4>1. d \in DOMAIN N[i].children /\ M[i].children[d] = N[i].children[d]
        BY <1>5, <1>8, <3>2, <3>4
      <4> DEFINE k == N[i].children[d]
      <4>2. k \in NonRoot(T) /\ N[k].parent = i /\ Head(N[k].key) = d
        BY <1>1, <3>2, <4>1, Zenon DEF LinksOK, N
      <4>3. k \in DOMAIN N /\ k # Root
        BY <4>2 DEF NonRoot, N
      <4> QED BY <1>5, <1>9, <4>1, <4>2, <4>3
    <3> QED BY <3>3, <3>4
  <2> QED BY <2>1, <2>2, Zenon DEF LinksOK, NonRoot, M
<1>12. CountsOK(U, ext)
  <2>1. ext \in [Nat -> Nat] /\ \A i \in Nat : ext[i] > 0 => i \in DOMAIN M
    BY <1>1, <1>5 DEF CountsOK, N
  <2>2. ASSUME NEW i \in DOMAIN M, i # Root
        PROVE  M[i].ref_count = Cardinality(DOMAIN M[i].children) + ext[i]
    <3>1. CASE i = id
      <4>1. M[i].ref_count = 0 /\ DOMAIN M[i].children = {} /\ ext[i] = 0
        BY <1>2, <1>6, <3>1
      <4> QED BY <4>1, FS_EmptySet
    <3>2. CASE i # id
      <4>1. i \in DOMAIN N /\ i \in NonRoot(T)
        BY <1>5, <2>2, <3>2 DEF NonRoot, N
      <4>2. N[i].ref_count = Cardinality(DOMAIN N[i].children) + ext[i]
        BY <1>1, <4>1 DEF CountsOK, N
      <4>3. CASE i = parent
        <5>1. IsFiniteSet(DOMAIN N[i].children) /\ ext[i] \in Nat
          BY <1>1, <2>1, <4>1, NodeIs DEF N
        <5>2. Cardinality(DOMAIN N[i].children \cup {c}) = Cardinality(DOMAIN N[i].children) + 1
          BY <1>8, <4>3, <5>1, FS_AddElement
        <5>3. Cardinality(DOMAIN N[i].children) \in Nat
          BY <5>1, FS_CardinalityType
        <5> QED BY <1>7, <1>8, <2>2, <4>2, <4>3, <5>1, <5>2, <5>3
      <4>4. CASE i # parent
        BY <1>5, <4>1, <4>2, <4>4
      <4> QED BY <4>3, <4>4
    <3> QED BY <3>1, <3>2
  <2> QED BY <2>1, <2>2, Zenon DEF CountsOK, NonRoot, M
<1>13. U.leaves = LeavesOf(M)
  <2>1. ASSUME NEW x \in U.leaves
        PROVE  \E i \in DOMAIN M \ {Root} :
                   M[i].ref_count = 0 /\ x = <<M[i].last_accessed, i>>
    <3>1. CASE x = <<T.time, id>>
      BY <1>2, <1>5, <1>6, <3>1
    <3>2. CASE x # <<T.time, id>>
      <4>1. x \in T.leaves
        BY <1>7, <3>2
      <4>2. PICK i \in DOMAIN N \ {Root} : N[i].ref_count = 0 /\ x = <<N[i].last_accessed, i>>
        BY <1>1, <4>1, LeafOf
      <4>3. i # parent
        BY <1>7, <3>2, <4>2
      <4> QED BY <1>5, <4>2, <4>3
    <3> QED BY <3>1, <3>2
  <2>2. ASSUME NEW i \in DOMAIN M \ {Root}, M[i].ref_count = 0
        PROVE  <<M[i].last_accessed, i>> \in U.leaves
    <3>1. CASE i = id
      BY <1>6, <1>7, <3>1
    <3>2. CASE i # id
      <4>1. i \in DOMAIN N \ {Root} /\ N[i].ref_count \in Nat
        BY <1>1, <1>5, <3>2, NodeIs DEF N
      <4>2. i # parent
        BY <1>7, <2>2, <4>1
      <4>3. <<N[i].last_accessed, i>> \in T.leaves
        BY <1>1, <1>5, <2>2, <4>1, <4>2, LeafIs
      <4>4. <<N[i].last_accessed, i>> # <<N[parent].last_accessed, parent>>
        BY <4>2
      <4> QED BY <1>5, <1>7, <4>1, <4>2, <4>3, <4>4
    <3> QED BY <3>1, <3>2
  <2> QED BY <2>1, <2>2, LeavesAre
<1> QED BY <1>10, <1>11, <1>12, <1>13, Zenon DEF TrieOK, U, M

\* The two parts of a list.
LEMMA CutList ==
    ASSUME NEW S, NEW s \in Seq(S), NEW n \in 0..Len(s)
    PROVE  /\ Take(s, n) \in Seq(S) /\ Len(Take(s, n)) = n
           /\ Skip(s, n) \in Seq(S) /\ Len(Skip(s, n)) = Len(s) - n
           /\ n > 0 => Take(s, n) # <<>> /\ Head(Take(s, n)) = Head(s)
           /\ n < Len(s) => Skip(s, n) # <<>> /\ Head(Skip(s, n)) = s[n + 1]
<1>1. Len(s) \in Nat /\ n \in Nat /\ n <= Len(s)
  BY LenProperties
<1>2. \A i \in 1..Len(s) : s[i] \in S
  BY ElementOfSeq
<1>3. /\ Take(s, n) \in Seq(S) /\ Len(Take(s, n)) = n
      /\ \A i \in 1..n : Take(s, n)[i] = s[i]
  BY <1>1, <1>2, SubSeqProperties DEF Take
<1>4. /\ Skip(s, n) \in Seq(S) /\ Len(Skip(s, n)) = Len(s) - n
      /\ \A i \in 1..(Len(s) - n) : Skip(s, n)[i] = s[n + i]
  BY <1>1, <1>2, SubSeqProperties DEF Skip
<1>5. n > 0 => Take(s, n) # <<>> /\ Head(Take(s, n)) = Head(s)
  <2> DEFINE t == Take(s, n)
  <2> SUFFICES ASSUME n > 0 PROVE t # <<>> /\ Head(t) = Head(s)
    OBVIOUS
  <2>1. t \in Seq(S) /\ Len(t) = n /\ t[1] = s[1]
    BY <1>1, <1>3
  <2> HIDE DEF t
  <2>2. Head(t) = t[1] /\ Head(s) = s[1] /\ t # <<>>
    BY <1>1, <2>1
  <2> QED BY <2>1, <2>2
<1>6. n < Len(s) => Skip(s, n) # <<>> /\ Head(Skip(s, n)) = s[n + 1]
  <2> DEFINE t == Skip(s, n)
  <2> SUFFICES ASSUME n < Len(s) PROVE t # <<>> /\ Head(t) = s[n + 1]
    OBVIOUS
  <2>1. t \in Seq(S) /\ Len(t) = Len(s) - n /\ t[1] = s[n + 1]
    BY <1>1, <1>4
  <2> HIDE DEF t
  <2>2. Head(t) = t[1] /\ t # <<>>
    BY <1>1, <2>1
  <2> QED BY <2>1, <2>2
<1> QED BY <1>3, <1>4, <1>5, <1>6

\* U is T with the node id split after n blocks: the new node takes its place and
\* its first blocks, and has it as its only child.
Split(T, U, id, n) ==
    LET N == T.nodes
        M == U.nodes
        P == T.next_id
        g == N[id].parent
    IN  /\ TrieFields \subseteq DOMAIN U
        /\ U.time = T.time /\ U.next_id = T.next_id + 1 /\ U.panicked = T.panicked
        /\ U.leaves = T.leaves
        /\ DOMAIN M = DOMAIN N \cup {P}
        /\ \A i \in DOMAIN N : i # id /\ i # g => M[i] = N[i]
        /\ NodeFields \subseteq DOMAIN M[id]
        /\ M[id].key = Skip(N[id].key, n) /\ M[id].blocks = Skip(N[id].blocks, n)
        /\ M[id].children = N[id].children /\ M[id].parent = P
        /\ M[id].last_accessed = N[id].last_accessed /\ M[id].ref_count = N[id].ref_count
        /\ NodeFields \subseteq DOMAIN M[P]
        /\ M[P].key = Take(N[id].key, n) /\ M[P].blocks = Take(N[id].blocks, n)
        /\ DOMAIN M[P].children = {N[id].key[n + 1]}
        /\ M[P].children[N[id].key[n + 1]] = id
        /\ M[P].parent = g /\ M[P].last_accessed = T.time /\ M[P].ref_count = 1
        /\ NodeFields \subseteq DOMAIN M[g]
        /\ M[g].key = N[g].key /\ M[g].blocks = N[g].blocks /\ M[g].parent = N[g].parent
        /\ M[g].last_accessed = N[g].last_accessed /\ M[g].ref_count = N[g].ref_count
        /\ DOMAIN M[g].children = DOMAIN N[g].children
        /\ M[g].children[Head(N[id].key)] = P
        /\ \A d \in DOMAIN N[g].children :
             d # Head(N[id].key) => M[g].children[d] = N[g].children[d]

\* split_node.
LEMMA SplitIs ==
    ASSUME NEW T, NEW ext, NEW C, NEW B, TrieOK(T, ext, C, B), NEW id \in NonRoot(T),
           NEW n \in 1..(Len(T.nodes[id].key) - 1)
    PROVE  Split(T, SplitNode(T, id, n), id, n)
<1> DEFINE N == T.nodes
           P == T.next_id
           node == N[id]
           g == node.parent
           c == Head(node.key)
           d == node.key[n + 1]
           cut == [T EXCEPT !.nodes[id].key = Skip(@, n), !.nodes[id].blocks = Skip(@, n)]
           rest == [node EXCEPT !.key = Skip(@, n), !.blocks = Skip(@, n)]
           A == AddNode(cut, g, Take(node.key, n), Take(node.blocks, n))
           K == AddNodeToParent(A, P, d, id)
           U == SplitNode(T, id, n)
<1>1. /\ TrieFields \subseteq DOMAIN T /\ P \in Nat /\ P \notin DOMAIN N /\ P # Root
      /\ id \in DOMAIN N /\ id # Root /\ id # P /\ NodeFields \subseteq DOMAIN node
  BY FreshId, NodeIs DEF TrieOK, StoreOK, NonRoot
<1>2. /\ g \in DOMAIN N /\ g # id /\ g # P /\ NodeFields \subseteq DOMAIN N[g]
      /\ c \in DOMAIN N[g].children
  <2>1. /\ g \in DOMAIN N /\ g # id /\ c \in DOMAIN N[g].children
    BY Zenon DEF TrieOK, LinksOK
  <2> QED BY <1>1, <2>1, NodeIs DEF TrieOK
<1>3. Head(Take(node.key, n)) = c
  <2>1. node.key \in Seq(C)
    BY <1>1, NodeIs DEF TrieOK
  <2>2. n \in 0..Len(node.key) /\ n > 0
    BY <2>1
  <2> QED BY <2>1, <2>2, CutList
<1>4. /\ TrieFields \subseteq DOMAIN cut
      /\ cut.nodes = [N EXCEPT ![id] = rest]
      /\ cut.time = T.time /\ cut.next_id = P /\ cut.panicked = T.panicked
      /\ cut.leaves = T.leaves
  BY <1>1, Zenon DEF TrieFields, NodeFields
<1>5. /\ NodeFields \subseteq DOMAIN rest
      /\ rest.key = Skip(node.key, n) /\ rest.blocks = Skip(node.blocks, n)
      /\ rest.children = node.children /\ rest.parent = g
      /\ rest.last_accessed = node.last_accessed /\ rest.ref_count = node.ref_count
  BY <1>1, Zenon DEF NodeFields
<1>6. U = [K EXCEPT !.nodes[id].parent = P]
  BY Zenon DEF SplitNode
<1> HIDE DEF cut, rest, U
<1>7. /\ DOMAIN cut.nodes = DOMAIN N /\ cut.nodes[id] = rest
      /\ \A i \in DOMAIN N : i # id => cut.nodes[i] = N[i]
  BY <1>1, <1>4, Zenon
<1>8. Added(cut, A, g, Take(node.key, n), Take(node.blocks, n))
  <2>1. /\ g \in DOMAIN cut.nodes /\ NodeFields \subseteq DOMAIN cut.nodes[g]
        /\ cut.next_id \notin DOMAIN cut.nodes
    BY <1>1, <1>2, <1>4, <1>7
  <2> QED BY <1>4, <2>1, AddIs, Zenon
<1> HIDE DEF A, c
<1>9. /\ TrieFields \subseteq DOMAIN A
      /\ A.time = T.time /\ A.next_id = P + 1 /\ A.panicked = T.panicked
      /\ DOMAIN A.nodes = DOMAIN N \cup {P}
      /\ \A i \in DOMAIN N : i # id /\ i # g => A.nodes[i] = N[i]
      /\ A.nodes[id] = rest
      /\ A.nodes[P] = TrieNode(Take(node.key, n), Take(node.blocks, n), T.time, g)
      /\ A.leaves = T.leaves \cup {<<T.time, P>>}
  <2>1. cut.nodes[g] = N[g]
    BY <1>2, <1>7
  <2>2. A.leaves = T.leaves \cup {<<T.time, P>>}
    BY <1>2, <1>3, <1>4, <1>8, <2>1, Zenon DEF Added
  <2>3. A.nodes[id] = rest
    BY <1>1, <1>2, <1>7, <1>8, Zenon DEF Added
  <2>4. \A i \in DOMAIN N : i # id /\ i # g => A.nodes[i] = N[i]
    BY <1>7, <1>8, Zenon DEF Added
  <2> QED BY <1>4, <1>7, <1>8, <2>2, <2>3, <2>4, Zenon DEF Added
<1>10. /\ NodeFields \subseteq DOMAIN A.nodes[g]
       /\ A.nodes[g].key = N[g].key /\ A.nodes[g].blocks = N[g].blocks
       /\ A.nodes[g].parent = N[g].parent /\ A.nodes[g].last_accessed = N[g].last_accessed
       /\ A.nodes[g].ref_count = N[g].ref_count
       /\ A.nodes[g].children = With(N[g].children, c, P)
  <2>1. cut.nodes[g] = N[g]
    BY <1>2, <1>7
  <2> QED BY <1>2, <1>3, <1>4, <1>8, <2>1, Zenon DEF Added
<1>11. /\ NodeFields \subseteq DOMAIN A.nodes[P]
       /\ A.nodes[P].key = Take(node.key, n) /\ A.nodes[P].blocks = Take(node.blocks, n)
       /\ A.nodes[P].children = <<>> /\ DOMAIN A.nodes[P].children = {} /\ A.nodes[P].parent = g
       /\ A.nodes[P].last_accessed = T.time /\ A.nodes[P].ref_count = 0
  <2> DEFINE k == Take(node.key, n)
             b == Take(node.blocks, n)
             m == TrieNode(k, b, T.time, g)
  <2>1. /\ NodeFields \subseteq DOMAIN m
        /\ m.key = k /\ m.blocks = b /\ m.last_accessed = T.time /\ m.parent = g
        /\ m.ref_count = 0 /\ DOMAIN m.children = {} /\ m.children = <<>>
    <3> HIDE DEF k, b, g
    <3> QED BY NewNode
  <2>2. A.nodes[P] = m
    BY <1>9
  <2> HIDE DEF m
  <2> QED BY <2>1, <2>2, Zenon
<1>12. Linked(A, K, P, d, id)
  BY <1>9, <1>11, LinkIs
<1> HIDE DEF K, d
<1>13. /\ TrieFields \subseteq DOMAIN K
       /\ K.time = T.time /\ K.next_id = P + 1 /\ K.panicked = T.panicked
       /\ DOMAIN K.nodes = DOMAIN N \cup {P}
       /\ K.leaves = A.leaves \ {<<T.time, P>>}
       /\ \A i \in DOMAIN N : K.nodes[i] = A.nodes[i]
  <2>1. \A i \in DOMAIN N : i # P /\ i \in DOMAIN A.nodes
    BY <1>1, <1>9
  <2>2. \A i \in DOMAIN N : K.nodes[i] = A.nodes[i]
    BY <1>12, <2>1, Zenon DEF Linked
  <2>3. d \notin DOMAIN A.nodes[P].children /\ P # Root
    BY <1>1, <1>11
  <2> QED BY <1>9, <1>11, <1>12, <2>2, <2>3, Zenon DEF Linked
<1>14. /\ NodeFields \subseteq DOMAIN K.nodes[P]
       /\ K.nodes[P].key = Take(node.key, n) /\ K.nodes[P].blocks = Take(node.blocks, n)
       /\ K.nodes[P].parent = g
       /\ K.nodes[P].last_accessed = T.time /\ K.nodes[P].ref_count = 1
       /\ DOMAIN K.nodes[P].children = {d} /\ K.nodes[P].children[d] = id
  <2>1. d \notin DOMAIN A.nodes[P].children /\ P # Root
    BY <1>1, <1>11
  <2>2. K.nodes[P].ref_count = A.nodes[P].ref_count + 1
        /\ K.nodes[P].children = With(A.nodes[P].children, d, id)
    BY <1>12, <2>1, Zenon DEF Linked
  <2>3. K.nodes[P].ref_count = 1
    BY <1>11, <2>2
  <2>4. K.nodes[P].children = With(<<>>, d, id)
    BY <1>11, <2>2
  <2>5. DOMAIN With(<<>>, d, id) = {d} /\ With(<<>>, d, id)[d] = id
    BY DEF With
  <2> QED BY <1>11, <1>12, <2>3, <2>4, <2>5, Zenon DEF Linked
<1>15. /\ DOMAIN With(N[g].children, c, P) = DOMAIN N[g].children
       /\ With(N[g].children, c, P)[c] = P
       /\ \A e \in DOMAIN N[g].children : e # c => With(N[g].children, c, P)[e] = N[g].children[e]
  <2> DEFINE f == N[g].children
  <2>1. c \in DOMAIN f
    BY <1>2 DEF c
  <2> HIDE DEF f
  <2>2. /\ DOMAIN With(f, c, P) = DOMAIN f /\ With(f, c, P)[c] = P
        /\ \A e \in DOMAIN f : e # c => With(f, c, P)[e] = f[e]
    BY <2>1 DEF With
  <2> QED BY <2>2, Zenon DEF f
<1> DEFINE below == [rest EXCEPT !.parent = P]
<1>16. /\ TrieFields \subseteq DOMAIN U
       /\ U.nodes = [K.nodes EXCEPT ![id] = [K.nodes[id] EXCEPT !.parent = P]]
       /\ U.time = K.time /\ U.next_id = K.next_id /\ U.panicked = K.panicked
       /\ U.leaves = K.leaves
  BY <1>6, <1>13, Zenon DEF TrieFields
<1>17. U.nodes = [K.nodes EXCEPT ![id] = below]
  BY <1>1, <1>9, <1>13, <1>16, Zenon
<1>18. /\ NodeFields \subseteq DOMAIN below
       /\ below.key = rest.key /\ below.blocks = rest.blocks
       /\ below.children = rest.children /\ below.parent = P
       /\ below.last_accessed = rest.last_accessed /\ below.ref_count = rest.ref_count
  BY <1>5, Zenon DEF NodeFields
<1> HIDE DEF below
<1>19. /\ DOMAIN U.nodes = DOMAIN N \cup {P} /\ U.nodes[id] = below
       /\ U.nodes[P] = K.nodes[P] /\ U.nodes[g] = A.nodes[g]
       /\ \A i \in DOMAIN N : i # id /\ i # g => U.nodes[i] = N[i]
  <2>1. id \in DOMAIN K.nodes /\ P \in DOMAIN K.nodes /\ g \in DOMAIN K.nodes
    BY <1>1, <1>2, <1>13
  <2>2. /\ DOMAIN U.nodes = DOMAIN K.nodes /\ U.nodes[id] = below
        /\ \A i \in DOMAIN K.nodes : i # id => U.nodes[i] = K.nodes[i]
    BY <1>17, <2>1, Zenon
  <2> QED BY <1>1, <1>2, <1>9, <1>13, <2>1, <2>2
<1>20. U.leaves = T.leaves
  <2>1. T.leaves = LeavesOf(N)
    BY DEF TrieOK
  <2>2. <<T.time, P>> \notin T.leaves
    BY <1>1, <2>1, LeafIs
  <2> QED BY <1>9, <1>13, <1>16, <2>2
<1>21. Split(T, U, id, n)
  <2>1. /\ U.nodes[id].key = Skip(node.key, n) /\ U.nodes[id].blocks = Skip(node.blocks, n)
        /\ U.nodes[id].children = node.children /\ U.nodes[id].parent = P
        /\ U.nodes[id].last_accessed = node.last_accessed
        /\ U.nodes[id].ref_count = node.ref_count /\ NodeFields \subseteq DOMAIN U.nodes[id]
    BY <1>5, <1>18, <1>19, Zenon
  <2>2. /\ NodeFields \subseteq DOMAIN U.nodes[P]
        /\ U.nodes[P].key = Take(node.key, n) /\ U.nodes[P].blocks = Take(node.blocks, n)
        /\ U.nodes[P].parent = g
        /\ U.nodes[P].last_accessed = T.time /\ U.nodes[P].ref_count = 1
        /\ DOMAIN U.nodes[P].children = {d} /\ U.nodes[P].children[d] = id
    BY <1>14, <1>19, Zenon
  <2>3. /\ NodeFields \subseteq DOMAIN U.nodes[g]
        /\ U.nodes[g].key = N[g].key /\ U.nodes[g].blocks = N[g].blocks
        /\ U.nodes[g].parent = N[g].parent /\ U.nodes[g].last_accessed = N[g].last_accessed
        /\ U.nodes[g].ref_count = N[g].ref_count
        /\ DOMAIN U.nodes[g].children = DOMAIN N[g].children
        /\ U.nodes[g].children[c] = P
        /\ \A e \in DOMAIN N[g].children : e # c => U.nodes[g].children[e] = N[g].children[e]
    <3>1. U.nodes[g] = A.nodes[g]
      BY <1>19
    <3>2. /\ NodeFields \subseteq DOMAIN U.nodes[g]
          /\ U.nodes[g].key = N[g].key /\ U.nodes[g].blocks = N[g].blocks
          /\ U.nodes[g].parent = N[g].parent /\ U.nodes[g].last_accessed = N[g].last_accessed
          /\ U.nodes[g].ref_count = N[g].ref_count
      BY ONLY <1>10, <3>1, Zenon
    <3>3. U.nodes[g].children = With(N[g].children, c, P)
      BY ONLY <1>10, <3>1, Zenon
    <3> QED BY ONLY <1>15, <3>2, <3>3, Zenon
  <2>4. U.time = T.time /\ U.next_id = P + 1 /\ U.panicked = T.panicked
    BY <1>13, <1>16, Zenon
  <2> QED BY <1>16, <1>19, <1>20, <2>1, <2>2, <2>3, <2>4, Zenon DEF Split, c, d
<1> QED BY <1>21 DEF U

\* split_node keeps a trie well formed.
LEMMA SplitOK ==
    ASSUME NEW T, NEW ext, NEW C, NEW B, TrieOK(T, ext, C, B), NEW id \in NonRoot(T),
           NEW n \in 1..(Len(T.nodes[id].key) - 1)
    PROVE  TrieOK(SplitNode(T, id, n), ext, C, B)
<1> DEFINE U == SplitNode(T, id, n)
           N == T.nodes
           M == U.nodes
           P == T.next_id
           g == N[id].parent
           c == Head(N[id].key)
           d == N[id].key[n + 1]
<1>1. StoreOK(T, C, B) /\ LinksOK(T) /\ CountsOK(T, ext) /\ T.leaves = LeavesOf(N)
  BY DEF TrieOK
<1>2. /\ P \in Nat /\ P \notin DOMAIN N /\ P # Root /\ ext[P] = 0 /\ T.time \in Nat
      /\ id \in DOMAIN N /\ id # Root /\ id # P /\ Root \in DOMAIN N /\ T.panicked = FALSE
  BY <1>1, FreshId DEF StoreOK, NonRoot
<1>3. g \in DOMAIN N /\ g # id /\ g # P /\ c \in DOMAIN N[g].children /\ N[g].children[c] = id
  <2>1. /\ g \in DOMAIN N /\ g # id /\ c \in DOMAIN N[g].children /\ N[g].children[c] = id
    BY <1>1, Zenon DEF LinksOK
  <2> QED BY <1>2, <2>1
<1>4. Split(T, U, id, n)
  BY SplitIs
<1>5. /\ Take(N[id].key, n) \in Seq(C) /\ Len(Take(N[id].key, n)) = n
      /\ Skip(N[id].key, n) \in Seq(C) /\ Len(Skip(N[id].key, n)) = Len(N[id].key) - n
      /\ Take(N[id].key, n) # <<>> /\ Head(Take(N[id].key, n)) = c
      /\ Skip(N[id].key, n) # <<>> /\ Head(Skip(N[id].key, n)) = d
  <2>1. N[id].key \in Seq(C) /\ n \in 0..Len(N[id].key) /\ n > 0 /\ n < Len(N[id].key)
    BY <1>1, <1>2, NodeIs
  <2> QED BY <2>1, CutList
<1>6. /\ Take(N[id].blocks, n) \in Seq(B) /\ Len(Take(N[id].blocks, n)) = n
      /\ Skip(N[id].blocks, n) \in Seq(B) /\ Len(Skip(N[id].blocks, n)) = Len(N[id].key) - n
  <2>1. N[id].blocks \in Seq(B) /\ Len(N[id].blocks) = Len(N[id].key) /\ n \in 0..Len(N[id].blocks)
    BY <1>1, <1>2, NodeIs
  <2> QED BY <2>1, CutList
<1> HIDE DEF U, c, d, g
<1>7. /\ TrieFields \subseteq DOMAIN U
      /\ U.time = T.time /\ U.next_id = P + 1 /\ U.panicked = T.panicked
      /\ U.leaves = T.leaves
      /\ DOMAIN M = DOMAIN N \cup {P}
      /\ \A i \in DOMAIN N : i # id /\ i # g => M[i] = N[i]
  BY <1>4, Zenon DEF Split, g
<1>8. /\ NodeFields \subseteq DOMAIN M[id]
      /\ M[id].key = Skip(N[id].key, n) /\ M[id].blocks = Skip(N[id].blocks, n)
      /\ M[id].children = N[id].children /\ M[id].parent = P
      /\ M[id].last_accessed = N[id].last_accessed /\ M[id].ref_count = N[id].ref_count
  BY <1>4, Zenon DEF Split, g
<1>9. /\ NodeFields \subseteq DOMAIN M[P]
      /\ M[P].key = Take(N[id].key, n) /\ M[P].blocks = Take(N[id].blocks, n)
      /\ DOMAIN M[P].children = {d} /\ M[P].children[d] = id
      /\ M[P].parent = g /\ M[P].last_accessed = T.time /\ M[P].ref_count = 1
  BY <1>4, Zenon DEF Split, g, d
<1>10. /\ NodeFields \subseteq DOMAIN M[g]
       /\ M[g].key = N[g].key /\ M[g].blocks = N[g].blocks /\ M[g].parent = N[g].parent
       /\ M[g].last_accessed = N[g].last_accessed /\ M[g].ref_count = N[g].ref_count
       /\ DOMAIN M[g].children = DOMAIN N[g].children /\ M[g].children[c] = P
       /\ \A e \in DOMAIN N[g].children : e # c => M[g].children[e] = N[g].children[e]
  BY <1>4, Zenon DEF Split, g, c
<1>11. \A i \in DOMAIN N : /\ M[i].last_accessed = N[i].last_accessed
                           /\ M[i].ref_count = N[i].ref_count
                           /\ DOMAIN M[i].children = DOMAIN N[i].children
  BY <1>7, <1>8, <1>10, Zenon
<1>12. \A i \in DOMAIN N : i # id => M[i].key = N[i].key /\ M[i].parent = N[i].parent
                                     /\ M[i].blocks = N[i].blocks
  BY <1>7, <1>10, Zenon
<1> HIDE DEF N, M, P
<1>13. StoreOK(U, C, B)
  <2>1. ASSUME NEW i \in DOMAIN M
        PROVE  /\ i \in Nat /\ i < U.next_id /\ NodeOK(M[i], C, B)
               /\ M[i].last_accessed <= U.time
    <3>1. CASE i = P
      <4>1. IsFiniteSet(DOMAIN M[P].children)
        BY <1>9, FS_Singleton
      <4>2. NodeOK(M[P], C, B)
        BY <1>2, <1>5, <1>6, <1>9, <4>1 DEF NodeOK
      <4> QED BY <1>2, <1>7, <1>9, <3>1, <4>2
    <3>2. CASE i # P
      <4>1. i \in DOMAIN N
        BY <1>7, <3>2
      <4>2. /\ i \in Nat /\ i < P
            /\ N[i].key \in Seq(C) /\ N[i].blocks \in Seq(B) /\ Len(N[i].key) = Len(N[i].blocks)
            /\ N[i].last_accessed \in Nat /\ N[i].ref_count \in Nat
            /\ N[i].last_accessed <= T.time /\ IsFiniteSet(DOMAIN N[i].children)
            /\ NodeFields \subseteq DOMAIN N[i]
        BY <1>1, <4>1, NodeIs DEF N, P
      <4>3. M[i].key \in Seq(C) /\ M[i].blocks \in Seq(B) /\ Len(M[i].key) = Len(M[i].blocks)
        <5>1. CASE i = id
          BY <1>5, <1>6, <1>8, <5>1
        <5>2. CASE i # id
          BY <1>12, <4>1, <4>2, <5>2
        <5> QED BY <5>1, <5>2
      <4>4. NodeFields \subseteq DOMAIN M[i]
        BY <1>7, <1>8, <1>10, <4>1, <4>2
      <4>5. /\ M[i].last_accessed \in Nat /\ M[i].ref_count \in Nat
            /\ IsFiniteSet(DOMAIN M[i].children)
        BY <1>11, <4>1, <4>2
      <4>6. NodeOK(M[i], C, B)
        BY <4>3, <4>4, <4>5, Zenon DEF NodeOK
      <4>7. i < U.next_id /\ M[i].last_accessed <= U.time
        BY <1>2, <1>7, <1>11, <4>1, <4>2
      <4> QED BY <4>2, <4>6, <4>7
    <3> QED BY <3>1, <3>2
  <2>2. U.next_id \in Nat /\ Root \in DOMAIN M
    BY <1>2, <1>7 DEF N
  <2> QED BY <1>2, <1>7, <2>1, <2>2, Zenon DEF StoreOK, M
<1>14. LinksOK(U)
  <2>1. ASSUME NEW i \in DOMAIN M, i # Root
        PROVE  /\ M[i].key # <<>> /\ M[i].parent \in DOMAIN M /\ M[i].parent # i
               /\ Head(M[i].key) \in DOMAIN M[M[i].parent].children
               /\ M[M[i].parent].children[Head(M[i].key)] = i
    <3>1. CASE i = P
      BY <1>3, <1>5, <1>7, <1>9, <1>10, <3>1
    <3>2. CASE i = id
      BY <1>2, <1>5, <1>7, <1>8, <1>9, <3>2
    <3>3. CASE i # P /\ i # id
      <4>1. i \in DOMAIN N /\ i \in NonRoot(T)
        BY <1>7, <2>1, <3>3 DEF NonRoot, N
      <4>2. /\ N[i].key # <<>> /\ N[i].parent \in DOMAIN N /\ N[i].parent # i
            /\ Head(N[i].key) \in DOMAIN N[N[i].parent].children
            /\ N[N[i].parent].children[Head(N[i].key)] = i
        BY <1>1, <4>1, Zenon DEF LinksOK, N
      <4>3. M[i].key = N[i].key /\ M[i].parent = N[i].parent
        BY <1>12, <3>3, <4>1
      <4>4. CASE N[i].parent = g
        <5>1. Head(N[i].key) # c
          BY <1>3, <3>3, <4>2, <4>4
        <5> QED BY <1>7, <1>10, <4>2, <4>3, <4>4, <5>1
      <4>5. CASE N[i].parent = id
        BY <1>7, <1>8, <4>2, <4>3, <4>5
      <4>6. CASE N[i].parent # g /\ N[i].parent # id
        BY <1>7, <4>2, <4>3, <4>6
      <4> QED BY <4>4, <4>5, <4>6
    <3> QED BY <3>1, <3>2, <3>3
  <2>2. ASSUME NEW i \in DOMAIN M, NEW e \in DOMAIN M[i].children
        PROVE  LET k == M[i].children[e]
               IN  k \in DOMAIN M \ {Root} /\ M[k].parent = i /\ Head(M[k].key) = e
    <3>1. CASE i = P
      BY <1>2, <1>5, <1>7, <1>8, <1>9, <3>1
    <3>2. CASE i = g /\ e = c
      BY <1>2, <1>5, <1>7, <1>9, <1>10, <3>2
    <3>3. CASE i # P /\ ~ (i = g /\ e = c)
      <4>1. i \in DOMAIN N
        BY <1>7, <3>3
      <4>2. e \in DOMAIN N[i].children
        BY <1>11, <4>1
      <4>3. M[i].children[e] = N[i].children[e]
        BY <1>7, <1>8, <1>10, <3>3, <4>1, <4>2
      <4> DEFINE k == N[i].children[e]
      <4>4. k \in NonRoot(T) /\ N[k].parent = i /\ Head(N[k].key) = e
        BY <1>1, <4>1, <4>2, Zenon DEF LinksOK, N
      <4>5. k \in DOMAIN N /\ k # Root
        BY <4>4 DEF NonRoot, N
      <4>6. k # id
        BY <3>3, <4>4 DEF g, c
      <4> QED BY <1>7, <1>12, <4>3, <4>4, <4>5, <4>6
    <3> QED BY <3>1, <3>2, <3>3
  <2> QED BY <2>1, <2>2, Zenon DEF LinksOK, NonRoot, M
<1>15. CountsOK(U, ext)
  <2>1. ext \in [Nat -> Nat] /\ \A i \in Nat : ext[i] > 0 => i \in DOMAIN M
    BY <1>1, <1>7 DEF CountsOK, N
  <2>2. ASSUME NEW i \in DOMAIN M, i # Root
        PROVE  M[i].ref_count = Cardinality(DOMAIN M[i].children) + ext[i]
    <3>1. CASE i = P
      <4>1. Cardinality({d}) = 1
        BY FS_Singleton
      <4>2. M[i].ref_count = 1 /\ DOMAIN M[i].children = {d} /\ ext[i] = 0
        BY <1>2, <1>9, <3>1
      <4> QED BY <4>1, <4>2
    <3>2. CASE i # P
      <4>1. i \in DOMAIN N /\ i \in NonRoot(T)
        BY <1>7, <2>2, <3>2 DEF NonRoot, N
      <4>2. N[i].ref_count = Cardinality(DOMAIN N[i].children) + ext[i]
        BY <1>1, <4>1 DEF CountsOK, N
      <4> QED BY <1>11, <4>1, <4>2
    <3> QED BY <3>1, <3>2
  <2> QED BY <2>1, <2>2, Zenon DEF CountsOK, NonRoot, M
<1>16. U.leaves = LeavesOf(M)
  <2>1. ASSUME NEW x \in U.leaves
        PROVE  \E i \in DOMAIN M \ {Root} :
                   M[i].ref_count = 0 /\ x = <<M[i].last_accessed, i>>
    <3>1. PICK i \in DOMAIN N \ {Root} : N[i].ref_count = 0 /\ x = <<N[i].last_accessed, i>>
      BY <1>1, <1>7, LeafOf
    <3> QED BY <1>7, <1>11, <3>1
  <2>2. ASSUME NEW i \in DOMAIN M \ {Root}, M[i].ref_count = 0
        PROVE  <<M[i].last_accessed, i>> \in U.leaves
    <3>1. i # P
      BY <1>9, <2>2
    <3>2. i \in DOMAIN N \ {Root}
      BY <1>7, <3>1
    <3>3. <<N[i].last_accessed, i>> \in T.leaves
      BY <1>1, <1>11, <2>2, <3>2, LeafIs
    <3> QED BY <1>7, <1>11, <3>2, <3>3
  <2> QED BY <2>1, <2>2, LeavesAre
<1> QED BY <1>13, <1>14, <1>15, <1>16, Zenon DEF TrieOK, U, M
-----------------------------------------------------------------------------
(* Removing a leaf and cutting one                                         *)

\* U is T without the leaf id; the other nodes keep their blocks and their access
\* times, and only the parent loses a reference.
Removed(T, U, id) ==
    /\ U.next_id = T.next_id /\ U.time = T.time
    /\ DOMAIN U.nodes = DOMAIN T.nodes \ {id}
    /\ \A i \in DOMAIN U.nodes :
         /\ U.nodes[i].blocks = T.nodes[i].blocks
         /\ U.nodes[i].key = T.nodes[i].key /\ U.nodes[i].parent = T.nodes[i].parent
         /\ U.nodes[i].last_accessed = T.nodes[i].last_accessed
         /\ U.nodes[i].ref_count <= T.nodes[i].ref_count

\* decref changes no blocks and no access times.
LEMMA DecrefKeeps ==
    ASSUME NEW T, NEW ext, NEW C, NEW B, TrieOK(T, ext, C, B), NEW id \in DOMAIN T.nodes
    PROVE  LET U == Decref(T, id)
           IN  /\ U.next_id = T.next_id /\ U.time = T.time
               /\ DOMAIN U.nodes = DOMAIN T.nodes
               /\ \A i \in DOMAIN U.nodes :
                    /\ U.nodes[i].blocks = T.nodes[i].blocks
                    /\ U.nodes[i].key = T.nodes[i].key /\ U.nodes[i].parent = T.nodes[i].parent
                    /\ U.nodes[i].last_accessed = T.nodes[i].last_accessed
                    /\ U.nodes[i].ref_count <= T.nodes[i].ref_count
                    /\ i # id => U.nodes[i] = T.nodes[i]
<1> DEFINE U == Decref(T, id)
           n == T.nodes[id]
           Changed(v) == /\ U.nodes = [T.nodes EXCEPT ![id] = [n EXCEPT !.ref_count = v]]
                         /\ U.next_id = T.next_id /\ U.time = T.time
           Same == U.nodes = T.nodes /\ U.next_id = T.next_id /\ U.time = T.time
<1>1. TrieFields \subseteq DOMAIN T /\ NodeFields \subseteq DOMAIN n /\ n.ref_count \in Nat
      /\ \A i \in DOMAIN T.nodes : T.nodes[i].ref_count \in Nat
  BY NodeIs DEF TrieOK, StoreOK
<1>2. Same \/ Changed(n.ref_count - 1) \/ Changed(0)
  BY <1>1, Zenon DEF Decref, Panic, TrieFields, NodeFields
<1>3. \A v : /\ [n EXCEPT !.ref_count = v].blocks = n.blocks
             /\ [n EXCEPT !.ref_count = v].key = n.key
             /\ [n EXCEPT !.ref_count = v].parent = n.parent
             /\ [n EXCEPT !.ref_count = v].last_accessed = n.last_accessed
             /\ [n EXCEPT !.ref_count = v].ref_count = v
  <2>1. NodeFields \subseteq DOMAIN n
    BY <1>1
  <2> HIDE DEF n
  <2> QED BY ONLY <2>1, NodeUpdate, Zenon DEF Alike
<1>4. ASSUME NEW v \in Int, v <= n.ref_count, Changed(v)
      PROVE  /\ U.next_id = T.next_id /\ U.time = T.time
             /\ DOMAIN U.nodes = DOMAIN T.nodes
             /\ \A i \in DOMAIN U.nodes :
                  /\ U.nodes[i].blocks = T.nodes[i].blocks
                  /\ U.nodes[i].key = T.nodes[i].key /\ U.nodes[i].parent = T.nodes[i].parent
                  /\ U.nodes[i].last_accessed = T.nodes[i].last_accessed
                  /\ U.nodes[i].ref_count <= T.nodes[i].ref_count
                  /\ i # id => U.nodes[i] = T.nodes[i]
  <2> DEFINE m == [n EXCEPT !.ref_count = v]
  <2>1. /\ m.blocks = n.blocks /\ m.key = n.key /\ m.parent = n.parent
        /\ m.last_accessed = n.last_accessed /\ m.ref_count = v
    BY <1>3, Zenon
  <2>2. U.nodes = [T.nodes EXCEPT ![id] = m] /\ U.next_id = T.next_id /\ U.time = T.time
    BY <1>4
  <2> HIDE DEF m, U
  <2>3. /\ DOMAIN U.nodes = DOMAIN T.nodes
        /\ \A i \in DOMAIN U.nodes : U.nodes[i] = IF i = id THEN m ELSE T.nodes[i]
    BY <2>2, Zenon
  <2>4. \A i \in DOMAIN U.nodes : U.nodes[i].ref_count <= T.nodes[i].ref_count
    BY <1>1, <1>4, <2>1, <2>3
  <2> QED BY <2>1, <2>2, <2>3, <2>4, Zenon
<1>5. n.ref_count - 1 \in Int /\ n.ref_count - 1 <= n.ref_count /\ 0 \in Int /\ 0 <= n.ref_count
  BY <1>1
<1>6. CASE Same
  <2>1. \A i \in DOMAIN T.nodes : T.nodes[i].ref_count <= T.nodes[i].ref_count
    BY <1>1
  <2> QED BY <1>6, <2>1, Zenon
<1> HIDE DEF Changed, Same, U
<1> QED BY <1>2, <1>4, <1>5, <1>6, Zenon DEF U

\* remove_node of the leaf that was popped keeps a trie well formed, and the decref
\* of the parent does not fail.
LEMMA RemoveOK ==
    ASSUME NEW T, NEW ext, NEW C, NEW B, TrieOK(T, ext, C, B), NEW id \in NonRoot(T),
           T.nodes[id].ref_count = 0,
           NEW T2, T2 = [T EXCEPT !.leaves = @ \ {<<T.nodes[id].last_accessed, id>>}]
    PROVE  /\ TrieOK(RemoveNode(T2, id), ext, C, B)
           /\ Removed(T, RemoveNode(T2, id), id)
<1> DEFINE N == T.nodes
           g == N[id].parent
           c == Head(N[id].key)
           rest == [Without(N, id) EXCEPT ![g].children = Without(@, c)]
           V == [T2 EXCEPT !.nodes = rest]
           M == V.nodes
           kids == DOMAIN N[id].children
           entry == <<N[id].last_accessed, id>>
<1>1. StoreOK(T, C, B) /\ LinksOK(T) /\ CountsOK(T, ext) /\ T.leaves = LeavesOf(N)
  BY DEF TrieOK
<1>2. /\ id \in DOMAIN N /\ id # Root /\ id \in Nat /\ T.time \in Nat /\ T.next_id \in Nat
      /\ Root \in DOMAIN N /\ T.panicked = FALSE /\ TrieFields \subseteq DOMAIN T
  BY <1>1, NodeIs DEF StoreOK, NonRoot
<1>3. /\ g \in DOMAIN N /\ g # id /\ c \in DOMAIN N[g].children /\ N[g].children[c] = id
      /\ NodeFields \subseteq DOMAIN N[g] /\ g \in Nat
  <2>1. /\ g \in DOMAIN N /\ g # id /\ c \in DOMAIN N[g].children /\ N[g].children[c] = id
    BY <1>1, Zenon DEF LinksOK
  <2> QED BY <1>1, <2>1, NodeIs
<1>4. kids = {} /\ ext[id] = 0 /\ ext \in [Nat -> Nat]
  <2>1. ext[id] \in Nat /\ ext \in [Nat -> Nat]
    BY <1>1, <1>2 DEF CountsOK
  <2>2. IsFiniteSet(kids)
    BY <1>1, <1>2, NodeIs
  <2>3. Cardinality(kids) \in Nat
    BY <2>2, FS_CardinalityType
  <2>4. Cardinality(kids) + ext[id] = 0
    BY <1>1 DEF CountsOK
  <2>5. Cardinality(kids) = 0 /\ ext[id] = 0
    BY <2>1, <2>3, <2>4
  <2> QED BY <2>1, <2>2, <2>5, FS_EmptySet
<1>5. /\ TrieFields \subseteq DOMAIN T2 /\ T2.nodes = N /\ T2.time = T.time
      /\ T2.next_id = T.next_id /\ T2.panicked = T.panicked /\ T2.leaves = T.leaves \ {entry}
  BY <1>2, Zenon DEF TrieFields
<1>6. RemoveNode(T2, id) = Decref(V, g)
  BY <1>4, <1>5, Zenon DEF RemoveNode
<1> DEFINE W == Without(N, id)
           n == N[g]
           m == [n EXCEPT !.children = Without(@, c)]
<1>7. DOMAIN W = DOMAIN N \ {id} /\ \A i \in DOMAIN W : W[i] = N[i]
  BY DEF Without
<1>8. /\ TrieFields \subseteq DOMAIN V /\ V.time = T.time /\ V.next_id = T.next_id
      /\ V.panicked = T.panicked /\ V.leaves = T.leaves \ {entry}
      /\ M = rest
  <2> HIDE DEF rest
  <2> QED BY <1>5, Zenon DEF TrieFields
<1>9. W[g] = n /\ g \in DOMAIN W
  BY <1>3, <1>7
<1>10. M = [W EXCEPT ![g] = m]
  BY <1>8, <1>9, Zenon
<1> HIDE DEF rest
<1>11. /\ NodeFields \subseteq DOMAIN m
       /\ m.key = n.key /\ m.blocks = n.blocks /\ m.parent = n.parent
       /\ m.last_accessed = n.last_accessed /\ m.ref_count = n.ref_count
       /\ m.children = Without(n.children, c)
  BY <1>3, Zenon DEF NodeFields
<1> HIDE DEF V, m, W
<1>12. /\ DOMAIN M = DOMAIN N \ {id} /\ M[g] = m
       /\ \A i \in DOMAIN M : i # g => M[i] = N[i]
  <2>1. DOMAIN M = DOMAIN W /\ M[g] = m /\ \A i \in DOMAIN W : i # g => M[i] = W[i]
    BY <1>9, <1>10, Zenon
  <2> QED BY <1>7, <2>1
<1>13. /\ DOMAIN M[g].children = DOMAIN N[g].children \ {c}
       /\ \A d \in DOMAIN M[g].children : M[g].children[d] = N[g].children[d]
  <2> DEFINE f == n.children
  <2>1. M[g].children = Without(f, c)
    BY <1>11, <1>12
  <2> HIDE DEF f
  <2>2. /\ DOMAIN Without(f, c) = DOMAIN f \ {c}
        /\ \A d \in DOMAIN Without(f, c) : Without(f, c)[d] = f[d]
    BY DEF Without
  <2> QED BY <2>1, <2>2, Zenon DEF f
<1>14. \A i \in DOMAIN M : /\ i \in DOMAIN N /\ M[i].key = N[i].key /\ M[i].blocks = N[i].blocks
                           /\ M[i].parent = N[i].parent
                           /\ M[i].last_accessed = N[i].last_accessed
                           /\ M[i].ref_count = N[i].ref_count
                           /\ NodeFields \subseteq DOMAIN M[i]
  <2>1. \A i \in DOMAIN M : i \in DOMAIN N
    BY <1>12
  <2>2. \A i \in DOMAIN N : NodeFields \subseteq DOMAIN N[i]
    BY <1>1, NodeIs
  <2> QED BY <1>11, <1>12, <2>1, <2>2, Zenon
<1> HIDE DEF M, n, N, g, c
<1>15. StoreOK(V, C, B)
  <2>1. ASSUME NEW i \in DOMAIN M
        PROVE  /\ i \in Nat /\ i < V.next_id /\ NodeOK(M[i], C, B)
               /\ M[i].last_accessed <= V.time
    <3>1. /\ i \in Nat /\ i < T.next_id
          /\ N[i].key \in Seq(C) /\ N[i].blocks \in Seq(B) /\ Len(N[i].key) = Len(N[i].blocks)
          /\ N[i].last_accessed \in Nat /\ N[i].ref_count \in Nat
          /\ N[i].last_accessed <= T.time /\ IsFiniteSet(DOMAIN N[i].children)
      BY <1>1, <1>14, NodeIs DEF N
    <3>2. IsFiniteSet(DOMAIN M[i].children)
      <4>1. CASE i = g
        BY <1>13, <3>1, <4>1, FS_RemoveElement
      <4>2. CASE i # g
        BY <1>12, <3>1, <4>2
      <4> QED BY <4>1, <4>2
    <3>3. NodeOK(M[i], C, B)
      BY <1>14, <3>1, <3>2, Zenon DEF NodeOK
    <3> QED BY <1>8, <1>14, <3>1, <3>3
  <2>2. Root \in DOMAIN M
    BY <1>2, <1>12 DEF N
  <2> QED BY <1>2, <1>8, <2>1, <2>2, Zenon DEF StoreOK, M
<1>16. LinksOK(V)
  <2>1. ASSUME NEW i \in DOMAIN M, i # Root
        PROVE  /\ M[i].key # <<>> /\ M[i].parent \in DOMAIN M /\ M[i].parent # i
               /\ Head(M[i].key) \in DOMAIN M[M[i].parent].children
               /\ M[M[i].parent].children[Head(M[i].key)] = i
    <3>1. i \in DOMAIN N /\ i \in NonRoot(T) /\ i # id
      BY <1>12, <2>1 DEF NonRoot, N
    <3>2. /\ N[i].key # <<>> /\ N[i].parent \in DOMAIN N /\ N[i].parent # i
          /\ Head(N[i].key) \in DOMAIN N[N[i].parent].children
          /\ N[N[i].parent].children[Head(N[i].key)] = i
      BY <1>1, <3>1, Zenon DEF LinksOK, N
    <3>3. M[i].key = N[i].key /\ M[i].parent = N[i].parent
      BY <1>14
    <3>4. N[i].parent # id
      BY <1>4, <3>2 DEF N
    <3>5. CASE N[i].parent = g
      <4>1. Head(N[i].key) # c
        BY <1>3, <3>1, <3>2, <3>5
      <4> QED BY <1>12, <1>13, <3>2, <3>3, <3>4, <3>5, <4>1
    <3>6. CASE N[i].parent # g
      BY <1>12, <3>2, <3>3, <3>4, <3>6
    <3> QED BY <3>5, <3>6
  <2>2. ASSUME NEW i \in DOMAIN M, NEW d \in DOMAIN M[i].children
        PROVE  LET k == M[i].children[d]
               IN  k \in DOMAIN M \ {Root} /\ M[k].parent = i /\ Head(M[k].key) = d
    <3>1. i \in DOMAIN N /\ d \in DOMAIN N[i].children /\ M[i].children[d] = N[i].children[d]
          /\ ~ (i = g /\ d = c)
      BY <1>12, <1>13
    <3> DEFINE k == N[i].children[d]
    <3>2. k \in NonRoot(T) /\ N[k].parent = i /\ Head(N[k].key) = d
      BY <1>1, <3>1, Zenon DEF LinksOK, N
    <3>3. k \in DOMAIN N /\ k # Root
      BY <3>2 DEF NonRoot, N
    <3>4. k # id
      BY <3>1, <3>2 DEF g, c
    <3> QED BY <1>12, <1>14, <3>1, <3>2, <3>3, <3>4
  <2> QED BY <2>1, <2>2, Zenon DEF LinksOK, NonRoot, M
<1> DEFINE more == More(ext, g)
<1>17. /\ more \in [Nat -> Nat] /\ more[g] = ext[g] + 1 /\ more[g] > 0
       /\ \A i \in Nat : i # g => more[i] = ext[i]
       /\ Less(more, g) = ext
  <2>1. g \in Nat
    BY <1>3 DEF g, N
  <2> HIDE DEF g
  <2> QED BY <1>4, <2>1, MoreLess
<1> HIDE DEF more
<1>18. CountsOK(V, more)
  <2>1. \A i \in Nat : more[i] > 0 => i \in DOMAIN M
    <3>1. ASSUME NEW i \in Nat, more[i] > 0 PROVE i \in DOMAIN M
      <4>1. g \in DOMAIN M
        BY <1>3, <1>12
      <4>2. CASE i # g
        <5>1. i \in DOMAIN N /\ i # id
          BY <1>1, <1>4, <1>17, <3>1, <4>2 DEF CountsOK, N
        <5> QED BY <1>12, <5>1
      <4> QED BY <4>1, <4>2
    <3> QED BY <3>1
  <2>2. ASSUME NEW i \in DOMAIN M, i # Root
        PROVE  M[i].ref_count = Cardinality(DOMAIN M[i].children) + more[i]
    <3>1. i \in DOMAIN N /\ i \in NonRoot(T) /\ i \in Nat
      BY <1>1, <1>12, <2>2, NodeIs DEF NonRoot, N
    <3>2. N[i].ref_count = Cardinality(DOMAIN N[i].children) + ext[i]
      BY <1>1, <3>1 DEF CountsOK, N
    <3>3. CASE i = g
      <4>1. IsFiniteSet(DOMAIN N[i].children) /\ ext[i] \in Nat
        BY <1>1, <1>4, <3>1, NodeIs DEF N
      <4>2. Cardinality(DOMAIN N[i].children \ {c}) = Cardinality(DOMAIN N[i].children) - 1
        BY <1>3, <3>3, <4>1, FS_RemoveElement
      <4>3. Cardinality(DOMAIN N[i].children) \in Nat
        BY <4>1, FS_CardinalityType
      <4>4. M[i].ref_count = N[i].ref_count /\ more[i] = ext[i] + 1
        BY <1>14, <1>17, <3>3
      <4>5. Cardinality(DOMAIN M[i].children) = Cardinality(DOMAIN N[i].children) - 1
        BY <1>13, <3>3, <4>2
      <4> DEFINE x == Cardinality(DOMAIN N[i].children)
                 y == Cardinality(DOMAIN M[i].children)
      <4>6. x \in Nat /\ N[i].ref_count = x + ext[i] /\ y = x - 1
        BY <3>2, <4>3, <4>5
      <4> HIDE DEF x, y
      <4>7. M[i].ref_count = y + more[i]
        BY <4>1, <4>4, <4>6
      <4> QED BY <4>7 DEF y
    <3>4. CASE i # g
      BY <1>12, <1>17, <3>1, <3>2, <3>4
    <3> QED BY <3>3, <3>4
  <2> QED BY <1>17, <2>1, <2>2, Zenon DEF CountsOK, NonRoot, M
<1>19. V.leaves = LeavesOf(M)
  <2>1. ASSUME NEW x \in V.leaves
        PROVE  \E i \in DOMAIN M \ {Root} :
                   M[i].ref_count = 0 /\ x = <<M[i].last_accessed, i>>
    <3>1. PICK i \in DOMAIN N \ {Root} : N[i].ref_count = 0 /\ x = <<N[i].last_accessed, i>>
      BY <1>1, <1>8, LeafOf
    <3>2. i # id
      BY <1>8, <3>1
    <3> QED BY <1>12, <1>14, <3>1, <3>2
  <2>2. ASSUME NEW i \in DOMAIN M \ {Root}, M[i].ref_count = 0
        PROVE  <<M[i].last_accessed, i>> \in V.leaves
    <3>1. i # id /\ i \in DOMAIN N \ {Root}
      BY <1>12
    <3>2. <<N[i].last_accessed, i>> \in T.leaves
      BY <1>1, <1>14, <2>2, <3>1, LeafIs
    <3>3. <<N[i].last_accessed, i>> # entry
      BY <3>1
    <3> QED BY <1>8, <1>14, <3>2, <3>3
  <2> QED BY <2>1, <2>2, LeavesAre
<1>20. TrieOK(V, more, C, B)
  BY <1>15, <1>16, <1>18, <1>19, Zenon DEF TrieOK, M
<1>21. g \in DOMAIN V.nodes
  BY <1>3, <1>12 DEF M
<1>22. TrieOK(Decref(V, g), Less(more, g), C, B)
  BY <1>17, <1>20, <1>21, DecrefOK, Zenon
<1> DEFINE U == Decref(V, g)
<1>23. Removed(T, U, id)
  <2>1. /\ U.next_id = V.next_id /\ U.time = V.time
        /\ DOMAIN U.nodes = DOMAIN M
        /\ \A i \in DOMAIN U.nodes : /\ U.nodes[i].blocks = M[i].blocks
                                     /\ U.nodes[i].key = M[i].key
                                     /\ U.nodes[i].parent = M[i].parent
                                     /\ U.nodes[i].last_accessed = M[i].last_accessed
                                     /\ U.nodes[i].ref_count <= M[i].ref_count
    BY <1>20, <1>21, DecrefKeeps, Zenon DEF M
  <2> HIDE DEF U
  <2>2. DOMAIN U.nodes = DOMAIN T.nodes \ {id}
    BY <1>12, <2>1 DEF N
  <2>3. \A i \in DOMAIN U.nodes :
          /\ U.nodes[i].blocks = T.nodes[i].blocks
          /\ U.nodes[i].key = T.nodes[i].key /\ U.nodes[i].parent = T.nodes[i].parent
          /\ U.nodes[i].last_accessed = T.nodes[i].last_accessed
          /\ U.nodes[i].ref_count <= T.nodes[i].ref_count
    BY <1>14, <2>1, Zenon DEF N
  <2> QED BY <1>8, <2>1, <2>2, <2>3, Zenon DEF Removed
<1> QED BY <1>6, <1>17, <1>22, <1>23, Zenon DEF g, c, N, V

\* U is T with the node n instead of id.
Replaced(T, U, id, n) ==
    /\ TrieFields \subseteq DOMAIN U /\ U.leaves = T.leaves
    /\ U.time = T.time /\ U.next_id = T.next_id /\ U.panicked = T.panicked
    /\ U.nodes = [T.nodes EXCEPT ![id] = n]

\* m is node n with its first k blocks only.
ShortNode(n, m, k) ==
    /\ NodeFields \subseteq DOMAIN m
    /\ m.key = Take(n.key, k) /\ m.blocks = Take(n.blocks, k)
    /\ m.children = n.children /\ m.parent = n.parent
    /\ m.last_accessed = n.last_accessed /\ m.ref_count = n.ref_count

\* A leaf cut to its first k blocks, k > 0, keeps its place.
LEMMA CutOK ==
    ASSUME NEW T, NEW ext, NEW C, NEW B, TrieOK(T, ext, C, B), NEW id \in NonRoot(T),
           NEW k \in 1..Len(T.nodes[id].key),
           NEW m, ShortNode(T.nodes[id], m, k),
           NEW U, Replaced(T, U, id, m)
    PROVE  /\ TrieOK(U, ext, C, B)
           /\ DOMAIN U.nodes = DOMAIN T.nodes
           /\ \A i \in DOMAIN T.nodes :
                /\ U.nodes[i].last_accessed = T.nodes[i].last_accessed
                /\ U.nodes[i].ref_count = T.nodes[i].ref_count
                /\ i # id => U.nodes[i] = T.nodes[i]
<1> DEFINE N == T.nodes
           M == U.nodes
           n == N[id]
<1>1. StoreOK(T, C, B) /\ LinksOK(T) /\ CountsOK(T, ext) /\ T.leaves = LeavesOf(N)
  BY DEF TrieOK
<1>2. /\ id \in DOMAIN N /\ id # Root /\ T.time \in Nat /\ T.next_id \in Nat
      /\ Root \in DOMAIN N /\ T.panicked = FALSE
  BY <1>1 DEF StoreOK, NonRoot
<1>3. /\ NodeFields \subseteq DOMAIN n /\ n.key \in Seq(C) /\ n.blocks \in Seq(B)
      /\ Len(n.key) = Len(n.blocks)
  BY <1>1, <1>2, NodeIs
<1>4. /\ NodeFields \subseteq DOMAIN m
      /\ m.key = Take(n.key, k) /\ m.blocks = Take(n.blocks, k)
      /\ m.children = n.children /\ m.parent = n.parent
      /\ m.last_accessed = n.last_accessed /\ m.ref_count = n.ref_count
  BY Zenon DEF ShortNode
<1>5. /\ M = [N EXCEPT ![id] = m]
      /\ TrieFields \subseteq DOMAIN U /\ U.leaves = T.leaves
      /\ U.time = T.time /\ U.next_id = T.next_id /\ U.panicked = T.panicked
  BY Zenon DEF Replaced
<1>6. /\ DOMAIN M = DOMAIN N
      /\ \A i \in DOMAIN N : M[i] = IF i = id THEN m ELSE N[i]
  BY <1>2, <1>5, Zenon
<1>7. /\ Take(n.key, k) \in Seq(C) /\ Len(Take(n.key, k)) = k
      /\ Take(n.key, k) # <<>> /\ Head(Take(n.key, k)) = Head(n.key)
      /\ Take(n.blocks, k) \in Seq(B) /\ Len(Take(n.blocks, k)) = k
  <2>1. k \in 0..Len(n.key) /\ k \in 0..Len(n.blocks) /\ k > 0
    BY <1>3
  <2>2. n.key \in Seq(C) /\ n.blocks \in Seq(B)
    BY <1>3
  <2> HIDE DEF n
  <2> QED BY <2>1, <2>2, CutList
<1>8. \A i \in DOMAIN N :
        /\ M[i].children = N[i].children /\ M[i].parent = N[i].parent
        /\ M[i].last_accessed = N[i].last_accessed /\ M[i].ref_count = N[i].ref_count
        /\ i # id => M[i] = N[i]
  BY <1>4, <1>6, Zenon
<1>9. \A i \in NonRoot(T) : M[i].key # <<>> /\ Head(M[i].key) = Head(N[i].key)
  <2>1. ASSUME NEW i \in NonRoot(T) PROVE M[i].key # <<>> /\ Head(M[i].key) = Head(N[i].key)
    <3>1. N[i].key # <<>> /\ i \in DOMAIN N
      BY <1>1, Zenon DEF LinksOK, NonRoot
    <3>2. CASE i = id
      BY <1>4, <1>6, <1>7, <3>1, <3>2
    <3>3. CASE i # id
      BY <1>6, <3>1, <3>3
    <3> QED BY <3>2, <3>3
  <2> QED BY <2>1
<1> HIDE DEF N, M, n
<1>10. StoreOK(U, C, B)
  <2>1. ASSUME NEW i \in DOMAIN M
        PROVE  /\ i \in Nat /\ i < U.next_id /\ NodeOK(M[i], C, B)
               /\ M[i].last_accessed <= U.time
    <3>1. /\ i \in Nat /\ i < T.next_id /\ i \in DOMAIN N /\ NodeOK(N[i], C, B)
          /\ N[i].last_accessed <= T.time
      BY <1>1, <1>6 DEF N, StoreOK
    <3>2. NodeOK(M[i], C, B)
      <4>1. CASE i = id
        <5>1. M[i] = m /\ N[i] = n
          BY <1>6, <3>1, <4>1 DEF n
        <5>2. NodeOK(m, C, B)
          BY <1>4, <1>7, <3>1, <5>1 DEF NodeOK
        <5> QED BY <5>1, <5>2
      <4>2. CASE i # id
        BY <1>6, <3>1, <4>2
      <4> QED BY <4>1, <4>2
    <3> QED BY <1>5, <1>8, <3>1, <3>2
  <2> QED BY <1>2, <1>5, <1>6, <2>1 DEF StoreOK, M, N
<1>11. LinksOK(U)
  <2>1. NonRoot(U) = NonRoot(T)
    BY <1>6 DEF NonRoot, M, N
  <2>2. ASSUME NEW i \in NonRoot(T)
        PROVE  /\ M[i].key # <<>> /\ M[i].parent \in DOMAIN M /\ M[i].parent # i
               /\ Head(M[i].key) \in DOMAIN M[M[i].parent].children
               /\ M[M[i].parent].children[Head(M[i].key)] = i
    <3>1. /\ i \in DOMAIN N /\ N[i].parent \in DOMAIN N /\ N[i].parent # i
          /\ Head(N[i].key) \in DOMAIN N[N[i].parent].children
          /\ N[N[i].parent].children[Head(N[i].key)] = i
      BY <1>1, Zenon DEF LinksOK, N, NonRoot
    <3> QED BY <1>6, <1>8, <1>9, <3>1
  <2>3. ASSUME NEW i \in DOMAIN M, NEW d \in DOMAIN M[i].children
        PROVE  LET j == M[i].children[d]
               IN  j \in NonRoot(T) /\ M[j].parent = i /\ Head(M[j].key) = d
    <3>1. i \in DOMAIN N /\ d \in DOMAIN N[i].children /\ M[i].children = N[i].children
      BY <1>6, <1>8
    <3> DEFINE j == N[i].children[d]
    <3>2. j \in NonRoot(T) /\ N[j].parent = i /\ Head(N[j].key) = d
      BY <1>1, <3>1, Zenon DEF LinksOK, N
    <3>3. j \in DOMAIN N
      BY <3>2 DEF NonRoot, N
    <3> QED BY <1>8, <1>9, <3>1, <3>2, <3>3
  <2> QED BY <2>1, <2>2, <2>3, Zenon DEF LinksOK, M
<1>12. CountsOK(U, ext)
  <2>1. NonRoot(U) = NonRoot(T) /\ \A i \in NonRoot(T) : i \in DOMAIN N
    BY <1>6 DEF NonRoot, M, N
  <2>2. ext \in [Nat -> Nat] /\ \A i \in Nat : ext[i] > 0 => i \in DOMAIN M
    BY <1>1, <1>6 DEF CountsOK, N
  <2>3. \A i \in NonRoot(T) : M[i].ref_count = Cardinality(DOMAIN M[i].children) + ext[i]
    BY <1>1, <1>8, <2>1 DEF CountsOK, N
  <2> QED BY <2>1, <2>2, <2>3, Zenon DEF CountsOK, M
<1>13. U.leaves = LeavesOf(M)
  <2>1. ASSUME NEW x \in U.leaves
        PROVE  \E i \in DOMAIN M \ {Root} :
                   M[i].ref_count = 0 /\ x = <<M[i].last_accessed, i>>
    <3>1. PICK i \in DOMAIN N \ {Root} : N[i].ref_count = 0 /\ x = <<N[i].last_accessed, i>>
      BY <1>1, <1>5, LeafOf
    <3> QED BY <1>6, <1>8, <3>1
  <2>2. ASSUME NEW i \in DOMAIN M \ {Root}, M[i].ref_count = 0
        PROVE  <<M[i].last_accessed, i>> \in U.leaves
    <3>1. i \in DOMAIN N \ {Root}
      BY <1>6
    <3>2. <<N[i].last_accessed, i>> \in T.leaves
      BY <1>1, <1>8, <2>2, <3>1, LeafIs
    <3> QED BY <1>5, <1>8, <3>1, <3>2
  <2> QED BY <2>1, <2>2, LeavesAre
<1>14. TrieOK(U, ext, C, B)
  BY <1>10, <1>11, <1>12, <1>13, Zenon DEF TrieOK, M
<1> QED BY <1>6, <1>8, <1>14, Zenon DEF M, N

\* pop_first returns a leaf, and none is older.
LEMMA FirstLeafIs ==
    ASSUME NEW T, NEW C, NEW B, StoreOK(T, C, B), T.leaves = LeavesOf(T.nodes), T.leaves # {}
    PROVE  LET l == FirstLeaf(T.leaves)
           IN  /\ l[2] \in NonRoot(T) /\ T.nodes[l[2]].ref_count = 0
               /\ l = <<T.nodes[l[2]].last_accessed, l[2]>>
               /\ \A i \in NonRoot(T) : T.nodes[i].ref_count = 0 =>
                    T.nodes[l[2]].last_accessed <= T.nodes[i].last_accessed
<1> DEFINE N == T.nodes
           L == T.leaves
           First(l) == \A o \in L : l[1] < o[1] \/ (l[1] = o[1] /\ l[2] <= o[2])
<1>1. \A x \in L : \E i \in DOMAIN N \ {Root} :
          N[i].ref_count = 0 /\ x = <<N[i].last_accessed, i>>
  BY LeafOf
<1>2. \A i \in DOMAIN N : i \in Nat /\ N[i].last_accessed \in Nat
  BY NodeIs
<1>3. \A x \in L : x[1] \in Nat /\ x[2] \in Nat /\ x = <<x[1], x[2]>>
  BY <1>1, <1>2
<1>4. PICK t \in {x[1] : x \in L} : \A u \in {x[1] : x \in L} : t <= u
  <2> DEFINE S == {x[1] : x \in L}
  <2>1. S \subseteq Nat /\ S # {}
    BY <1>3
  <2> HIDE DEF S
  <2>2. \E u \in S : \A v \in S : u <= v
    BY <2>1, LeastNumber
  <2> QED BY <2>2 DEF S
<1>5. PICK j \in {x[2] : x \in {y \in L : y[1] = t}} :
          \A u \in {x[2] : x \in {y \in L : y[1] = t}} : j <= u
  <2> DEFINE S == {x[2] : x \in {y \in L : y[1] = t}}
  <2>1. S \subseteq Nat /\ S # {}
    BY <1>3
  <2> HIDE DEF S
  <2>2. \E u \in S : \A v \in S : u <= v
    BY <2>1, LeastNumber
  <2> QED BY <2>2 DEF S
<1>6. PICK l \in L : l[1] = t /\ l[2] = j
  OBVIOUS
<1>7. ASSUME NEW o \in L PROVE l[1] < o[1] \/ (l[1] = o[1] /\ l[2] <= o[2])
  <2>1. l[1] <= o[1] /\ l[1] \in Nat /\ o[1] \in Nat
    BY <1>3, <1>4, <1>6
  <2>2. o[1] = t => l[2] <= o[2]
    BY <1>5, <1>6
  <2> QED BY <1>6, <2>1, <2>2
<1>8. \E x \in L : First(x)
  BY <1>7, Zenon
<1> DEFINE f == FirstLeaf(L)
<1>9. f \in L /\ First(f)
  <2>1. f = CHOOSE x \in L : First(x)
    BY Zenon DEF FirstLeaf
  <2> QED BY <1>8, <2>1, Zenon
<1> HIDE DEF f
<1>10. PICK i \in DOMAIN N \ {Root} : N[i].ref_count = 0 /\ f = <<N[i].last_accessed, i>>
  BY <1>1, <1>9, Zenon
<1>11. f[2] = i /\ f[1] = N[i].last_accessed
  BY <1>10
<1>12. ASSUME NEW o \in NonRoot(T), N[o].ref_count = 0
       PROVE  N[f[2]].last_accessed <= N[o].last_accessed
  <2>1. o \in DOMAIN N \ {Root}
    BY DEF NonRoot
  <2>2. <<N[o].last_accessed, o>> \in L
    BY <1>12, <2>1, LeafIs
  <2> DEFINE y == <<N[o].last_accessed, o>>
  <2>3. f[1] < y[1] \/ f[1] = y[1]
    BY <1>9, <2>2
  <2> QED BY <1>2, <1>10, <1>11, <2>1, <2>3
<1> QED BY <1>10, <1>11, <1>12 DEF f, NonRoot
-----------------------------------------------------------------------------
(* Lists                                                                   *)

\* Two lists without repetition and without a common element make such a list.
LEMMA ListJoin ==
    ASSUME NEW S, NEW s \in Seq(S), NEW t \in Seq(S)
    PROVE  /\ s \o t \in Seq(S) /\ Len(s \o t) = Len(s) + Len(t)
           /\ Range(s \o t) = Range(s) \cup Range(t)
           /\ IsInjective(s) /\ IsInjective(t) /\ Range(s) \cap Range(t) = {}
                => IsInjective(s \o t)
<1> DEFINE u == s \o t
           a == Len(s)
           b == Len(t)
<1>1. /\ u \in Seq(S) /\ Len(u) = a + b /\ a \in Nat /\ b \in Nat
      /\ \A i \in 1..(a + b) : u[i] = IF i <= a THEN s[i] ELSE t[i - a]
      /\ DOMAIN s = 1..a /\ DOMAIN t = 1..b /\ DOMAIN u = 1..(a + b)
  BY ConcatProperties, LenProperties
<1> HIDE DEF u, a, b
<1>2. \A i \in 1..a : i \in 1..(a + b) /\ u[i] = s[i]
  BY <1>1
<1>3. \A i \in 1..b : a + i \in 1..(a + b) /\ u[a + i] = t[i]
  <2> TAKE i \in 1..b
  <2>1. a + i \in 1..(a + b) /\ ~ (a + i <= a) /\ (a + i) - a = i
    BY <1>1
  <2> QED BY <1>1, <2>1
<1>4. \A i \in 1..(a + b) : \/ i \in 1..a /\ u[i] = s[i]
                            \/ i - a \in 1..b /\ u[i] = t[i - a]
  <2> TAKE i \in 1..(a + b)
  <2>1. i <= a \/ ~ (i <= a)
    OBVIOUS
  <2>2. i <= a => i \in 1..a
    BY <1>1
  <2>3. ~ (i <= a) => i - a \in 1..b
    BY <1>1
  <2> QED BY <1>1, <2>1, <2>2, <2>3
<1>5. Range(u) = Range(s) \cup Range(t)
  <2>1. Range(u) \subseteq Range(s) \cup Range(t)
    BY <1>1, <1>4, Zenon DEF Range
  <2>2. Range(s) \subseteq Range(u)
    BY <1>1, <1>2, Zenon DEF Range
  <2>3. Range(t) \subseteq Range(u)
    <3>1. ASSUME NEW i \in 1..b PROVE t[i] \in Range(u)
      BY <1>1, <1>3 DEF Range
    <3> QED BY <1>1, <3>1 DEF Range
  <2> QED BY <2>1, <2>2, <2>3
<1>6. ASSUME IsInjective(s), IsInjective(t), Range(s) \cap Range(t) = {}
      PROVE  IsInjective(u)
  <2>1. ASSUME NEW i \in 1..(a + b), NEW j \in 1..(a + b), u[i] = u[j] PROVE i = j
    <3>1. \A m \in 1..a, n \in 1..b : s[m] # t[n]
      BY <1>1, <1>6 DEF Range
    <3>2. CASE i \in 1..a /\ u[i] = s[i]
      <4>1. j \in 1..a /\ u[j] = s[j]
        BY <1>4, <2>1, <3>1, <3>2, Zenon
      <4> QED BY <1>1, <1>6, <2>1, <3>2, <4>1, Zenon DEF IsInjective
    <3>3. CASE i - a \in 1..b /\ u[i] = t[i - a]
      <4>1. j - a \in 1..b /\ u[j] = t[j - a]
        BY <1>4, <2>1, <3>1, <3>3, Zenon
      <4>2. i - a = j - a
        BY <1>1, <1>6, <2>1, <3>3, <4>1, Zenon DEF IsInjective
      <4> QED BY <1>1, <4>2
    <3> QED BY <1>4, <3>2, <3>3
  <2> QED BY <1>1, <2>1 DEF IsInjective
<1> QED BY <1>1, <1>5, <1>6 DEF u, a, b

\* The parts of a list, element by element.
LEMMA CutElements ==
    ASSUME NEW S, NEW s \in Seq(S), NEW n \in 0..Len(s)
    PROVE  /\ Take(s, n) \in Seq(S) /\ Len(Take(s, n)) = n /\ DOMAIN Take(s, n) = 1..n
           /\ \A i \in 1..n : Take(s, n)[i] = s[i]
           /\ Skip(s, n) \in Seq(S) /\ Len(Skip(s, n)) = Len(s) - n
           /\ DOMAIN Skip(s, n) = 1..(Len(s) - n)
           /\ \A i \in 1..(Len(s) - n) : Skip(s, n)[i] = s[n + i]
<1> DEFINE L == Len(s)
<1>1. L \in Nat /\ n \in Nat /\ n <= L
  BY LenProperties
<1>2. Take(s, n) \in Seq(S) /\ Skip(s, n) \in Seq(S)
  BY CutList
<1>3. Len(Take(s, n)) = n /\ Len(Skip(s, n)) = L - n
  BY CutList
<1>4. \A i \in 1..n : Take(s, n)[i] = s[i]
  BY <1>1 DEF Take
<1>5. \A i \in 1..(L - n) : Skip(s, n)[i] = s[n + i]
  BY <1>1 DEF Skip
<1>6. DOMAIN Take(s, n) = 1..n /\ DOMAIN Skip(s, n) = 1..(L - n)
  <2> DEFINE t == Take(s, n)
             k == Skip(s, n)
  <2>1. t \in Seq(S) /\ k \in Seq(S) /\ Len(t) = n /\ Len(k) = L - n
    BY <1>2, <1>3
  <2> HIDE DEF t, k
  <2>2. DOMAIN t = 1..n /\ DOMAIN k = 1..(L - n)
    BY <2>1, LenProperties
  <2> QED BY <2>2 DEF t, k
<1> QED BY <1>2, <1>3, <1>4, <1>5, <1>6

\* How long a prefix is.
LEMMA TakeLen ==
    ASSUME NEW S, NEW s \in Seq(S), NEW n \in 0..Len(s)
    PROVE  Len(Take(s, n)) = n
  BY CutElements

\* They have its elements, in a list without repetition each in one of them.
LEMMA CutRange ==
    ASSUME NEW S, NEW s \in Seq(S), NEW n \in 0..Len(s)
    PROVE  /\ Range(s) = Range(Take(s, n)) \cup Range(Skip(s, n))
           /\ IsInjective(s) => /\ IsInjective(Take(s, n)) /\ IsInjective(Skip(s, n))
                                /\ Range(Take(s, n)) \cap Range(Skip(s, n)) = {}
<1> DEFINE L == Len(s)
           t == Take(s, n)
           k == Skip(s, n)
<1>1. L \in Nat /\ n \in Nat /\ n <= L /\ DOMAIN s = 1..L
  BY LenProperties
<1>2. /\ DOMAIN t = 1..n /\ \A i \in 1..n : t[i] = s[i]
      /\ DOMAIN k = 1..(L - n) /\ \A i \in 1..(L - n) : k[i] = s[n + i]
  BY CutElements
<1> HIDE DEF L, t, k
<1>3. \A i \in 1..n : i \in 1..L
  BY <1>1
<1>4. \A i \in 1..(L - n) : n + i \in 1..L
  BY <1>1
<1>5. \A i \in 1..L : i \in 1..n \/ (i - n \in 1..(L - n) /\ n + (i - n) = i)
  BY <1>1
<1>6. Range(t) = {s[i] : i \in 1..n} /\ Range(k) = {s[n + i] : i \in 1..(L - n)}
  BY <1>2 DEF Range
<1>7. Range(s) = {s[i] : i \in 1..L}
  BY <1>1 DEF Range
<1>8. Range(s) = Range(t) \cup Range(k)
  <2>1. Range(s) \subseteq Range(t) \cup Range(k)
    <3>1. ASSUME NEW i \in 1..L PROVE s[i] \in Range(t) \cup Range(k)
      BY <1>5, <1>6
    <3> QED BY <1>7, <3>1
  <2>2. Range(t) \subseteq Range(s) /\ Range(k) \subseteq Range(s)
    BY <1>3, <1>4, <1>6, <1>7
  <2> QED BY <2>1, <2>2
<1>9. ASSUME IsInjective(s)
      PROVE  IsInjective(t) /\ IsInjective(k) /\ Range(t) \cap Range(k) = {}
  <2>1. IsInjective(t)
    BY <1>1, <1>2, <1>3, <1>9, Zenon DEF IsInjective
  <2>2. IsInjective(k)
    <3>1. ASSUME NEW i \in 1..(L - n), NEW j \in 1..(L - n), k[i] = k[j] PROVE i = j
      <4>1. n + i = n + j
        BY <1>1, <1>2, <1>4, <1>9, <3>1, Zenon DEF IsInjective
      <4> QED BY <1>1, <4>1
    <3> QED BY <1>2, <3>1 DEF IsInjective
  <2>3. ASSUME NEW i \in 1..n, NEW j \in 1..(L - n), s[i] = s[n + j] PROVE FALSE
    <3>1. i = n + j
      BY <1>1, <1>3, <1>4, <1>9, <2>3, Zenon DEF IsInjective
    <3> QED BY <1>1, <3>1
  <2> QED BY <1>6, <2>1, <2>2, <2>3
<1> QED BY <1>8, <1>9 DEF t, k
-----------------------------------------------------------------------------
(* Who owns a block                                                        *)

\* Block b is number x of node i, the blocks in the nodes, each in one place only.
At(N, b, i, x) == i \in DOMAIN N \ {Root} /\ x \in 1..Len(N[i].blocks) /\ N[i].blocks[x] = b
Stored(N) == UNION {Range(N[i].blocks) : i \in DOMAIN N \ {Root}}
Owned(N) == \A b, i, x, j, y : At(N, b, i, x) /\ At(N, b, j, y) => i = j /\ x = y

\* The nodes N have the blocks of M and of the list l, each in one of them.
Moved(N, M, l) ==
    Owned(N) => /\ Owned(M) /\ IsInjective(l) /\ Range(l) \cap Stored(M) = {}
                /\ Stored(N) = Stored(M) \cup Range(l)

\* A block is stored when it is somewhere.
LEMMA StoredIs ==
    ASSUME NEW N, NEW B, \A i \in DOMAIN N : N[i].blocks \in Seq(B), NEW b
    PROVE  b \in Stored(N) <=> \E i, x : At(N, b, i, x)
<1>1. \A i \in DOMAIN N : DOMAIN N[i].blocks = 1..Len(N[i].blocks)
  BY LenProperties
<1>2. ASSUME b \in Stored(N) PROVE \E i, x : At(N, b, i, x)
  <2>1. PICK i \in DOMAIN N \ {Root} : b \in Range(N[i].blocks)
    BY <1>2 DEF Stored
  <2>2. PICK x \in DOMAIN N[i].blocks : b = N[i].blocks[x]
    BY <2>1 DEF Range
  <2>3. At(N, b, i, x)
    BY <1>1, <2>1, <2>2 DEF At
  <2> QED BY <2>3
<1>3. ASSUME NEW i, NEW x, At(N, b, i, x) PROVE b \in Stored(N)
  <2>1. b \in Range(N[i].blocks)
    BY <1>1, <1>3 DEF At, Range
  <2>2. i \in DOMAIN N \ {Root}
    BY <1>3 DEF At
  <2> QED BY <2>1, <2>2 DEF Stored
<1> QED BY <1>2, <1>3

\* A node whose blocks are in one place has no block twice.
LEMMA OwnedList ==
    ASSUME NEW N, NEW B, Owned(N), NEW i \in DOMAIN N \ {Root}, N[i].blocks \in Seq(B)
    PROVE  IsInjective(N[i].blocks)
<1> DEFINE l == N[i].blocks
<1>1. DOMAIN l = 1..Len(l)
  BY LenProperties
<1>2. ASSUME NEW x \in 1..Len(l), NEW y \in 1..Len(l), l[x] = l[y] PROVE x = y
  <2>1. At(N, l[x], i, x) /\ At(N, l[x], i, y)
    BY <1>2 DEF At
  <2> QED BY <2>1, Zenon DEF Owned
<1> QED BY <1>1, <1>2, Zenon DEF IsInjective

\* Nodes with the same blocks.
LEMMA SameMoved ==
    ASSUME NEW N, NEW M, DOMAIN M = DOMAIN N,
           \A i \in DOMAIN N : M[i].blocks = N[i].blocks
    PROVE  /\ Owned(N) => Owned(M)
           /\ Stored(M) = Stored(N)
<1>1. \A b, i, x : At(M, b, i, x) => At(N, b, i, x)
  BY DEF At
<1>2. Stored(M) = Stored(N)
  BY DEF Stored
<1>3. ASSUME Owned(N), NEW b, NEW i, NEW x, NEW j, NEW y, At(M, b, i, x), At(M, b, j, y)
      PROVE  i = j /\ x = y
  <2>1. At(N, b, i, x) /\ At(N, b, j, y)
    BY ONLY <1>1, <1>3
  <2> QED BY ONLY <2>1, <1>3 DEF Owned
<1> QED BY <1>2, <1>3 DEF Owned

\* A node that goes takes its blocks along.
LEMMA RemoveMoved ==
    ASSUME NEW N, NEW M, NEW B, \A i \in DOMAIN N : N[i].blocks \in Seq(B),
           NEW id \in DOMAIN N \ {Root}, DOMAIN M = DOMAIN N \ {id},
           \A i \in DOMAIN M : M[i].blocks = N[i].blocks
    PROVE  Moved(N, M, N[id].blocks)
<1> DEFINE l == N[id].blocks
<1> SUFFICES ASSUME Owned(N)
             PROVE  /\ Owned(M) /\ IsInjective(l) /\ Range(l) \cap Stored(M) = {}
                    /\ Stored(N) = Stored(M) \cup Range(l)
  BY DEF Moved
<1>1. \A b, i, x : At(M, b, i, x) <=> At(N, b, i, x) /\ i # id
  BY DEF At
<1>2. Owned(M)
  <2> SUFFICES ASSUME NEW b, NEW i, NEW x, NEW j, NEW y, At(M, b, i, x), At(M, b, j, y)
               PROVE  i = j /\ x = y
    BY DEF Owned
  <2>1. At(N, b, i, x) /\ At(N, b, j, y)
    BY ONLY <1>1, At(M, b, i, x), At(M, b, j, y)
  <2> QED BY ONLY <2>1, Owned(N) DEF Owned
<1>3. IsInjective(l)
  BY OwnedList
<1>4. DOMAIN l = 1..Len(l)
  BY LenProperties
<1>5. \A i \in DOMAIN M : M[i].blocks \in Seq(B)
  OBVIOUS
<1>6. \A b : b \in Range(l) <=> \E x : At(N, b, id, x)
  BY <1>4 DEF Range, At
<1>7. \A b : b \in Stored(M) <=> \E i, x : At(N, b, i, x) /\ i # id
  <2>1. \A b : b \in Stored(M) <=> \E i, x : At(M, b, i, x)
    BY <1>5, StoredIs
  <2> QED BY <1>1, <2>1, Zenon
<1>8. \A b : b \in Stored(N) <=> \E i, x : At(N, b, i, x)
  BY StoredIs
<1> HIDE DEF l
<1>9. ASSUME NEW b, b \in Range(l), b \in Stored(M) PROVE FALSE
  <2>1. PICK x : At(N, b, id, x)
    BY ONLY <1>6, <1>9
  <2>2. PICK j, y : At(N, b, j, y) /\ j # id
    BY ONLY <1>7, <1>9
  <2> QED BY ONLY <2>1, <2>2, Owned(N) DEF Owned
<1>10. \A b : b \in Stored(N) <=> b \in Stored(M) \/ b \in Range(l)
  BY ONLY <1>6, <1>7, <1>8
<1> QED BY <1>2, <1>3, <1>9, <1>10

\* A node that is cut leaves its last blocks.
LEMMA CutMoved ==
    ASSUME NEW N, NEW M, NEW B, \A i \in DOMAIN N : N[i].blocks \in Seq(B),
           NEW id \in DOMAIN N \ {Root}, DOMAIN M = DOMAIN N,
           NEW k \in 0..Len(N[id].blocks), M[id].blocks = Take(N[id].blocks, k),
           \A i \in DOMAIN M : i # id => M[i].blocks = N[i].blocks
    PROVE  Moved(N, M, Skip(N[id].blocks, k))
<1> DEFINE s == N[id].blocks
           l == Skip(s, k)
           L == Len(s)
<1> SUFFICES ASSUME Owned(N)
             PROVE  /\ Owned(M) /\ IsInjective(l) /\ Range(l) \cap Stored(M) = {}
                    /\ Stored(N) = Stored(M) \cup Range(l)
  BY DEF Moved
<1>0. s \in Seq(B) /\ L \in Nat /\ k \in 0..L
  BY LenProperties
<1>1. /\ Take(s, k) \in Seq(B) /\ Len(Take(s, k)) = k /\ \A i \in 1..k : Take(s, k)[i] = s[i]
      /\ DOMAIN l = 1..(L - k) /\ \A i \in 1..(L - k) : l[i] = s[k + i]
  <2> HIDE DEF s
  <2> QED BY ONLY <1>0, CutElements DEF l, L
<1>2. \A b, i, x : At(M, b, i, x) <=> At(N, b, i, x) /\ (i = id => x \in 1..k)
  <2> SUFFICES ASSUME NEW b, NEW i, NEW x
               PROVE  At(M, b, i, x) <=> At(N, b, i, x) /\ (i = id => x \in 1..k)
    OBVIOUS
  <2>1. CASE i = id
    <3>1. \A y \in 1..k : y \in 1..L
      BY <1>0
    <3> QED BY <1>0, <1>1, <2>1, <3>1 DEF At
  <2>2. CASE i # id
    BY <2>2 DEF At
  <2> QED BY <2>1, <2>2
<1>3. Owned(M)
  <2> SUFFICES ASSUME NEW b, NEW i, NEW x, NEW j, NEW y, At(M, b, i, x), At(M, b, j, y)
               PROVE  i = j /\ x = y
    BY DEF Owned
  <2>1. At(N, b, i, x) /\ At(N, b, j, y)
    BY ONLY <1>2, At(M, b, i, x), At(M, b, j, y)
  <2> QED BY ONLY <2>1, Owned(N) DEF Owned
<1>4. IsInjective(l)
  <2>1. IsInjective(s)
    BY OwnedList
  <2> QED BY <1>0, <2>1, CutRange
<1>5. \A b : b \in Range(l) <=> \E x : At(N, b, id, x) /\ x \notin 1..k
  <2>1. ASSUME NEW b \in Range(l) PROVE \E x : At(N, b, id, x) /\ x \notin 1..k
    <3>1. PICK i \in 1..(L - k) : b = s[k + i]
      BY <1>1, <2>1 DEF Range
    <3>2. k + i \in 1..L /\ k + i \notin 1..k
      BY <1>0
    <3>3. At(N, b, id, k + i)
      BY <3>1, <3>2 DEF At
    <3> QED BY <3>2, <3>3
  <2>2. ASSUME NEW b, NEW x, At(N, b, id, x), x \notin 1..k PROVE b \in Range(l)
    <3>1. x \in 1..L /\ b = s[x]
      BY <2>2 DEF At
    <3>2. x - k \in 1..(L - k) /\ k + (x - k) = x
      BY <1>0, <2>2, <3>1
    <3> QED BY <1>1, <3>1, <3>2 DEF Range
  <2> QED BY <2>1, <2>2
<1>6. \A i \in DOMAIN M : M[i].blocks \in Seq(B)
  BY <1>1
<1>7. \A b : b \in Stored(M) <=> \E i, x : At(N, b, i, x) /\ (i = id => x \in 1..k)
  <2>1. \A b : b \in Stored(M) <=> \E i, x : At(M, b, i, x)
    BY <1>6, StoredIs
  <2> QED BY <1>2, <2>1, Zenon
<1>8. \A b : b \in Stored(N) <=> \E i, x : At(N, b, i, x)
  BY StoredIs
<1> HIDE DEF l
<1>9. ASSUME NEW b, b \in Range(l), b \in Stored(M) PROVE FALSE
  <2>1. PICK x : At(N, b, id, x) /\ x \notin 1..k
    BY ONLY <1>5, <1>9
  <2>2. PICK j, y : At(N, b, j, y) /\ (j = id => y \in 1..k)
    BY ONLY <1>7, <1>9
  <2>3. id = j /\ x = y
    BY ONLY <2>1, <2>2, Owned(N), Zenon DEF Owned
  <2> QED BY ONLY <2>1, <2>2, <2>3
<1>10. \A b : b \in Stored(N) <=> b \in Stored(M) \/ b \in Range(l)
  BY ONLY <1>5, <1>7, <1>8
<1> QED BY <1>3, <1>4, <1>9, <1>10

\* One move after the other.
LEMMA MovedMore ==
    ASSUME NEW N, NEW M, NEW K, NEW B, NEW l \in Seq(B), NEW t \in Seq(B),
           Moved(N, M, l), Moved(M, K, t)
    PROVE  Moved(N, K, l \o t)
<1> SUFFICES ASSUME Owned(N)
             PROVE  /\ Owned(K) /\ IsInjective(l \o t) /\ Range(l \o t) \cap Stored(K) = {}
                    /\ Stored(N) = Stored(K) \cup Range(l \o t)
  BY DEF Moved
<1>1. /\ Owned(M) /\ IsInjective(l) /\ Range(l) \cap Stored(M) = {}
      /\ Stored(N) = Stored(M) \cup Range(l)
  BY DEF Moved
<1>2. /\ Owned(K) /\ IsInjective(t) /\ Range(t) \cap Stored(K) = {}
      /\ Stored(M) = Stored(K) \cup Range(t)
  BY <1>1 DEF Moved
<1>3. Range(l) \cap Range(t) = {}
  BY <1>1, <1>2
<1>4. IsInjective(l \o t) /\ Range(l \o t) = Range(l) \cup Range(t)
  BY <1>1, <1>2, <1>3, ListJoin
<1> QED BY <1>1, <1>2, <1>4

\* The first k elements of the first m.
LEMMA TakeTake ==
    ASSUME NEW S, NEW s \in Seq(S), NEW m \in 0..Len(s), NEW k \in 0..m
    PROVE  k \in 0..Len(s) /\ Take(Take(s, m), k) = Take(s, k)
<1>1. Len(s) \in Nat /\ k \in 0..Len(s)
  BY LenProperties
<1> DEFINE t == Take(s, m)
<1>2. t \in Seq(S) /\ Len(t) = m /\ \A i \in 1..m : t[i] = s[i]
  BY CutElements
<1> HIDE DEF t
<1>3. Take(t, k) \in Seq(S) /\ Len(Take(t, k)) = k /\ \A i \in 1..k : Take(t, k)[i] = t[i]
  BY <1>2, CutElements
<1>4. Take(s, k) \in Seq(S) /\ Len(Take(s, k)) = k /\ \A i \in 1..k : Take(s, k)[i] = s[i]
  BY <1>1, CutElements
<1>5. \A i \in 1..k : i \in 1..m
  OBVIOUS
<1>6. \A i \in 1..k : Take(t, k)[i] = Take(s, k)[i]
  BY <1>2, <1>3, <1>4, <1>5
<1> DEFINE u == Take(t, k)
           v == Take(s, k)
<1> HIDE DEF u, v
<1>7. u = v
  BY <1>3, <1>4, <1>6, SeqEqual DEF u, v
<1> QED BY <1>1, <1>7 DEF t, u, v

\* A node without references is not in use and nobody's parent.
LEMMA Unreferenced ==
    ASSUME NEW T, NEW ext, NEW C, NEW B, TrieOK(T, ext, C, B), NEW id \in NonRoot(T),
           T.nodes[id].ref_count = 0
    PROVE  ext[id] = 0 /\ \A j \in NonRoot(T) : T.nodes[j].parent # id
<1> DEFINE kids == DOMAIN T.nodes[id].children
<1>1. StoreOK(T, C, B) /\ LinksOK(T) /\ CountsOK(T, ext)
  BY DEF TrieOK
<1>2. id \in DOMAIN T.nodes /\ id \in Nat /\ IsFiniteSet(kids)
  BY <1>1, NodeIs DEF NonRoot
<1>3. Cardinality(kids) \in Nat /\ (Cardinality(kids) = 0 <=> kids = {})
  BY <1>2, FS_CardinalityType, FS_EmptySet
<1>4. T.nodes[id].ref_count = Cardinality(kids) + ext[id] /\ ext[id] \in Nat
  BY <1>1, <1>2 DEF CountsOK
<1>5. kids = {} /\ ext[id] = 0
  BY <1>3, <1>4
<1>6. \A j \in NonRoot(T) : T.nodes[j].parent # id
  BY <1>1, <1>5 DEF LinksOK
<1> QED BY <1>5, <1>6

\* m has the first blocks of n only.
ShortOf(m, n) ==
    \E k \in 1..Len(n.key) : m.key = Take(n.key, k) /\ m.blocks = Take(n.blocks, k)

\* U has nodes of S, some of them shorter: unused ones without children.
Shrunk(S, U, ext) ==
    /\ DOMAIN U.nodes \subseteq DOMAIN S.nodes
    /\ \A i \in DOMAIN U.nodes :
         /\ U.nodes[i].parent = S.nodes[i].parent
         /\ \/ U.nodes[i].key = S.nodes[i].key /\ U.nodes[i].blocks = S.nodes[i].blocks
            \/ /\ i # Root /\ ext[i] = 0 /\ ShortOf(U.nodes[i], S.nodes[i])
               /\ \A j \in NonRoot(U) : U.nodes[j].parent # i

\* What evictions leave of S when l is the list of evicted blocks.
Freed(S, U, ext, l) == Shrunk(S, U, ext) /\ Moved(S.nodes, U.nodes, l)

\* Nothing was evicted.
LEMMA FreedNothing ==
    ASSUME NEW S, NEW ext
    PROVE  Freed(S, S, ext, <<>>)
<1>1. Shrunk(S, S, ext)
  BY DEF Shrunk
<1>2. IsInjective(<<>>) /\ Range(<<>>) = {}
  BY DEF IsInjective, Range
<1>3. Moved(S.nodes, S.nodes, <<>>)
  BY <1>2 DEF Moved
<1> QED BY <1>1, <1>3 DEF Freed

\* A whole node more.
LEMMA FreedNode ==
    ASSUME NEW S, NEW T, NEW U, NEW ext, NEW C, NEW B, NEW l \in Seq(B), TrieOK(T, ext, C, B),
           Freed(S, T, ext, l), NEW id \in NonRoot(T), Removed(T, U, id)
    PROVE  Freed(S, U, ext, l \o T.nodes[id].blocks)
<1> DEFINE N == T.nodes
           M == U.nodes
<1>1. /\ DOMAIN M = DOMAIN N \ {id}
      /\ \A i \in DOMAIN M : /\ M[i].blocks = N[i].blocks /\ M[i].key = N[i].key
                             /\ M[i].parent = N[i].parent
  BY Zenon DEF Removed
<1>2. \A i \in DOMAIN N : N[i].blocks \in Seq(B)
  BY NodeIs DEF TrieOK
<1>3. id \in DOMAIN N \ {Root}
  BY DEF NonRoot
<1>4. Shrunk(S, U, ext)
  <2>1. NonRoot(U) \subseteq NonRoot(T) /\ \A j \in NonRoot(U) : M[j].parent = N[j].parent
    BY <1>1 DEF NonRoot
  <2>2. DOMAIN M \subseteq DOMAIN S.nodes
    BY <1>1 DEF Freed, Shrunk
  <2>3. ASSUME NEW i \in DOMAIN M
        PROVE  /\ M[i].parent = S.nodes[i].parent
               /\ \/ M[i].key = S.nodes[i].key /\ M[i].blocks = S.nodes[i].blocks
                  \/ /\ i # Root /\ ext[i] = 0 /\ ShortOf(M[i], S.nodes[i])
                     /\ \A j \in NonRoot(U) : M[j].parent # i
    <3>1. i \in DOMAIN N
      BY <1>1
    <3>2. /\ N[i].parent = S.nodes[i].parent
          /\ \/ N[i].key = S.nodes[i].key /\ N[i].blocks = S.nodes[i].blocks
             \/ /\ i # Root /\ ext[i] = 0 /\ ShortOf(N[i], S.nodes[i])
                /\ \A j \in NonRoot(T) : N[j].parent # i
      BY <3>1 DEF Freed, Shrunk
    <3>3. ShortOf(N[i], S.nodes[i]) => ShortOf(M[i], S.nodes[i])
      BY <1>1 DEF ShortOf
    <3> QED BY <1>1, <2>1, <3>2, <3>3
  <2> QED BY <2>2, <2>3 DEF Shrunk
<1>5. Moved(N, M, N[id].blocks)
  BY <1>1, <1>2, <1>3, RemoveMoved
<1>6. Moved(S.nodes, M, l \o N[id].blocks)
  <2> DEFINE t == N[id].blocks
  <2>1. t \in Seq(B) /\ Moved(N, M, t)
    BY <1>2, <1>3, <1>5
  <2>2. Moved(S.nodes, N, l)
    BY DEF Freed
  <2> HIDE DEF t, N, M
  <2> QED BY <2>1, <2>2, MovedMore DEF t
<1> QED BY <1>4, <1>6 DEF Freed

\* The last blocks of a node.
LEMMA FreedPart ==
    ASSUME NEW S, NEW T, NEW U, NEW ext, NEW C, NEW B, NEW l \in Seq(B), TrieOK(T, ext, C, B),
           StoreOK(S, C, B),
           Freed(S, T, ext, l), NEW id \in NonRoot(T), T.nodes[id].ref_count = 0,
           NEW k \in 1..Len(T.nodes[id].key), NEW m, ShortNode(T.nodes[id], m, k),
           U.nodes = [T.nodes EXCEPT ![id] = m]
    PROVE  Freed(S, U, ext, l \o Skip(T.nodes[id].blocks, k))
<1> DEFINE N == T.nodes
           M == U.nodes
           b == N[id].blocks
<1>1. /\ DOMAIN M = DOMAIN N /\ \A i \in DOMAIN M : i # id => M[i] = N[i]
      /\ id \in DOMAIN N \ {Root} /\ M[id] = m
  BY DEF NonRoot
<1>2. \A i \in DOMAIN N : /\ N[i].blocks \in Seq(B) /\ N[i].key \in Seq(C)
                          /\ Len(N[i].key) = Len(N[i].blocks)
  BY NodeIs DEF TrieOK
<1>3. /\ m.key = Take(N[id].key, k) /\ m.blocks = Take(b, k) /\ m.parent = N[id].parent
  BY DEF ShortNode
<1>4. ext[id] = 0 /\ \A j \in NonRoot(T) : N[j].parent # id
  BY Unreferenced
<1>5. k \in 1..Len(b) /\ k \in 0..Len(b)
  BY <1>1, <1>2
<1>6. \A i \in DOMAIN M : M[i].parent = N[i].parent
  BY <1>1, <1>3
<1>7. Shrunk(S, U, ext)
  <2>1. NonRoot(U) = NonRoot(T) /\ \A j \in NonRoot(U) : M[j].parent = N[j].parent
    BY <1>1, <1>6 DEF NonRoot
  <2>2. DOMAIN M \subseteq DOMAIN S.nodes
    BY <1>1 DEF Freed, Shrunk
  <2>3. ASSUME NEW i \in DOMAIN M
        PROVE  /\ M[i].parent = S.nodes[i].parent
               /\ \/ M[i].key = S.nodes[i].key /\ M[i].blocks = S.nodes[i].blocks
                  \/ /\ i # Root /\ ext[i] = 0 /\ ShortOf(M[i], S.nodes[i])
                     /\ \A j \in NonRoot(U) : M[j].parent # i
    <3>1. i \in DOMAIN N
      BY <1>1
    <3>2. /\ N[i].parent = S.nodes[i].parent
          /\ \/ N[i].key = S.nodes[i].key /\ N[i].blocks = S.nodes[i].blocks
             \/ /\ i # Root /\ ext[i] = 0 /\ ShortOf(N[i], S.nodes[i])
                /\ \A j \in NonRoot(T) : N[j].parent # i
      BY <3>1 DEF Freed, Shrunk
    <3>3. CASE i # id
      BY <1>1, <2>1, <3>2, <3>3
    <3>4. CASE i = id
      <4> DEFINE n == S.nodes[id]
      <4>1. n.key \in Seq(C) /\ n.blocks \in Seq(B) /\ Len(n.key) = Len(n.blocks)
        BY <2>2, <3>4, NodeIs
      <4>2. ShortOf(m, n)
        <5>1. CASE N[id].key = n.key /\ b = n.blocks
          BY <1>3, <5>1 DEF ShortOf
        <5>2. CASE ShortOf(N[id], n)
          <6>1. PICK q \in 1..Len(n.key) : N[id].key = Take(n.key, q) /\ b = Take(n.blocks, q)
            BY <5>2 DEF ShortOf
          <6> HIDE DEF n
          <6>2. q \in 0..Len(n.key) /\ q \in 0..Len(n.blocks) /\ Len(n.key) \in Nat
            BY <4>1, LenProperties
          <6>3. Len(N[id].key) = q
            <7> DEFINE s == n.key
            <7>1. s \in Seq(C) /\ q \in 0..Len(s)
              BY <4>1, <6>2
            <7> HIDE DEF s
            <7>2. Len(Take(s, q)) = q
              BY ONLY <7>1, TakeLen
            <7> QED BY <6>1, <7>2 DEF s
          <6>4. k \in 0..q /\ k \in 1..Len(n.key)
            BY <6>2, <6>3
          <6>5. Take(Take(n.key, q), k) = Take(n.key, k) /\ Take(Take(n.blocks, q), k) = Take(n.blocks, k)
            BY <4>1, <6>2, <6>4, TakeTake
          <6> QED BY <1>3, <6>1, <6>4, <6>5 DEF ShortOf
        <5> QED BY <3>2, <3>4, <5>1, <5>2
      <4> QED BY <1>1, <1>4, <2>1, <3>2, <3>4, <4>2
    <3> QED BY <3>3, <3>4
  <2> QED BY <2>2, <2>3 DEF Shrunk
<1>8. Moved(N, M, Skip(b, k))
  <2>1. M[id].blocks = Take(b, k) /\ \A i \in DOMAIN M : i # id => M[i].blocks = N[i].blocks
    BY <1>1, <1>3
  <2>2. k \in 0..Len(N[id].blocks) /\ M[id].blocks = Take(N[id].blocks, k)
    BY <1>5, <2>1
  <2> HIDE DEF N, M
  <2> QED BY <1>1, <1>2, <2>1, <2>2, CutMoved DEF b
<1>9. Moved(S.nodes, M, l \o Skip(b, k))
  <2> DEFINE t == Skip(b, k)
  <2>1. t \in Seq(B) /\ Moved(N, M, t)
    BY <1>1, <1>2, <1>5, <1>8, CutList
  <2>2. Moved(S.nodes, N, l)
    BY DEF Freed
  <2> HIDE DEF t, N, M
  <2> QED BY <2>1, <2>2, MovedMore DEF t
<1> QED BY <1>7, <1>9 DEF Freed
-----------------------------------------------------------------------------
(* Paths: what the chunks from the root to a node say                      *)

\* s is a prefix of t, s and t are the same up to n, s is a followed by b.
Begins(s, t) == Len(s) <= Len(t) /\ \A j \in 1..Len(s) : s[j] = t[j]
SameTo(n, s, t) == n <= Len(s) /\ n <= Len(t) /\ \A j \in 1..n : s[j] = t[j]
Joined(s, a, b) ==
    /\ Len(s) = Len(a) + Len(b)
    /\ \A j \in 1..Len(a) : s[j] = a[j]
    /\ \A j \in 1..Len(b) : s[Len(a) + j] = b[j]

\* K[i] and V[i] are the chunks and the blocks from the root to the end of node i.
PathsOK(T, K, V, C, B) ==
    /\ DOMAIN K = DOMAIN T.nodes /\ DOMAIN V = DOMAIN T.nodes
    /\ \A i \in DOMAIN T.nodes : K[i] \in Seq(C) /\ V[i] \in Seq(B) /\ Len(K[i]) = Len(V[i])
    /\ Len(K[Root]) = 0
    /\ \A i \in NonRoot(T) :
         /\ Joined(K[i], K[T.nodes[i].parent], T.nodes[i].key)
         /\ Joined(V[i], V[T.nodes[i].parent], T.nodes[i].blocks)

\* The path of a node is longer than its parent's, by the node's own chunks.
LEMMA PathStep ==
    ASSUME NEW T, NEW K, NEW V, NEW C, NEW B, StoreOK(T, C, B), LinksOK(T),
           PathsOK(T, K, V, C, B), NEW i \in NonRoot(T)
    PROVE  LET p == T.nodes[i].parent
           IN  /\ p \in DOMAIN T.nodes /\ i \in DOMAIN T.nodes
               /\ Len(K[i]) \in Nat /\ Len(K[p]) \in Nat /\ Len(K[p]) < Len(K[i])
               /\ Len(K[i]) = Len(K[p]) + Len(T.nodes[i].key)
               /\ Len(T.nodes[i].key) \in Nat
               /\ Begins(K[p], K[i])
               /\ K[i][Len(K[p]) + 1] = Head(T.nodes[i].key)
<1> DEFINE n == T.nodes[i]
           p == n.parent
<1>1. i \in DOMAIN T.nodes /\ p \in DOMAIN T.nodes /\ n.key # <<>>
  BY DEF LinksOK, NonRoot
<1>2. n.key \in Seq(C)
  BY <1>1, NodeIs
<1>3. Joined(K[i], K[p], n.key)
  BY DEF PathsOK
<1>4. K[i] \in Seq(C) /\ K[p] \in Seq(C)
  BY <1>1 DEF PathsOK
<1> DEFINE s == n.key
<1>5. s \in Seq(C) /\ s # <<>> /\ Joined(K[i], K[p], s)
  BY <1>1, <1>2, <1>3
<1> HIDE DEF s
<1>6. Len(s) \in Nat \ {0} /\ Head(s) = s[1] /\ 1 \in 1..Len(s)
  BY <1>5
<1>7. Len(K[i]) \in Nat /\ Len(K[p]) \in Nat
  BY <1>4, LenProperties
<1> HIDE DEF p, n
<1>8. Len(K[i]) = Len(K[p]) + Len(s) /\ Len(K[p]) < Len(K[i])
  BY <1>5, <1>6, <1>7 DEF Joined
<1>9. Begins(K[p], K[i])
  BY <1>5, <1>7, <1>8 DEF Joined, Begins
<1>10. K[i][Len(K[p]) + 1] = Head(s)
  BY <1>5, <1>6 DEF Joined
<1> QED BY <1>1, <1>6, <1>7, <1>8, <1>9, <1>10 DEF p, n, s

\* A child is known by its parent and one chunk.
LEMMA OneChild ==
    ASSUME NEW T, LinksOK(T), NEW i \in NonRoot(T), NEW k \in NonRoot(T),
           T.nodes[i].parent = T.nodes[k].parent, Head(T.nodes[i].key) = Head(T.nodes[k].key)
    PROVE  i = k
BY DEF LinksOK

\* From a node whose path begins the path of another one there is a child on the
\* way to it.
LEMMA Descend ==
    ASSUME NEW T, NEW K, NEW V, NEW C, NEW B, StoreOK(T, C, B), LinksOK(T),
           PathsOK(T, K, V, C, B), NEW a \in DOMAIN T.nodes, NEW n \in DOMAIN T.nodes,
           Begins(K[a], K[n])
    PROVE  a = n \/ \E k \in NonRoot(T) : T.nodes[k].parent = a /\ Begins(K[k], K[n])
<1> DEFINE N == T.nodes
           D == DOMAIN N
           L(x) == Len(K[x])
           par(x) == N[x].parent
           Way(x, y) == x = y \/ \E k \in NonRoot(T) : par(k) = x /\ Begins(K[k], K[y])
           Bad == {y \in D : \E x \in D : Begins(K[x], K[y]) /\ ~ Way(x, y)}
           Lens == {L(y) : y \in Bad}
<1>1. \A x \in D : K[x] \in Seq(C) /\ L(x) \in Nat
  BY LenProperties DEF PathsOK
<1>2. Root \in D /\ L(Root) = 0
  BY DEF PathsOK, StoreOK
<1>3. \A x \in NonRoot(T) : /\ x \in D /\ par(x) \in D /\ L(par(x)) < L(x) /\ Begins(K[par(x)], K[x])
                            /\ K[x][L(par(x)) + 1] = Head(N[x].key)
  BY PathStep
<1>4. \A x \in D : x = Root \/ x \in NonRoot(T)
  BY DEF NonRoot
<1>5. \A x, y, z \in D : Begins(K[x], K[y]) /\ Begins(K[y], K[z]) => Begins(K[x], K[z])
  <2> TAKE x, y, z \in D
  <2>1. L(x) \in Nat /\ L(y) \in Nat /\ L(z) \in Nat
    BY <1>1
  <2> QED BY <2>1 DEF Begins
<1>6. \A x, y, z \in D : Begins(K[x], K[z]) /\ Begins(K[y], K[z]) /\ L(x) <= L(y)
                         => Begins(K[x], K[y])
  <2> TAKE x, y, z \in D
  <2>1. L(x) \in Nat /\ L(y) \in Nat /\ L(z) \in Nat
    BY <1>1
  <2> QED BY <2>1 DEF Begins
<1>7. ASSUME NEW x \in NonRoot(T), NEW y \in NonRoot(T), par(x) = par(y), NEW z \in D,
             Begins(K[x], K[z]), Begins(K[y], K[z])
      PROVE  x = y
  <2> DEFINE d == L(par(x)) + 1
  <2>1. d \in 1..L(x) /\ d \in 1..L(y)
    BY <1>1, <1>3, <1>7
  <2>2. K[x][d] = K[z][d] /\ K[y][d] = K[z][d]
    <3> HIDE DEF d
    <3> QED BY <1>7, <2>1 DEF Begins
  <2>3. Head(N[x].key) = Head(N[y].key)
    BY <1>3, <1>7, <2>2
  <2> QED BY <1>7, <2>3, OneChild
<1> SUFFICES ASSUME ~ Way(a, n) PROVE FALSE
  OBVIOUS
<1>8. PICK y \in Bad : \A z \in Bad : L(y) <= L(z)
  <2>1. n \in Bad
    OBVIOUS
  <2>2. Lens \subseteq Nat /\ Lens # {}
    BY <1>1, <2>1
  <2> HIDE DEF Lens
  <2>3. PICK m \in Lens : \A k \in Lens : m <= k
    BY <2>2, LeastNumber
  <2> QED BY <2>3 DEF Lens
<1>9. y \in D
  OBVIOUS
<1>10. PICK x \in D : Begins(K[x], K[y]) /\ ~ Way(x, y)
  BY <1>8
<1>11. \A u, v \in D : L(v) < L(y) /\ Begins(K[u], K[v]) => Way(u, v)
  <2> SUFFICES ASSUME NEW u \in D, NEW v \in D, L(v) < L(y), Begins(K[u], K[v]), ~ Way(u, v)
               PROVE  FALSE
    OBVIOUS
  <2>1. v \in Bad
    OBVIOUS
  <2>2. L(y) <= L(v)
    BY <1>8, <2>1
  <2> QED BY <1>1, <1>9, <2>2
<1> HIDE DEF Bad
<1>12. L(x) <= L(y)
  BY <1>10 DEF Begins
<1>13. x # y
  BY <1>10
<1>14. y # Root
  <2> SUFFICES ASSUME y = Root PROVE FALSE
    OBVIOUS
  <2>1. L(x) = 0
    BY <1>1, <1>2, <1>12
  <2>2. x \in NonRoot(T)
    BY <1>4, <1>13
  <2>3. L(par(x)) < L(x) /\ L(par(x)) \in Nat
    BY <1>1, <1>3, <2>2
  <2> QED BY <2>1, <2>3
<1>15. y \in NonRoot(T)
  BY ONLY <1>4, <1>9, <1>14
<1> DEFINE p == par(y)
<1>16. p \in D /\ L(p) < L(y) /\ Begins(K[p], K[y])
  BY ONLY <1>3, <1>15
<1> HIDE DEF N, D, L, par, p
<1>17. CASE L(x) <= L(p)
  <2>1. Begins(K[x], K[p])
    BY ONLY <1>6, <1>9, <1>10, <1>16, <1>17
  <2>2. Way(x, p)
    BY <1>11, <1>16, <2>1
  <2>3. CASE x = p
    <3>1. Begins(K[y], K[y])
      BY <1>1, <1>9 DEF Begins, L
    <3> QED BY ONLY <1>10, <1>15, <2>3, <3>1 DEF p
  <2>4. CASE x # p
    <3>1. PICK k \in NonRoot(T) : par(k) = x /\ Begins(K[k], K[p])
      BY <2>2, <2>4
    <3>2. Begins(K[k], K[y])
      BY ONLY <1>3, <1>5, <1>9, <1>16, <3>1
    <3> QED BY <1>10, <3>1, <3>2
  <2> QED BY <2>3, <2>4
<1>18. CASE L(p) < L(x) /\ L(x) < L(y)
  <2>1. Begins(K[p], K[x])
    BY ONLY <1>1, <1>6, <1>9, <1>10, <1>16, <1>18
  <2>2. Way(p, x) /\ p # x
    BY ONLY <1>1, <1>9, <1>11, <1>16, <1>18, <2>1
  <2>3. PICK k \in NonRoot(T) : par(k) = p /\ Begins(K[k], K[x])
    BY <2>2
  <2>4. Begins(K[k], K[y]) /\ Begins(K[y], K[y])
    <3>1. Begins(K[y], K[y])
      BY <1>1, <1>9 DEF Begins, L
    <3> QED BY ONLY <1>3, <1>5, <1>9, <1>10, <2>3, <3>1
  <2>5. k = y
    BY ONLY <1>7, <1>9, <1>15, <2>3, <2>4 DEF p
  <2>6. L(k) <= L(x)
    BY <2>3 DEF Begins, L
  <2> QED BY <1>1, <1>9, <1>18, <2>5, <2>6
<1>19. CASE L(x) = L(y)
  <2>1. x \in NonRoot(T)
    <3>1. L(y) # 0
      BY <1>1, <1>9, <1>16
    <3> QED BY <1>2, <1>4, <1>19, <3>1
  <2> DEFINE q == par(x)
  <2>2. q \in D /\ L(q) < L(y) /\ Begins(K[q], K[x])
    BY <1>3, <1>19, <2>1
  <2>3. Begins(K[q], K[y]) /\ Begins(K[y], K[x]) /\ Begins(K[p], K[x])
    <3>1. Begins(K[y], K[x])
      BY <1>1, <1>10, <1>19 DEF Begins, L
    <3> QED BY ONLY <1>5, <1>9, <1>10, <1>16, <2>2, <3>1
  <2>4. CASE L(p) <= L(q)
    <3>1. Way(p, q)
      BY <1>6, <1>11, <1>16, <2>2, <2>3, <2>4
    <3>2. CASE p = q
      <4>1. x = y
        <5>1. Begins(K[x], K[x])
          BY <1>1 DEF Begins, L
        <5> QED BY ONLY <1>7, <1>15, <2>1, <2>3, <3>2, <5>1 DEF p, q
      <4> QED BY <1>13, <4>1
    <3>3. CASE p # q
      <4>1. PICK k \in NonRoot(T) : par(k) = p /\ Begins(K[k], K[q])
        BY <3>1, <3>3
      <4>2. Begins(K[k], K[y]) /\ Begins(K[y], K[y])
        <5>1. Begins(K[y], K[y])
          BY <1>1, <1>9 DEF Begins, L
        <5> QED BY ONLY <1>3, <1>5, <1>9, <2>2, <2>3, <4>1, <5>1
      <4>3. k = y
        BY ONLY <1>7, <1>9, <1>15, <4>1, <4>2 DEF p
      <4>4. L(k) <= L(q)
        BY <4>1 DEF Begins, L
      <4> QED BY <1>1, <1>9, <2>2, <4>3, <4>4
    <3> QED BY <3>2, <3>3
  <2>5. CASE ~ (L(p) <= L(q))
    <3>1. L(q) < L(p)
      BY <1>1, <1>16, <2>2, <2>5
    <3>2. Begins(K[q], K[p])
      BY <1>1, <1>6, <1>16, <2>2, <2>3, <3>1
    <3>3. Way(q, p) /\ q # p
      BY <1>1, <1>11, <1>16, <2>2, <3>1, <3>2
    <3>4. PICK k \in NonRoot(T) : par(k) = q /\ Begins(K[k], K[p])
      BY <3>3
    <3>5. Begins(K[k], K[x]) /\ Begins(K[x], K[x])
      <4>1. Begins(K[x], K[x])
        BY <1>1 DEF Begins, L
      <4> QED BY ONLY <1>3, <1>5, <1>16, <2>3, <3>4, <4>1
    <3>6. k = x
      BY ONLY <1>7, <2>1, <3>4, <3>5
    <3>7. L(k) <= L(p)
      BY <3>4 DEF Begins, L
    <3> QED BY <1>1, <1>9, <1>16, <1>19, <3>6, <3>7
  <2> QED BY <2>4, <2>5
<1> QED BY <1>1, <1>9, <1>12, <1>16, <1>17, <1>18, <1>19

\* The blocks along a path, likewise.
LEMMA BlockStep ==
    ASSUME NEW T, NEW K, NEW V, NEW C, NEW B, StoreOK(T, C, B), LinksOK(T),
           PathsOK(T, K, V, C, B), NEW i \in NonRoot(T),
           NEW p, p = T.nodes[i].parent, NEW s, s = T.nodes[i].blocks
    PROVE  /\ Begins(V[p], V[i]) /\ Len(V[i]) = Len(K[i]) /\ Len(V[p]) = Len(K[p])
           /\ Joined(V[i], V[p], s)
<1>1. i \in DOMAIN T.nodes /\ p \in DOMAIN T.nodes
  BY DEF LinksOK, NonRoot
<1>2. s \in Seq(B)
  BY <1>1, NodeIs
<1>3. Joined(V[i], V[p], s)
  BY DEF PathsOK
<1>4. /\ V[i] \in Seq(B) /\ V[p] \in Seq(B) /\ Len(V[i]) = Len(K[i]) /\ Len(V[p]) = Len(K[p])
  BY <1>1 DEF PathsOK
<1>5. Len(s) \in Nat /\ Len(V[i]) \in Nat /\ Len(V[p]) \in Nat
  BY <1>2, <1>4, LenProperties
<1>6. Len(V[i]) = Len(V[p]) + Len(s) /\ \A x \in 1..Len(s) : V[i][Len(V[p]) + x] = s[x]
  BY <1>3 DEF Joined
<1>7. Begins(V[p], V[i])
  <2>1. Len(V[p]) <= Len(V[i])
    BY ONLY <1>5, <1>6
  <2> QED BY <1>3, <2>1 DEF Joined, Begins
<1> QED BY <1>3, <1>4, <1>7

\* A node on the way to another one has a child under the next chunk.
LEMMA WayOn ==
    ASSUME NEW T, NEW K, NEW V, NEW C, NEW B, StoreOK(T, C, B), LinksOK(T),
           PathsOK(T, K, V, C, B), NEW a \in DOMAIN T.nodes, NEW n \in DOMAIN T.nodes,
           Begins(K[a], K[n]), Len(K[a]) < Len(K[n])
    PROVE  /\ K[n][Len(K[a]) + 1] \in DOMAIN T.nodes[a].children
           /\ Begins(K[T.nodes[a].children[K[n][Len(K[a]) + 1]]], K[n])
<1>1. \A x \in DOMAIN T.nodes : Len(K[x]) \in Nat
  BY LenProperties DEF PathsOK
<1>2. a # n
  BY <1>1
<1>3. PICK k \in NonRoot(T) : T.nodes[k].parent = a /\ Begins(K[k], K[n])
  BY <1>2, Descend
<1>4. /\ k \in DOMAIN T.nodes /\ Len(K[a]) < Len(K[k])
      /\ K[k][Len(K[a]) + 1] = Head(T.nodes[k].key)
  BY <1>3, PathStep
<1>5. Len(K[a]) + 1 \in 1..Len(K[k])
  BY <1>1, <1>4
<1>6. K[k][Len(K[a]) + 1] = K[n][Len(K[a]) + 1]
  BY <1>3, <1>5 DEF Begins
<1>7. /\ Head(T.nodes[k].key) \in DOMAIN T.nodes[a].children
      /\ T.nodes[a].children[Head(T.nodes[k].key)] = k
  BY <1>3 DEF LinksOK
<1> QED BY <1>3, <1>4, <1>6, <1>7

\* Two nodes with the same path are one.
LEMMA OnePath ==
    ASSUME NEW T, NEW K, NEW V, NEW C, NEW B, StoreOK(T, C, B), LinksOK(T),
           PathsOK(T, K, V, C, B), NEW a \in DOMAIN T.nodes, NEW n \in DOMAIN T.nodes,
           Begins(K[a], K[n]), Begins(K[n], K[a])
    PROVE  a = n
<1>1. \A x \in DOMAIN T.nodes : Len(K[x]) \in Nat
  BY LenProperties DEF PathsOK
<1> SUFFICES ASSUME a # n PROVE FALSE
  OBVIOUS
<1>2. PICK k \in NonRoot(T) : T.nodes[k].parent = a /\ Begins(K[k], K[n])
  BY Descend
<1>3. k \in DOMAIN T.nodes /\ Len(K[a]) < Len(K[k])
  BY <1>2, PathStep
<1>4. Len(K[k]) <= Len(K[n]) /\ Len(K[n]) <= Len(K[a])
  BY <1>2 DEF Begins
<1> QED BY <1>1, <1>3, <1>4

\* A path that agrees with a node's up to a chunk of the node itself goes on as it.
LEMMA OnTheWay ==
    ASSUME NEW T, NEW K, NEW V, NEW C, NEW B, StoreOK(T, C, B), LinksOK(T),
           PathsOK(T, K, V, C, B), NEW i \in NonRoot(T), NEW n \in DOMAIN T.nodes,
           NEW j \in Nat, Len(K[T.nodes[i].parent]) < j, SameTo(j, K[i], K[n])
    PROVE  Begins(K[i], K[n])
<1> DEFINE p == T.nodes[i].parent
           d == Len(K[p]) + 1
<1>1. \A x \in DOMAIN T.nodes : Len(K[x]) \in Nat
  BY LenProperties DEF PathsOK
<1>2. /\ p \in DOMAIN T.nodes /\ i \in DOMAIN T.nodes /\ Len(K[p]) < Len(K[i])
      /\ Begins(K[p], K[i]) /\ K[i][d] = Head(T.nodes[i].key)
  BY PathStep
<1> HIDE DEF p
<1>3. Len(K[p]) < j /\ j <= Len(K[i]) /\ j <= Len(K[n]) /\ Len(K[p]) \in Nat
  BY <1>1, <1>2 DEF SameTo, p
<1>4. Begins(K[p], K[n]) /\ Len(K[p]) < Len(K[n])
  <2>1. \A x \in 1..Len(K[p]) : x \in 1..j
    BY <1>3
  <2> QED BY <1>1, <1>2, <1>3, <2>1 DEF Begins, SameTo
<1>5. d \in 1..j
  BY <1>3
<1>6. K[n][d] = Head(T.nodes[i].key)
  BY <1>2, <1>5 DEF SameTo
<1>7. Begins(K[T.nodes[p].children[K[n][d]]], K[n])
  <2> HIDE DEF d
  <2> QED BY <1>2, <1>4, WayOn DEF d
<1>8. T.nodes[p].children[Head(T.nodes[i].key)] = i
  BY DEF LinksOK, p
<1> QED BY <1>6, <1>7, <1>8

\* Every chunk of a path is one of a node, with the same block.
LEMMA Locate ==
    ASSUME NEW T, NEW K, NEW V, NEW C, NEW B, StoreOK(T, C, B), LinksOK(T),
           PathsOK(T, K, V, C, B), NEW n \in DOMAIN T.nodes, NEW j \in 1..Len(K[n])
    PROVE  \E i \in NonRoot(T) :
             /\ Len(K[T.nodes[i].parent]) < j
             /\ SameTo(j, K[i], K[n]) /\ SameTo(j, V[i], V[n])
<1> DEFINE D == DOMAIN T.nodes
           Q == {i \in D : SameTo(j, K[i], K[n]) /\ SameTo(j, V[i], V[n])}
           Lens == {Len(K[i]) : i \in Q}
<1>1. \A x \in D : Len(K[x]) \in Nat /\ Len(V[x]) = Len(K[x])
  BY LenProperties DEF PathsOK
<1>2. n \in Q /\ j \in Nat /\ j > 0
  BY <1>1 DEF SameTo
<1>3. PICK i \in Q : \A k \in Q : Len(K[i]) <= Len(K[k])
  <2>1. Lens \subseteq Nat /\ Lens # {}
    BY <1>1, <1>2
  <2> HIDE DEF Lens
  <2>2. PICK m \in Lens : \A k \in Lens : m <= k
    BY <2>1, LeastNumber
  <2> QED BY <2>2 DEF Lens
<1>4. i \in D /\ SameTo(j, K[i], K[n]) /\ SameTo(j, V[i], V[n]) /\ j <= Len(K[i])
  BY <1>3 DEF SameTo
<1>5. i \in NonRoot(T)
  <2>1. Len(K[Root]) = 0
    BY DEF PathsOK
  <2>2. i # Root
    BY <1>2, <1>4, <2>1
  <2> QED BY <1>4, <2>2 DEF NonRoot
<1> DEFINE p == T.nodes[i].parent
<1>6. p \in D /\ Len(K[p]) < Len(K[i]) /\ Begins(K[p], K[i]) /\ Begins(V[p], V[i])
  BY <1>5, PathStep, BlockStep
<1>7. Len(K[p]) < j
  <2> SUFFICES ASSUME ~ (Len(K[p]) < j) PROVE FALSE
    OBVIOUS
  <2> HIDE DEF p
  <2>1. \A x \in 1..j : x \in 1..Len(K[p]) /\ x \in 1..Len(V[p])
    BY <1>1, <1>6
  <2>2. j <= Len(K[p]) /\ j <= Len(V[p]) /\ j <= Len(V[i])
    BY <1>1, <1>4, <1>6
  <2>3. SameTo(j, K[p], K[n]) /\ SameTo(j, V[p], V[n])
    BY <1>4, <1>6, <2>1, <2>2 DEF SameTo, Begins
  <2>4. p \in Q
    BY <1>6, <2>3
  <2>5. Len(K[i]) <= Len(K[p])
    BY <1>3, <2>4
  <2> QED BY <1>1, <1>4, <1>6, <2>5
<1> QED BY <1>4, <1>5, <1>7

\* So the blocks of a path are stored.
LEMMA PathStored ==
    ASSUME NEW T, NEW K, NEW V, NEW C, NEW B, StoreOK(T, C, B), LinksOK(T),
           PathsOK(T, K, V, C, B), NEW n \in DOMAIN T.nodes, NEW j \in 1..Len(K[n])
    PROVE  V[n][j] \in Stored(T.nodes)
<1>1. PICK i \in NonRoot(T) : /\ Len(K[T.nodes[i].parent]) < j
                              /\ SameTo(j, K[i], K[n]) /\ SameTo(j, V[i], V[n])
  BY Locate
<1> DEFINE p == T.nodes[i].parent
           x == j - Len(K[p])
           s == T.nodes[i].blocks
<1>0. j \in Nat
  OBVIOUS
<1>2. /\ Len(K[i]) \in Nat /\ Len(K[p]) \in Nat /\ Len(K[p]) < Len(K[i])
  BY PathStep
<1>3. /\ Len(s) = Len(K[i]) - Len(K[p])
      /\ \A y \in 1..Len(s) : V[i][Len(K[p]) + y] = s[y]
  <2>1. Joined(V[i], V[p], s) /\ Len(V[i]) = Len(K[i]) /\ Len(V[p]) = Len(K[p])
    BY BlockStep
  <2>2. Len(s) \in Nat
    BY NodeIs, LenProperties DEF NonRoot
  <2> HIDE DEF p, s
  <2> QED BY ONLY <1>2, <2>1, <2>2 DEF Joined
<1>4. V[i][j] = V[n][j] /\ j <= Len(K[i])
  BY <1>1 DEF SameTo
<1>5. i \in DOMAIN T.nodes \ {Root} /\ s \in Seq(B)
  BY NodeIs DEF NonRoot
<1>6. DOMAIN s = 1..Len(s)
  BY <1>5, LenProperties
<1> HIDE DEF p, s
<1>7. x \in 1..Len(s) /\ Len(K[p]) + x = j
  <2>1. Len(K[p]) < j
    BY <1>1 DEF p
  <2> QED BY ONLY <1>2, <1>3, <1>4, <2>1, <1>0
<1>8. V[n][j] = s[x]
  BY <1>3, <1>4, <1>7
<1>9. V[n][j] \in Range(s)
  BY <1>6, <1>7, <1>8 DEF Range
<1> QED BY <1>5, <1>9 DEF Stored, s

\* Nodes with the same chunks, blocks and parents.
SameNodes(T, U) ==
    /\ DOMAIN U.nodes = DOMAIN T.nodes
    /\ \A i \in DOMAIN T.nodes :
         /\ U.nodes[i].key = T.nodes[i].key /\ U.nodes[i].blocks = T.nodes[i].blocks
         /\ U.nodes[i].parent = T.nodes[i].parent

\* They have the same paths.
LEMMA SamePaths ==
    ASSUME NEW T, NEW U, NEW K, NEW V, NEW C, NEW B, PathsOK(T, K, V, C, B), SameNodes(T, U)
    PROVE  PathsOK(U, K, V, C, B)
<1>1. DOMAIN U.nodes = DOMAIN T.nodes /\ NonRoot(U) = NonRoot(T)
      /\ \A i \in NonRoot(T) : i \in DOMAIN T.nodes
  BY DEF SameNodes, NonRoot
<1>2. /\ DOMAIN K = DOMAIN U.nodes /\ DOMAIN V = DOMAIN U.nodes
      /\ \A i \in DOMAIN U.nodes : K[i] \in Seq(C) /\ V[i] \in Seq(B) /\ Len(K[i]) = Len(V[i])
      /\ Len(K[Root]) = 0
  BY <1>1 DEF PathsOK
<1>3. ASSUME NEW i \in NonRoot(U)
      PROVE  /\ Joined(K[i], K[U.nodes[i].parent], U.nodes[i].key)
             /\ Joined(V[i], V[U.nodes[i].parent], U.nodes[i].blocks)
  <2>1. /\ Joined(K[i], K[T.nodes[i].parent], T.nodes[i].key)
        /\ Joined(V[i], V[T.nodes[i].parent], T.nodes[i].blocks)
    BY <1>1 DEF PathsOK
  <2>2. /\ U.nodes[i].key = T.nodes[i].key /\ U.nodes[i].blocks = T.nodes[i].blocks
        /\ U.nodes[i].parent = T.nodes[i].parent
    BY <1>1 DEF SameNodes
  <2> QED BY <2>1, <2>2
<1> QED BY <1>2, <1>3 DEF PathsOK

\* The beginning of a list is a part of it, all of it if it is as long.
LEMMA TakeBegins ==
    ASSUME NEW S, NEW s \in Seq(S), NEW n \in 0..Len(s)
    PROVE  /\ Take(s, n) \in Seq(S) /\ Len(Take(s, n)) = n
           /\ Begins(Take(s, n), s)
           /\ n = Len(s) => Take(s, n) = s
<1> DEFINE t == Take(s, n)
<1>1. t \in Seq(S) /\ Len(t) = n /\ \A i \in 1..n : t[i] = s[i]
  BY CutElements
<1>2. Len(s) \in Nat /\ n <= Len(s)
  BY LenProperties
<1> HIDE DEF t
<1>3. Begins(t, s)
  BY <1>1, <1>2 DEF Begins
<1>4. n = Len(s) => t = s
  BY <1>1, SeqEqual
<1> QED BY <1>1, <1>3, <1>4 DEF t

\* What is joined, cut inside its second part.
LEMMA JoinCut ==
    ASSUME NEW S, NEW s \in Seq(S), NEW a \in Seq(S), NEW b \in Seq(S), Joined(s, a, b),
           NEW k \in 0..Len(b)
    PROVE  /\ Len(a) + k \in 0..Len(s)
           /\ Joined(Take(s, Len(a) + k), a, Take(b, k))
           /\ Joined(s, Take(s, Len(a) + k), Skip(b, k))
<1> DEFINE m == Len(a) + k
           t == Take(s, m)
           x == Take(b, k)
           y == Skip(b, k)
<1>1. Len(a) \in Nat /\ Len(b) \in Nat /\ k \in Nat /\ k <= Len(b) /\ Len(s) = Len(a) + Len(b)
  BY LenProperties DEF Joined
<1>2. m \in 0..Len(s) /\ m = Len(a) + k
  BY <1>1
<1> HIDE DEF m
<1>3. Len(t) = m /\ \A i \in 1..m : t[i] = s[i]
  BY <1>2, CutElements
<1>4. /\ Len(x) = k /\ \A i \in 1..k : x[i] = b[i]
      /\ Len(y) = Len(b) - k /\ \A i \in 1..(Len(b) - k) : y[i] = b[k + i]
  BY CutElements
<1> HIDE DEF t, x, y
<1>5. Joined(t, a, x)
  <2>1. \A j \in 1..Len(a) : t[j] = a[j]
    BY <1>1, <1>2, <1>3 DEF Joined
  <2>2. ASSUME NEW j \in 1..k PROVE t[Len(a) + j] = x[j]
    <3>1. Len(a) + j \in 1..m /\ j \in 1..Len(b)
      BY <1>1, <1>2
    <3> QED BY <1>3, <1>4, <3>1 DEF Joined
  <2> QED BY <1>2, <1>3, <1>4, <2>1, <2>2 DEF Joined
<1>6. Joined(s, t, y)
  <2>1. Len(s) = Len(t) + Len(y)
    BY <1>1, <1>2, <1>3, <1>4
  <2>2. ASSUME NEW j \in 1..(Len(b) - k) PROVE s[m + j] = y[j]
    <3>1. k + j \in 1..Len(b) /\ m + j = Len(a) + (k + j)
      BY <1>1, <1>2
    <3> QED BY <1>4, <3>1 DEF Joined
  <2> QED BY <1>3, <1>4, <2>1, <2>2 DEF Joined
<1> QED BY <1>2, <1>5, <1>6 DEF m, t, x, y

\* U's paths K2 and V2 begin those of S, and are the same where ext counts a use.
PathsCut(U, K, V, K2, V2, ext) ==
    \A i \in DOMAIN U.nodes :
        /\ Begins(K2[i], K[i]) /\ Begins(V2[i], V[i])
        /\ ext[i] > 0 => K2[i] = K[i] /\ V2[i] = V[i]

\* What is left after evictions has its paths cut.
LEMMA ShrunkPaths ==
    ASSUME NEW S, NEW U, NEW ext, NEW K, NEW V, NEW C, NEW B, StoreOK(S, C, B), LinksOK(S),
           PathsOK(S, K, V, C, B), LinksOK(U), Root \in DOMAIN U.nodes, Shrunk(S, U, ext)
    PROVE  \E K2, V2 : PathsOK(U, K2, V2, C, B) /\ PathsCut(U, K, V, K2, V2, ext)
<1> DEFINE N == S.nodes
           M == U.nodes
           par(i) == N[i].parent
           d(i) == IF i = Root THEN 0 ELSE Len(K[par(i)]) + Len(M[i].key)
           K2 == [i \in DOMAIN M |-> Take(K[i], d(i))]
           V2 == [i \in DOMAIN M |-> Take(V[i], d(i))]
<1>1. DOMAIN M \subseteq DOMAIN N /\ NonRoot(U) \subseteq NonRoot(S)
      /\ \A i \in DOMAIN M : M[i].parent = par(i)
  BY DEF Shrunk, NonRoot
<1>2. \A i \in DOMAIN M : /\ K[i] \in Seq(C) /\ V[i] \in Seq(B) /\ Len(K[i]) = Len(V[i])
                          /\ Len(K[i]) \in Nat
  BY <1>1, LenProperties DEF PathsOK
<1>3. ASSUME NEW i \in NonRoot(U)
      PROVE  /\ d(i) \in 0..Len(K[i])
             /\ Joined(Take(K[i], d(i)), K[par(i)], M[i].key)
             /\ Joined(Take(V[i], d(i)), V[par(i)], M[i].blocks)
             /\ (\E j \in NonRoot(U) : M[j].parent = i) \/ ext[i] > 0 => d(i) = Len(K[i])
  <2> DEFINE p == par(i)
             a == K[p]
             v == V[p]
             s == K[i]
             t == V[i]
             key == N[i].key
             blocks == N[i].blocks
  <2>1. i \in DOMAIN N /\ i \in DOMAIN M /\ i # Root /\ i \in NonRoot(S)
    BY <1>1 DEF NonRoot
  <2>2. key \in Seq(C) /\ blocks \in Seq(B) /\ Len(key) = Len(blocks)
    BY <2>1, NodeIs
  <2>3. p \in DOMAIN N
    BY <2>1 DEF LinksOK
  <2>4. /\ a \in Seq(C) /\ v \in Seq(B) /\ s \in Seq(C) /\ t \in Seq(B)
        /\ Len(a) = Len(v) /\ Len(s) = Len(t)
    BY <2>1, <2>3 DEF PathsOK
  <2>5. Joined(s, a, key) /\ Joined(t, v, blocks)
    BY <2>1 DEF PathsOK
  <2>6. d(i) = Len(a) + Len(M[i].key)
    BY <2>1
  <2>7. \/ M[i].key = key /\ M[i].blocks = blocks
        \/ /\ ext[i] = 0 /\ ShortOf(M[i], N[i]) /\ \A j \in NonRoot(U) : M[j].parent # i
    BY <2>1 DEF Shrunk
  <2> HIDE DEF a, v, s, t, key, blocks, d
  <2>8. Len(key) \in Nat /\ Len(a) \in Nat /\ Len(s) = Len(a) + Len(key) /\ Len(s) \in Nat
    BY <2>2, <2>4, <2>5, LenProperties DEF Joined
  <2>9. CASE M[i].key = key /\ M[i].blocks = blocks
    <3>1. d(i) = Len(s) /\ d(i) \in 0..Len(s)
      BY <2>6, <2>8, <2>9
    <3>2. Take(s, d(i)) = s /\ Take(t, d(i)) = t
      BY <2>4, <3>1, TakeBegins
    <3>3. /\ Joined(Take(s, d(i)), a, M[i].key) /\ Joined(Take(t, d(i)), v, M[i].blocks)
      BY <2>5, <2>9, <3>2
    <3> QED BY <3>1, <3>3 DEF a, v, s, t
  <2>10. CASE ext[i] = 0 /\ ShortOf(M[i], N[i]) /\ \A j \in NonRoot(U) : M[j].parent # i
    <3>1. PICK k \in 1..Len(key) : M[i].key = Take(key, k) /\ M[i].blocks = Take(blocks, k)
      BY <2>10 DEF ShortOf, key, blocks
    <3>2. k \in 0..Len(key) /\ k \in 0..Len(blocks)
      BY <2>2, <2>8
    <3>3. Len(M[i].key) = k
      <4>1. Len(Take(key, k)) = k
        BY ONLY <2>2, <3>2, CutElements
      <4> QED BY <3>1, <4>1
    <3>4. d(i) = Len(a) + k /\ d(i) = Len(v) + k
      BY <2>4, <2>6, <3>3
    <3>5. /\ Len(a) + k \in 0..Len(s) /\ Joined(Take(s, Len(a) + k), a, Take(key, k))
          /\ Joined(Take(t, Len(v) + k), v, Take(blocks, k))
      BY ONLY <2>2, <2>4, <2>5, <3>2, JoinCut
    <3>6. /\ d(i) \in 0..Len(s) /\ Joined(Take(s, d(i)), a, M[i].key)
          /\ Joined(Take(t, d(i)), v, M[i].blocks)
      BY ONLY <3>1, <3>4, <3>5
    <3>7. ~ (ext[i] > 0)
      BY <2>10
    <3> QED BY <2>10, <3>6, <3>7 DEF a, v, s, t
  <2> QED BY <2>7, <2>9, <2>10
<1>4. Len(K[Root]) = 0 /\ d(Root) = 0
  BY DEF PathsOK
<1>5. \A i \in DOMAIN M : i = Root \/ i \in NonRoot(U)
  BY DEF NonRoot
<1> HIDE DEF d
<1>6. ASSUME NEW i \in DOMAIN M
      PROVE  /\ d(i) \in 0..Len(K[i]) /\ d(i) \in 0..Len(V[i])
             /\ (\E j \in NonRoot(U) : M[j].parent = i) \/ ext[i] > 0 => d(i) = Len(K[i])
  <2>1. CASE i = Root
    BY <1>2, <1>4, <2>1
  <2>2. CASE i \in NonRoot(U)
    BY <1>2, <1>3, <2>2
  <2> QED BY <1>5, <2>1, <2>2
<1>7. ASSUME NEW i \in DOMAIN M
      PROVE  /\ K2[i] = Take(K[i], d(i)) /\ V2[i] = Take(V[i], d(i))
             /\ K2[i] \in Seq(C) /\ V2[i] \in Seq(B) /\ Len(K2[i]) = d(i) /\ Len(V2[i]) = d(i)
             /\ Begins(K2[i], K[i]) /\ Begins(V2[i], V[i])
             /\ d(i) = Len(K[i]) => K2[i] = K[i] /\ V2[i] = V[i]
  <2>1. K2[i] = Take(K[i], d(i)) /\ V2[i] = Take(V[i], d(i))
    OBVIOUS
  <2> HIDE DEF K2, V2
  <2>2. /\ Take(K[i], d(i)) \in Seq(C) /\ Len(Take(K[i], d(i))) = d(i)
        /\ Begins(Take(K[i], d(i)), K[i]) /\ (d(i) = Len(K[i]) => Take(K[i], d(i)) = K[i])
    BY <1>2, <1>6, TakeBegins
  <2>3. /\ Take(V[i], d(i)) \in Seq(B) /\ Len(Take(V[i], d(i))) = d(i)
        /\ Begins(Take(V[i], d(i)), V[i]) /\ (d(i) = Len(V[i]) => Take(V[i], d(i)) = V[i])
    BY <1>2, <1>6, TakeBegins
  <2> QED BY <1>2, <2>1, <2>2, <2>3
<1>8. DOMAIN K2 = DOMAIN M /\ DOMAIN V2 = DOMAIN M
  OBVIOUS
<1> HIDE DEF K2, V2
<1>9. ASSUME NEW i \in NonRoot(U)
      PROVE  /\ Joined(K2[i], K2[M[i].parent], M[i].key)
             /\ Joined(V2[i], V2[M[i].parent], M[i].blocks)
  <2>1. i \in DOMAIN M /\ par(i) = M[i].parent /\ par(i) \in DOMAIN M
    BY <1>1 DEF NonRoot, LinksOK
  <2>2. d(par(i)) = Len(K[par(i)])
    BY <1>6, <2>1
  <2>3. K2[par(i)] = K[par(i)] /\ V2[par(i)] = V[par(i)]
    BY <1>7, <2>1, <2>2
  <2>4. K2[i] = Take(K[i], d(i)) /\ V2[i] = Take(V[i], d(i))
    BY <1>7, <2>1
  <2>5. Joined(Take(K[i], d(i)), K[par(i)], M[i].key) /\ Joined(Take(V[i], d(i)), V[par(i)], M[i].blocks)
    BY <1>3
  <2> QED BY <2>1, <2>3, <2>4, <2>5
<1>10. PathsOK(U, K2, V2, C, B)
  <2>1. Len(K2[Root]) = 0
    BY <1>4, <1>7
  <2>2. \A i \in DOMAIN M : K2[i] \in Seq(C) /\ V2[i] \in Seq(B) /\ Len(K2[i]) = Len(V2[i])
    BY <1>7
  <2> QED BY <1>8, <1>9, <2>1, <2>2 DEF PathsOK
<1>11. PathsCut(U, K, V, K2, V2, ext)
  BY <1>6, <1>7 DEF PathsCut
<1> QED BY <1>10, <1>11

\* K2 and V2 have the paths of K and V.
Kept(K, V, K2, V2) == \A i \in DOMAIN K : i \in DOMAIN K2 /\ K2[i] = K[i] /\ V2[i] = V[i]

\* A path more, for a node whose parent was there.
PathMore(K, V, K2, V2, q, key, blocks) ==
    /\ DOMAIN K2 = DOMAIN K \cup {q} /\ DOMAIN V2 = DOMAIN K2
    /\ Kept(K, V, K2, V2)
    /\ K2[q] = key /\ V2[q] = blocks

\* There are functions for that.
LEMMA MorePaths ==
    ASSUME NEW K, NEW V, NEW q, q \notin DOMAIN K, DOMAIN V = DOMAIN K, NEW key, NEW blocks
    PROVE  PathMore(K, V, With(K, q, key), With(V, q, blocks), q, key, blocks)
<1> DEFINE K2 == With(K, q, key)
           V2 == With(V, q, blocks)
<1>1. DOMAIN K2 = DOMAIN K \cup {q} /\ K2[q] = key /\ \A y \in DOMAIN K : K2[y] = K[y]
  BY Zenon DEF With
<1>2. DOMAIN V2 = DOMAIN V \cup {q} /\ V2[q] = blocks /\ \A y \in DOMAIN V : V2[y] = V[y]
  BY Zenon DEF With
<1> HIDE DEF K2, V2
<1>3. PathMore(K, V, K2, V2, q, key, blocks)
  BY <1>1, <1>2 DEF PathMore, Kept
<1> QED BY <1>3 DEF K2, V2

\* A new node has the path of its parent and its own chunks.
LEMMA AddPaths ==
    ASSUME NEW T, NEW U, NEW K, NEW V, NEW C, NEW B, StoreOK(T, C, B), LinksOK(T),
           PathsOK(T, K, V, C, B), NEW p \in DOMAIN T.nodes,
           NEW key \in Seq(C), NEW blocks \in Seq(B), Len(key) = Len(blocks),
           Added(T, U, p, key, blocks), T.next_id \notin DOMAIN T.nodes
    PROVE  \E K2, V2 : /\ PathsOK(U, K2, V2, C, B)
                       /\ PathMore(K, V, K2, V2, T.next_id, K[p] \o key, V[p] \o blocks)
<1> DEFINE N == T.nodes
           M == U.nodes
           q == T.next_id
           s == K[p] \o key
           v == V[p] \o blocks
           K2 == With(K, q, s)
           V2 == With(V, q, v)
<1>1. /\ DOMAIN K = DOMAIN N /\ DOMAIN V = DOMAIN N /\ Len(K[Root]) = 0
      /\ \A i \in DOMAIN N : K[i] \in Seq(C) /\ V[i] \in Seq(B) /\ Len(K[i]) = Len(V[i])
  BY DEF PathsOK
<1>2. /\ DOMAIN M = DOMAIN N \cup {q} /\ M[q].key = key /\ M[q].blocks = blocks /\ M[q].parent = p
      /\ \A i \in DOMAIN N : /\ M[i].key = N[i].key /\ M[i].blocks = N[i].blocks
                             /\ M[i].parent = N[i].parent
  BY DEF Added, TrieNode
<1>3. PathMore(K, V, K2, V2, q, s, v)
  BY <1>1, MorePaths
<1>4. s \in Seq(C) /\ Joined(s, K[p], key) /\ v \in Seq(B) /\ Joined(v, V[p], blocks) /\ Len(s) = Len(v)
  <2> DEFINE a == K[p]
             b == V[p]
  <2>1. a \in Seq(C) /\ b \in Seq(B) /\ Len(a) = Len(b)
    BY <1>1
  <2> HIDE DEF a, b
  <2>2. \A S : \A x, y \in Seq(S) : x \o y \in Seq(S) /\ Joined(x \o y, x, y)
    BY ConcatProperties, LenProperties DEF Joined
  <2>3. s \in Seq(C) /\ Joined(s, a, key) /\ v \in Seq(B) /\ Joined(v, b, blocks)
    BY <2>1, <2>2 DEF a, b
  <2>4. Len(s) = Len(v)
    <3> HIDE DEF s, v
    <3> QED BY <2>1, <2>3 DEF Joined
  <2> QED BY <2>3, <2>4 DEF a, b
<1> HIDE DEF K2, V2, s, v
<1>5. /\ DOMAIN K2 = DOMAIN M /\ DOMAIN V2 = DOMAIN M /\ K2[q] = s /\ V2[q] = v
      /\ \A i \in DOMAIN N : K2[i] = K[i] /\ V2[i] = V[i]
  BY <1>1, <1>2, <1>3 DEF PathMore, Kept
<1>6. Root \in DOMAIN N
  BY DEF StoreOK
<1>7. ASSUME NEW i \in NonRoot(U)
      PROVE  Joined(K2[i], K2[M[i].parent], M[i].key) /\ Joined(V2[i], V2[M[i].parent], M[i].blocks)
  <2>1. CASE i = q
    BY <1>2, <1>4, <1>5, <2>1
  <2>2. CASE i # q
    <3>1. i \in NonRoot(T) /\ i \in DOMAIN N
      BY <1>2, <2>2 DEF NonRoot
    <3>2. N[i].parent \in DOMAIN N
      BY <3>1 DEF LinksOK
    <3>3. Joined(K[i], K[N[i].parent], N[i].key) /\ Joined(V[i], V[N[i].parent], N[i].blocks)
      BY <3>1 DEF PathsOK
    <3> QED BY <1>2, <1>5, <3>1, <3>2, <3>3
  <2> QED BY <2>1, <2>2
<1>8. \A i \in DOMAIN M : K2[i] \in Seq(C) /\ V2[i] \in Seq(B) /\ Len(K2[i]) = Len(V2[i])
  BY <1>1, <1>2, <1>4, <1>5
<1>9. PathsOK(U, K2, V2, C, B)
  BY <1>1, <1>5, <1>6, <1>7, <1>8 DEF PathsOK
<1> QED BY <1>3, <1>9 DEF s, v

\* The new node of a split has the first part of the path, which stays as it was.
LEMMA SplitPaths ==
    ASSUME NEW T, NEW U, NEW K, NEW V, NEW C, NEW B, StoreOK(T, C, B), LinksOK(T),
           PathsOK(T, K, V, C, B), NEW id \in NonRoot(T),
           NEW n \in 1..(Len(T.nodes[id].key) - 1),
           Split(T, U, id, n), T.next_id \notin DOMAIN T.nodes
    PROVE  LET d == Len(K[T.nodes[id].parent]) + n
           IN  /\ d \in 0..Len(K[id])
               /\ \E K2, V2 : /\ PathsOK(U, K2, V2, C, B)
                              /\ PathMore(K, V, K2, V2, T.next_id, Take(K[id], d), Take(V[id], d))
<1> DEFINE N == T.nodes
           M == U.nodes
           q == T.next_id
           g == N[id].parent
           d == Len(K[g]) + n
           s == Take(K[id], d)
           v == Take(V[id], d)
           K2 == With(K, q, s)
           V2 == With(V, q, v)
<1>1. /\ DOMAIN K = DOMAIN N /\ DOMAIN V = DOMAIN N /\ Len(K[Root]) = 0
      /\ \A i \in DOMAIN N : K[i] \in Seq(C) /\ V[i] \in Seq(B) /\ Len(K[i]) = Len(V[i])
  BY DEF PathsOK
<1>2. id \in DOMAIN N /\ g \in DOMAIN N /\ g # id
  BY DEF NonRoot, LinksOK
<1>3. /\ DOMAIN M = DOMAIN N \cup {q}
      /\ M[q].key = Take(N[id].key, n) /\ M[q].blocks = Take(N[id].blocks, n) /\ M[q].parent = g
      /\ M[id].key = Skip(N[id].key, n) /\ M[id].blocks = Skip(N[id].blocks, n) /\ M[id].parent = q
      /\ \A i \in DOMAIN N : i # id => /\ M[i].key = N[i].key /\ M[i].blocks = N[i].blocks
                                       /\ M[i].parent = N[i].parent
  BY DEF Split
<1>4. PathMore(K, V, K2, V2, q, s, v)
  BY <1>1, MorePaths
<1>5. /\ d \in 0..Len(K[id]) /\ s \in Seq(C) /\ v \in Seq(B) /\ Len(s) = d /\ Len(v) = d
      /\ Joined(s, K[g], M[q].key) /\ Joined(v, V[g], M[q].blocks)
      /\ Joined(K[id], s, M[id].key) /\ Joined(V[id], v, M[id].blocks)
  <2> DEFINE key == N[id].key
             blocks == N[id].blocks
             a == K[g]
             b == V[g]
             x == K[id]
             y == V[id]
  <2>1. key \in Seq(C) /\ blocks \in Seq(B) /\ Len(key) = Len(blocks)
    BY <1>2, NodeIs
  <2>2. n \in 0..Len(key) /\ n \in 0..Len(blocks)
    BY <2>1, LenProperties
  <2>3. /\ a \in Seq(C) /\ b \in Seq(B) /\ Len(a) = Len(b) /\ x \in Seq(C) /\ y \in Seq(B)
        /\ Len(x) = Len(y)
    BY <1>1, <1>2
  <2>4. Joined(x, a, key) /\ Joined(y, b, blocks)
    BY DEF PathsOK
  <2>5. d = Len(a) + n /\ d = Len(b) + n /\ s = Take(x, d) /\ v = Take(y, d)
    BY <2>3
  <2> HIDE DEF key, blocks, a, b, x, y, d, s, v
  <2>6. /\ Len(a) + n \in 0..Len(x)
        /\ Joined(Take(x, Len(a) + n), a, Take(key, n)) /\ Joined(x, Take(x, Len(a) + n), Skip(key, n))
    BY ONLY <2>1, <2>2, <2>3, <2>4, JoinCut
  <2>7. /\ Joined(Take(y, Len(b) + n), b, Take(blocks, n)) /\ Joined(y, Take(y, Len(b) + n), Skip(blocks, n))
    BY ONLY <2>1, <2>2, <2>3, <2>4, JoinCut
  <2>8. d \in 0..Len(x) /\ d \in 0..Len(y)
    BY ONLY <2>3, <2>5, <2>6
  <2>9. s \in Seq(C) /\ v \in Seq(B) /\ Len(s) = d /\ Len(v) = d
    BY ONLY <2>3, <2>5, <2>8, TakeBegins
  <2>10. /\ Joined(s, a, Take(key, n)) /\ Joined(x, s, Skip(key, n))
         /\ Joined(v, b, Take(blocks, n)) /\ Joined(y, v, Skip(blocks, n))
    BY ONLY <2>5, <2>6, <2>7
  <2> QED BY <1>3, <2>8, <2>9, <2>10 DEF key, blocks, a, b, x, y
<1> HIDE DEF K2, V2, s, v, d
<1>6. /\ DOMAIN K2 = DOMAIN M /\ DOMAIN V2 = DOMAIN M /\ K2[q] = s /\ V2[q] = v
      /\ \A i \in DOMAIN N : K2[i] = K[i] /\ V2[i] = V[i]
  BY <1>1, <1>3, <1>4 DEF PathMore, Kept
<1>7. Root \in DOMAIN N
  BY DEF StoreOK
<1>8. ASSUME NEW i \in NonRoot(U)
      PROVE  Joined(K2[i], K2[M[i].parent], M[i].key) /\ Joined(V2[i], V2[M[i].parent], M[i].blocks)
  <2>1. CASE i = q
    BY <1>2, <1>3, <1>5, <1>6, <2>1
  <2>2. CASE i = id
    BY <1>2, <1>3, <1>5, <1>6, <2>2
  <2>3. CASE i # q /\ i # id
    <3>1. i \in NonRoot(T) /\ i \in DOMAIN N
      BY <1>3, <2>3 DEF NonRoot
    <3>2. N[i].parent \in DOMAIN N
      BY <3>1 DEF LinksOK
    <3>3. Joined(K[i], K[N[i].parent], N[i].key) /\ Joined(V[i], V[N[i].parent], N[i].blocks)
      BY <3>1 DEF PathsOK
    <3> QED BY <1>3, <1>6, <2>3, <3>1, <3>2, <3>3
  <2> QED BY <2>1, <2>2, <2>3
<1>9. \A i \in DOMAIN M : K2[i] \in Seq(C) /\ V2[i] \in Seq(B) /\ Len(K2[i]) = Len(V2[i])
  BY <1>1, <1>3, <1>5, <1>6
<1>10. PathsOK(U, K2, V2, C, B)
  BY <1>1, <1>6, <1>7, <1>8, <1>9 DEF PathsOK
<1> QED BY <1>4, <1>5, <1>10 DEF d, s, v

\* The nodes M have the blocks of N and those of the list l, which were not there.
Gained(N, M, l) ==
    Owned(N) /\ IsInjective(l) /\ Range(l) \cap Stored(N) = {}
      => Owned(M) /\ Stored(M) = Stored(N) \cup Range(l)

\* A new node has the blocks it is given.
LEMMA AddGained ==
    ASSUME NEW N, NEW M, NEW B, \A i \in DOMAIN N : N[i].blocks \in Seq(B), NEW q,
           q \notin DOMAIN N, q # Root, DOMAIN M = DOMAIN N \cup {q}, M[q].blocks \in Seq(B),
           \A i \in DOMAIN N : M[i].blocks = N[i].blocks
    PROVE  Gained(N, M, M[q].blocks)
<1> DEFINE l == M[q].blocks
<1> SUFFICES ASSUME Owned(N), IsInjective(l), Range(l) \cap Stored(N) = {}
             PROVE  Owned(M) /\ Stored(M) = Stored(N) \cup Range(l)
  BY DEF Gained
<1>1. DOMAIN l = 1..Len(l)
  BY LenProperties
<1>2. \A b, i, x : At(M, b, i, x) /\ i # q => At(N, b, i, x)
  BY DEF At
<1>3. \A b, x : At(M, b, q, x) => x \in DOMAIN l /\ l[x] = b /\ b \in Range(l)
  BY <1>1 DEF At, Range
<1>4. \A b, i, x : At(N, b, i, x) => b \in Stored(N)
  BY StoredIs
<1>5. ASSUME NEW b, NEW i, NEW x, NEW j, NEW y, At(M, b, i, x), At(M, b, j, y)
      PROVE  i = j /\ x = y
  <2>1. CASE i # q /\ j # q
    <3>1. At(N, b, i, x) /\ At(N, b, j, y)
      BY ONLY <1>2, <1>5, <2>1
    <3> QED BY ONLY <3>1, Owned(N) DEF Owned
  <2>2. CASE i = q /\ j = q
    <3>1. x \in DOMAIN l /\ l[x] = b /\ y \in DOMAIN l /\ l[y] = b
      BY ONLY <1>3, <1>5, <2>2
    <3> HIDE DEF l
    <3> QED BY ONLY <2>2, <3>1, IsInjective(l) DEF IsInjective
  <2>3. CASE ~ (i = q <=> j = q)
    <3>1. b \in Range(l) /\ b \in Stored(N)
      BY ONLY <1>2, <1>3, <1>4, <1>5, <2>3
    <3> QED BY <3>1
  <2> QED BY <2>1, <2>2, <2>3
<1>6. Owned(M)
  BY <1>5 DEF Owned
<1>7. Stored(M) = Stored(N) \cup Range(l)
  <2>1. DOMAIN M \ {Root} = (DOMAIN N \ {Root}) \cup {q}
    OBVIOUS
  <2>2. \A i \in DOMAIN N \ {Root} : M[i].blocks = N[i].blocks
    OBVIOUS
  <2> QED BY <2>1, <2>2 DEF Stored
<1> QED BY <1>6, <1>7

\* A node that is split has its blocks in two nodes.
LEMMA SplitGained ==
    ASSUME NEW N, NEW M, NEW B, \A i \in DOMAIN N : N[i].blocks \in Seq(B), NEW q,
           q \notin DOMAIN N, q # Root, DOMAIN M = DOMAIN N \cup {q}, NEW id \in DOMAIN N \ {Root},
           NEW n \in 0..Len(N[id].blocks), M[q].blocks = Take(N[id].blocks, n),
           M[id].blocks = Skip(N[id].blocks, n),
           \A i \in DOMAIN N : i # id => M[i].blocks = N[i].blocks
    PROVE  Gained(N, M, <<>>)
<1> DEFINE s == N[id].blocks
           L == Len(s)
<1> SUFFICES ASSUME Owned(N)
             PROVE  Owned(M) /\ Stored(M) = Stored(N)
  <2>1. Range(<<>>) = {}
    BY DEF Range
  <2> QED BY <2>1 DEF Gained
<1>0. s \in Seq(B) /\ L \in Nat /\ n \in 0..L
  BY LenProperties
<1>1. /\ Len(M[q].blocks) = n /\ \A x \in 1..n : M[q].blocks[x] = s[x]
      /\ Len(M[id].blocks) = L - n /\ \A x \in 1..(L - n) : M[id].blocks[x] = s[n + x]
  <2>1. /\ Len(Take(s, n)) = n /\ \A x \in 1..n : Take(s, n)[x] = s[x]
        /\ Len(Skip(s, n)) = L - n /\ \A x \in 1..(L - n) : Skip(s, n)[x] = s[n + x]
    <3> HIDE DEF s
    <3> QED BY ONLY <1>0, CutElements DEF L
  <2> QED BY <2>1
<1> DEFINE home(i) == IF i = q THEN id ELSE i
           place(i, x) == IF i = id THEN n + x ELSE x
<1>2. ASSUME NEW b, NEW i, NEW x, At(M, b, i, x)
      PROVE  /\ At(N, b, home(i), place(i, x)) /\ (i = q => x \in 1..n)
             /\ (i = id => x \in 1..(L - n))
  <2>1. CASE i = q
    <3>1. x \in 1..n /\ x \in 1..L /\ s[x] = b
      BY <1>0, <1>1, <1>2, <2>1 DEF At
    <3> QED BY <2>1, <3>1 DEF At
  <2>2. CASE i = id
    <3>1. x \in 1..(L - n) /\ n + x \in 1..L /\ s[n + x] = b
      BY <1>0, <1>1, <1>2, <2>2 DEF At
    <3> QED BY <2>2, <3>1 DEF At
  <2>3. CASE i # q /\ i # id
    BY <1>2, <2>3 DEF At
  <2> QED BY <2>1, <2>2, <2>3
<1>3. ASSUME NEW b, NEW i, NEW x, NEW j, NEW y, At(M, b, i, x), At(M, b, j, y)
      PROVE  i = j /\ x = y
  <2> DEFINE u == place(i, x)
             v == place(j, y)
  <2>1. home(i) = home(j) /\ u = v
    <3>1. At(N, b, home(i), u) /\ At(N, b, home(j), v)
      BY ONLY <1>2, <1>3
    <3> HIDE DEF home, u, v
    <3> QED BY ONLY <3>1, Owned(N) DEF Owned
  <2>2. /\ (i = q => x \in 1..n) /\ (i = id => x \in 1..(L - n))
        /\ (j = q => y \in 1..n) /\ (j = id => y \in 1..(L - n))
    BY ONLY <1>2, <1>3
  <2>3. q # id
    OBVIOUS
  <2> HIDE DEF L
  <2> QED BY ONLY <1>0, <2>1, <2>2, <2>3
<1>4. Owned(M)
  BY <1>3 DEF Owned
<1>5. Stored(M) = Stored(N)
  <2>1. Range(s) = Range(M[q].blocks) \cup Range(M[id].blocks)
    <3>1. Range(s) = Range(Take(s, n)) \cup Range(Skip(s, n))
      BY <1>0, CutRange
    <3> QED BY <3>1
  <2>2. ASSUME NEW b \in Stored(M) PROVE b \in Stored(N)
    <3>1. PICK i \in DOMAIN M \ {Root} : b \in Range(M[i].blocks)
      BY <2>2 DEF Stored
    <3>2. CASE i = q \/ i = id
      <4>1. b \in Range(N[id].blocks)
        BY <2>1, <3>1, <3>2
      <4> QED BY <4>1 DEF Stored
    <3>3. CASE i # q /\ i # id
      <4>1. i \in DOMAIN N \ {Root} /\ b \in Range(N[i].blocks)
        BY <3>1, <3>3
      <4> QED BY <4>1 DEF Stored
    <3> QED BY <3>2, <3>3
  <2>3. ASSUME NEW b \in Stored(N) PROVE b \in Stored(M)
    <3>1. PICK i \in DOMAIN N \ {Root} : b \in Range(N[i].blocks)
      BY <2>3 DEF Stored
    <3>2. q \in DOMAIN M \ {Root} /\ id \in DOMAIN M \ {Root} /\ i \in DOMAIN M \ {Root}
      OBVIOUS
    <3>3. b \in Range(M[q].blocks) \/ b \in Range(M[id].blocks) \/ b \in Range(M[i].blocks)
      BY <2>1, <3>1
    <3> QED BY <3>2, <3>3 DEF Stored
  <2> QED BY <2>2, <2>3
<1> QED BY <1>4, <1>5
-----------------------------------------------------------------------------
(* evict                                                                   *)

\* U is what evictions leave of T: a node that lost blocks was not used after any
\* that has no references and is left.
Evicted(T, U) ==
    /\ U.next_id = T.next_id /\ U.time = T.time
    /\ DOMAIN U.nodes \subseteq DOMAIN T.nodes
    /\ \A i \in DOMAIN U.nodes :
         /\ U.nodes[i].last_accessed = T.nodes[i].last_accessed
         /\ T.nodes[i].ref_count = 0 => U.nodes[i].ref_count = 0
    /\ \A i \in DOMAIN T.nodes, keep \in NonRoot(U) :
         (i \notin DOMAIN U.nodes \/ U.nodes[i].blocks # T.nodes[i].blocks)
           /\ T.nodes[keep].ref_count = 0
         => T.nodes[i].last_accessed <= T.nodes[keep].last_accessed

\* To evict from the oldest node without references keeps it so.
LEMMA EvictedOne ==
    ASSUME NEW S, NEW T, NEW U, NEW id \in NonRoot(T), Evicted(S, T),
           \A j \in NonRoot(T) : T.nodes[j].ref_count = 0 =>
               T.nodes[id].last_accessed <= T.nodes[j].last_accessed,
           U.next_id = T.next_id, U.time = T.time,
           DOMAIN U.nodes \subseteq DOMAIN T.nodes, DOMAIN T.nodes \ {id} \subseteq DOMAIN U.nodes,
           \A i \in DOMAIN U.nodes :
               /\ U.nodes[i].last_accessed = T.nodes[i].last_accessed
               /\ T.nodes[i].ref_count = 0 => U.nodes[i].ref_count = 0
               /\ i # id => U.nodes[i].blocks = T.nodes[i].blocks
    PROVE  Evicted(S, U)
<1> DEFINE Lost(V, i) == i \notin DOMAIN V.nodes \/ V.nodes[i].blocks # S.nodes[i].blocks
<1>1. /\ T.next_id = S.next_id /\ T.time = S.time /\ DOMAIN T.nodes \subseteq DOMAIN S.nodes
      /\ \A i \in DOMAIN T.nodes : /\ T.nodes[i].last_accessed = S.nodes[i].last_accessed
                                   /\ S.nodes[i].ref_count = 0 => T.nodes[i].ref_count = 0
      /\ \A i \in DOMAIN S.nodes, keep \in NonRoot(T) :
           Lost(T, i) /\ S.nodes[keep].ref_count = 0
             => S.nodes[i].last_accessed <= S.nodes[keep].last_accessed
  BY Zenon DEF Evicted
<1>2. ASSUME NEW i \in DOMAIN S.nodes, NEW keep \in NonRoot(U),
             Lost(U, i), S.nodes[keep].ref_count = 0
      PROVE  S.nodes[i].last_accessed <= S.nodes[keep].last_accessed
  <2>1. keep \in NonRoot(T) /\ keep \in DOMAIN T.nodes
    BY DEF NonRoot
  <2>2. CASE Lost(T, i)
    BY <1>1, <1>2, <2>1, <2>2, Zenon
  <2>3. CASE ~ Lost(T, i)
    <3>1. i = id
      BY <1>2, <2>3
    <3>2. T.nodes[keep].ref_count = 0
      BY <1>1, <1>2, <2>1
    <3>3. T.nodes[id].last_accessed <= T.nodes[keep].last_accessed
      BY <2>1, <3>2
    <3>4. id \in DOMAIN T.nodes
      BY DEF NonRoot
    <3> QED BY <1>1, <2>1, <3>1, <3>3, <3>4
  <2> QED BY <2>2, <2>3
<1>3. \A i \in DOMAIN U.nodes : /\ U.nodes[i].last_accessed = S.nodes[i].last_accessed
                                /\ S.nodes[i].ref_count = 0 => U.nodes[i].ref_count = 0
  BY <1>1
<1>4. U.next_id = S.next_id /\ U.time = S.time /\ DOMAIN U.nodes \subseteq DOMAIN S.nodes
  BY <1>1
<1> QED BY <1>2, <1>3, <1>4, Zenon DEF Evicted

\* The loop of evict before and after an iteration.
EvictOK(w, S, ext, C, B) ==
    /\ {"trie", "n", "evicted", "done"} \subseteq DOMAIN w
    /\ TrieOK(w.trie, ext, C, B)
    /\ w.evicted \in Seq(B) /\ w.n \in Nat
    /\ Evicted(S, w.trie)
    /\ StoreOK(S, C, B) /\ Freed(S, w.trie, ext, w.evicted)

\* No iteration of evict panics: what is popped is a node without references.
LEMMA EvictStepOK ==
    ASSUME NEW w, NEW S, NEW ext, NEW C, NEW B, EvictOK(w, S, ext, C, B)
    PROVE  EvictOK(EvictStep(w), S, ext, C, B)
<1> DEFINE T == w.trie
           leaf == FirstLeaf(T.leaves)
           id == leaf[2]
           needed == IF Len(w.evicted) < w.n THEN w.n - Len(w.evicted) ELSE 0
           popped == [T EXCEPT !.leaves = @ \ {leaf}]
           size == Len(popped.nodes[id].blocks)
           x == EvictStep(w)
<1>1. /\ {"trie", "n", "evicted", "done"} \subseteq DOMAIN w /\ TrieOK(T, ext, C, B)
      /\ w.evicted \in Seq(B) /\ w.n \in Nat /\ Evicted(S, T)
      /\ StoreOK(S, C, B) /\ Freed(S, T, ext, w.evicted)
  BY DEF EvictOK
<1>2. CASE w.done \/ T.leaves = {}
  <2>1. x = [w EXCEPT !.done = TRUE]
    BY <1>2, Zenon DEF EvictStep
  <2>2. /\ {"trie", "n", "evicted", "done"} \subseteq DOMAIN x
        /\ x.trie = w.trie /\ x.n = w.n /\ x.evicted = w.evicted
    BY <1>1, <2>1, Zenon
  <2> HIDE DEF x
  <2> QED BY <1>1, <2>2, Zenon DEF EvictOK, x
<1>3. CASE ~ (w.done \/ T.leaves = {})
  <2>1. StoreOK(T, C, B) /\ T.leaves = LeavesOf(T.nodes) /\ TrieFields \subseteq DOMAIN T
    BY <1>1 DEF TrieOK, StoreOK
  <2>2. /\ id \in NonRoot(T) /\ T.nodes[id].ref_count = 0
        /\ leaf = <<T.nodes[id].last_accessed, id>>
        /\ \A i \in NonRoot(T) : T.nodes[i].ref_count = 0 =>
             T.nodes[id].last_accessed <= T.nodes[i].last_accessed
    BY <1>3, <2>1, FirstLeafIs, Zenon
  <2> HIDE DEF leaf
  <2>3. /\ TrieFields \subseteq DOMAIN popped /\ popped.nodes = T.nodes /\ popped.time = T.time
        /\ popped.next_id = T.next_id /\ popped.panicked = T.panicked
        /\ popped.leaves = T.leaves \ {leaf}
    BY <2>1, Zenon DEF TrieFields
  <2> DEFINE node == T.nodes[id]
  <2>4. /\ id \in DOMAIN T.nodes /\ node.blocks \in Seq(B) /\ Len(node.blocks) = Len(node.key)
        /\ node.key # <<>> /\ node.key \in Seq(C) /\ NodeFields \subseteq DOMAIN node
    <3>1. id \in DOMAIN T.nodes
      BY <2>2 DEF NonRoot
    <3>2. node.key # <<>>
      BY <1>1, <2>2, Zenon DEF TrieOK, LinksOK
    <3> QED BY <2>1, <3>1, <3>2, NodeIs
  <2>5. size = Len(node.blocks) /\ size \in Nat \ {0} /\ needed \in Nat
    <3>1. Len(node.key) \in Nat \ {0}
      BY <2>4
    <3>2. Len(w.evicted) \in Nat /\ w.n \in Nat
      BY <1>1
    <3>3. size = Len(node.blocks)
      BY <2>3
    <3> QED BY <2>4, <3>1, <3>2, <3>3
  <2>6. ~ (id \notin DOMAIN popped.nodes \/ popped.nodes[id].ref_count # 0)
    BY <2>2, <2>3, <2>4
  <2>7. CASE needed >= size
    <3> DEFINE U == RemoveNode(popped, id)
               more == w.evicted \o node.blocks
               done == Len(w.evicted) + size >= w.n
    <3>1. x = [w EXCEPT !.trie = U, !.evicted = more, !.done = done]
      BY <1>3, <2>3, <2>6, <2>7, Zenon DEF EvictStep, leaf
    <3>2. TrieOK(U, ext, C, B) /\ Removed(T, U, id)
      <4>1. popped = [T EXCEPT !.leaves = @ \ {<<T.nodes[id].last_accessed, id>>}]
        BY <2>2, Zenon
      <4> HIDE DEF popped, id
      <4> QED BY <1>1, <2>2, <4>1, RemoveOK
    <3> HIDE DEF U, x, done
    <3>3. Evicted(S, U)
      <4>1. /\ U.next_id = T.next_id /\ U.time = T.time /\ DOMAIN U.nodes = DOMAIN T.nodes \ {id}
            /\ \A i \in DOMAIN U.nodes :
                 /\ U.nodes[i].blocks = T.nodes[i].blocks
                 /\ U.nodes[i].last_accessed = T.nodes[i].last_accessed
                 /\ U.nodes[i].ref_count <= T.nodes[i].ref_count
        BY <3>2, Zenon DEF Removed
      <4>2. \A i \in DOMAIN U.nodes : U.nodes[i].ref_count \in Nat
        BY <3>2, NodeIs DEF TrieOK
      <4>3. \A i \in DOMAIN U.nodes : T.nodes[i].ref_count = 0 => U.nodes[i].ref_count = 0
        BY <4>1, <4>2
      <4>4. DOMAIN U.nodes \subseteq DOMAIN T.nodes /\ DOMAIN T.nodes \ {id} \subseteq DOMAIN U.nodes
        BY <4>1
      <4> HIDE DEF T, id
      <4> QED BY <1>1, <2>2, <4>1, <4>3, <4>4, EvictedOne, Zenon
    <3>4. more \in Seq(B) /\ Freed(S, U, ext, more)
      <4>1. more \in Seq(B)
        BY <1>1, <2>4, ConcatProperties
      <4> HIDE DEF T, id
      <4>2. Freed(S, U, ext, more)
        BY <1>1, <2>2, <3>2, FreedNode
      <4> QED BY <4>1, <4>2
    <3> HIDE DEF more
    <3>5. /\ {"trie", "n", "evicted", "done"} \subseteq DOMAIN x
          /\ x.trie = U /\ x.n = w.n /\ x.evicted = more
      BY <1>1, <3>1, Zenon
    <3> QED BY <1>1, <3>2, <3>3, <3>4, <3>5, Zenon DEF EvictOK, x
  <2>8. CASE ~ (needed >= size)
    <3> DEFINE k == size - needed
               U == [popped EXCEPT !.nodes[id].key = Take(@, k),
                                   !.nodes[id].blocks = Take(@, k),
                                   !.leaves = @ \cup {leaf}]
               more == w.evicted \o Skip(node.blocks, k)
               cut == [node EXCEPT !.key = Take(@, k), !.blocks = Take(@, k)]
    <3>1. x = [w EXCEPT !.trie = U, !.evicted = more, !.done = TRUE]
      BY <1>3, <2>3, <2>6, <2>8, Zenon DEF EvictStep, leaf
    <3>2. k \in 1..Len(node.key) /\ k \in 0..Len(node.blocks)
      BY <2>4, <2>5, <2>8
    <3> HIDE DEF k
    <3>3. Replaced(T, U, id, cut)
      <4>1. /\ TrieFields \subseteq DOMAIN U /\ U.time = T.time /\ U.next_id = T.next_id
            /\ U.panicked = T.panicked /\ U.leaves = popped.leaves \cup {leaf}
        <5> HIDE DEF popped
        <5> QED BY <2>3, Zenon DEF TrieFields
      <4>2. U.nodes = [T.nodes EXCEPT ![id] = cut]
        <5>1. U.nodes = [popped.nodes EXCEPT ![id].key = Take(@, k), ![id].blocks = Take(@, k)]
          <6> HIDE DEF popped
          <6> QED BY <2>3, Zenon DEF TrieFields
        <5> HIDE DEF U
        <5>2. U.nodes = [T.nodes EXCEPT ![id].key = Take(@, k), ![id].blocks = Take(@, k)]
          BY <2>3, <5>1, Zenon
        <5> HIDE DEF T, id
        <5> QED BY <2>4, <5>2, Zenon DEF NodeFields
      <4>3. leaf \in T.leaves
        BY <2>1, <2>2, <2>4, LeafIs DEF NonRoot
      <4>4. U.leaves = T.leaves
        <5> HIDE DEF U, popped
        <5> QED BY <2>3, <4>1, <4>3
      <4> HIDE DEF U, cut
      <4> QED BY <4>1, <4>2, <4>4, Zenon DEF Replaced
    <3> HIDE DEF U, x
    <3>4. /\ TrieOK(U, ext, C, B) /\ DOMAIN U.nodes = DOMAIN T.nodes
          /\ \A i \in DOMAIN T.nodes :
               /\ U.nodes[i].last_accessed = T.nodes[i].last_accessed
               /\ U.nodes[i].ref_count = T.nodes[i].ref_count
               /\ i # id => U.nodes[i] = T.nodes[i]
      <4>1. ShortNode(node, cut, k)
        <5> HIDE DEF node
        <5> QED BY ONLY <2>4, Zenon DEF NodeFields, ShortNode, cut
      <4>2. ShortNode(T.nodes[id], cut, k) /\ k \in 1..Len(T.nodes[id].key)
        BY <3>2, <4>1
      <4> HIDE DEF T, id, cut
      <4>3. TrieOK(T, ext, C, B) /\ id \in NonRoot(T)
        BY <1>1, <2>2
      <4> QED BY ONLY <3>3, <4>2, <4>3, CutOK
    <3>5. Evicted(S, U)
      <4>1. U.next_id = T.next_id /\ U.time = T.time
        BY <3>3, Zenon DEF Replaced
      <4>2. DOMAIN U.nodes \subseteq DOMAIN T.nodes /\ DOMAIN T.nodes \ {id} \subseteq DOMAIN U.nodes
        BY <3>4
      <4>3. \A i \in DOMAIN U.nodes :
              /\ U.nodes[i].last_accessed = T.nodes[i].last_accessed
              /\ T.nodes[i].ref_count = 0 => U.nodes[i].ref_count = 0
              /\ i # id => U.nodes[i].blocks = T.nodes[i].blocks
        BY <3>4
      <4> HIDE DEF T, id
      <4> QED BY <1>1, <2>2, <4>1, <4>2, <4>3, EvictedOne, Zenon
    <3>6. more \in Seq(B) /\ Freed(S, U, ext, more)
      <4>1. Skip(node.blocks, k) \in Seq(B)
        BY <2>4, <3>2, CutList
      <4>2. more \in Seq(B)
        BY <1>1, <4>1, ConcatProperties
      <4>3. U.nodes = [T.nodes EXCEPT ![id] = cut]
        BY <3>3, Zenon DEF Replaced
      <4>4. ShortNode(T.nodes[id], cut, k) /\ k \in 1..Len(T.nodes[id].key)
        <5>1. ShortNode(node, cut, k)
          <6> HIDE DEF node
          <6> QED BY ONLY <2>4, Zenon DEF NodeFields, ShortNode, cut
        <5> QED BY <3>2, <5>1
      <4> HIDE DEF T, id, cut
      <4>5. Freed(S, U, ext, more)
        BY <1>1, <2>2, <4>3, <4>4, FreedPart
      <4> QED BY <4>2, <4>5
    <3> HIDE DEF more
    <3>7. /\ {"trie", "n", "evicted", "done"} \subseteq DOMAIN x
          /\ x.trie = U /\ x.n = w.n /\ x.evicted = more
      BY <1>1, <3>1, Zenon
    <3> QED BY <1>1, <3>4, <3>5, <3>6, <3>7, Zenon DEF EvictOK, x
  <2> QED BY <2>7, <2>8
<1> QED BY <1>2, <1>3
-----------------------------------------------------------------------------
(* The loops of find, insert and evict                                     *)

\* One iteration of any of them.
TrieStep(kind, w) ==
    IF kind = "find" THEN FindStep(w)
    ELSE IF kind = "insert" THEN InsertStep(w)
    ELSE EvictStep(w)

\* The states of such a loop after each of its n iterations.
LoopRun(kind, start, n, f) ==
    f = [i \in 0..n |-> IF i = 0 THEN start ELSE TrieStep(kind, f[i - 1])]

\* They exist.
LEMMA LoopRuns ==
    ASSUME NEW kind, NEW start, NEW n \in Nat
    PROVE  \E f : LoopRun(kind, start, n, f)
<1> DEFINE Step(g, i) == IF i = 0 THEN start ELSE TrieStep(kind, g[i - 1])
           Run(m, g) == g = [i \in 0..m |-> Step(g, i)]
           M == {m \in 0..n : \E g : Run(m, g)}
<1>1. 0 \in M
  <2> DEFINE g == [i \in 0..0 |-> start]
  <2>1. Run(0, g)
    BY SMT
  <2>2. \E f : Run(0, f)
    BY <2>1, Zenon
  <2>3. 0 \in 0..n
    OBVIOUS
  <2> QED BY <2>2, <2>3, Zenon
<1>2. ASSUME NEW m \in 1..n, m - 1 \in M PROVE m \in M
  <2>1. PICK g : Run(m - 1, g)
    BY <1>2
  <2> DEFINE k == [i \in 0..m |-> IF i = m THEN Step(g, m) ELSE g[i]]
  <2>2. ASSUME NEW i \in 0..m PROVE k[i] = Step(k, i)
    <3>1. CASE i = 0
      <4>1. g[0] = start
        BY <2>1
      <4> QED BY <3>1, <4>1
    <3>2. CASE i # 0
      <4>1. k[i - 1] = g[i - 1]
        BY <3>2
      <4>2. CASE i = m
        BY <3>2, <4>1, <4>2
      <4>3. CASE i # m
        <5>1. i \in 0..(m - 1) /\ k[i] = g[i]
          BY <4>3
        <5>2. g[i] = Step(g, i)
          BY <2>1, <5>1
        <5> QED BY <3>2, <4>1, <5>1, <5>2
      <4> QED BY <4>2, <4>3
    <3> QED BY <3>1, <3>2
  <2>3. Run(m, k)
    BY <2>2
  <2>4. \E f : Run(m, f)
    BY <2>3, Zenon
  <2>5. m \in 0..n
    OBVIOUS
  <2> QED BY <2>4, <2>5, Zenon
<1>3. 0..n \subseteq M
  <2> HIDE DEF M
  <2>1. \A m \in 1..n : m - 1 \in M => m \in M
    BY <1>2
  <2> QED BY <1>1, <2>1, IntervalInduction
<1>4. n \in M
  BY <1>3
<1> QED BY <1>4 DEF LoopRun

\* What holds at the start and after an iteration if before it, here the set of
\* such states, holds at the end.
LEMMA LoopKeeps ==
    ASSUME NEW kind, NEW start, NEW n \in Nat, NEW f, NEW S,
           LoopRun(kind, start, n, f),
           start \in S,
           \A i \in 1..n : f[i - 1] \in S => TrieStep(kind, f[i - 1]) \in S
    PROVE  \A i \in 0..n : f[i] \in S
<1> DEFINE M == {i \in 0..n : f[i] \in S}
<1>1. 0 \in M
  <2>1. 0 \in 0..n
    OBVIOUS
  <2>2. f[0] = start
    BY <2>1 DEF LoopRun
  <2> QED BY <2>1, <2>2
<1>2. ASSUME NEW i \in 1..n, i - 1 \in M PROVE i \in M
  <2>1. i \in 0..n /\ i # 0
    OBVIOUS
  <2>2. f[i] = TrieStep(kind, f[i - 1])
    BY <2>1 DEF LoopRun
  <2> QED BY <1>2, <2>1, <2>2
<1>3. 0..n \subseteq M
  <2> HIDE DEF M
  <2>1. \A i \in 1..n : i - 1 \in M => i \in M
    BY <1>2
  <2> QED BY <1>1, <2>1, IntervalInduction
<1> QED BY <1>3

\* The last of them is what evict returns.
LEMMA EvictDef ==
    ASSUME NEW T, NEW k, Cardinality(DOMAIN T.nodes) \in Nat
    PROVE  LET start == [trie |-> T, n |-> k, evicted |-> <<>>, done |-> FALSE]
           IN  \E f : /\ LoopRun("evict", start, Cardinality(DOMAIN T.nodes), f)
                      /\ Evict(T, k) = f[Cardinality(DOMAIN T.nodes)]
<1> DEFINE n == Cardinality(DOMAIN T.nodes)
           start == [trie |-> T, n |-> k, evicted |-> <<>>, done |-> FALSE]
           Run(f) == f = [i \in 0..n |-> IF i = 0 THEN start ELSE EvictStep(f[i - 1])]
           f == CHOOSE f : Run(f)
<1>1. \A w : TrieStep("evict", w) = EvictStep(w)
  BY DEF TrieStep
<1>2. \E g : LoopRun("evict", start, n, g)
  <2>1. n \in Nat
    OBVIOUS
  <2> HIDE DEF n, start
  <2> QED BY <2>1, LoopRuns, Zenon
<1>3. \E g : Run(g)
  BY <1>1, <1>2 DEF LoopRun
<1>4. Evict(T, k) = f[n]
  BY DEF Evict
<1>5. Run(f)
  BY <1>3, Zenon
<1> HIDE DEF f
<1>6. LoopRun("evict", start, n, f)
  BY <1>1, <1>5 DEF LoopRun
<1> QED BY <1>4, <1>6, Zenon

\* The same for find.
LEMMA FindDef ==
    ASSUME NEW T, NEW key, NEW partial, Len(key) + 1 \in Nat
    PROVE  LET start == [trie |-> [T EXCEPT !.time = @ + 1], node |-> Root, key |-> key,
                     partial |-> partial, blocks |-> <<>>, strayed |-> FALSE,
                     done |-> FALSE]
           IN  \E f : /\ LoopRun("find", start, Len(key) + 1, f)
                      /\ Find(T, key, partial) = f[Len(key) + 1]
<1> DEFINE n == Len(key) + 1
           start == [trie |-> [T EXCEPT !.time = @ + 1], node |-> Root, key |-> key,
                     partial |-> partial, blocks |-> <<>>, strayed |-> FALSE,
                     done |-> FALSE]
           Run(f) == f = [i \in 0..n |-> IF i = 0 THEN start ELSE FindStep(f[i - 1])]
           f == CHOOSE f : Run(f)
<1>1. \A w : TrieStep("find", w) = FindStep(w)
  BY DEF TrieStep
<1>2. \E g : LoopRun("find", start, n, g)
  <2>1. n \in Nat
    OBVIOUS
  <2> HIDE DEF n, start
  <2> QED BY <2>1, LoopRuns, Zenon
<1>3. \E g : Run(g)
  BY <1>1, <1>2 DEF LoopRun
<1>4. Find(T, key, partial) = f[n]
  BY DEF Find
<1>5. Run(f)
  BY <1>3, Zenon
<1> HIDE DEF f
<1>6. LoopRun("find", start, n, f)
  BY <1>1, <1>5 DEF LoopRun
<1> QED BY <1>4, <1>6, Zenon

\* The same for insert.
LEMMA InsertDef ==
    ASSUME NEW T, NEW key, NEW blocks, Len(key) + 1 \in Nat
    PROVE  LET start == [trie |-> [T EXCEPT !.time = @ + 1], node |-> Root, key |-> key,
                     blocks |-> blocks, common |-> 0, done |-> FALSE]
           IN  \E f : /\ LoopRun("insert", start, Len(key) + 1, f)
                      /\ Insert(T, key, blocks) = f[Len(key) + 1]
<1> DEFINE n == Len(key) + 1
           start == [trie |-> [T EXCEPT !.time = @ + 1], node |-> Root, key |-> key,
                     blocks |-> blocks, common |-> 0, done |-> FALSE]
           Run(f) == f = [i \in 0..n |-> IF i = 0 THEN start ELSE InsertStep(f[i - 1])]
           f == CHOOSE f : Run(f)
<1>1. \A w : TrieStep("insert", w) = InsertStep(w)
  BY DEF TrieStep
<1>2. \E g : LoopRun("insert", start, n, g)
  <2>1. n \in Nat
    OBVIOUS
  <2> HIDE DEF n, start
  <2> QED BY <2>1, LoopRuns, Zenon
<1>3. \E g : Run(g)
  BY <1>1, <1>2 DEF LoopRun
<1>4. Insert(T, key, blocks) = f[n]
  BY DEF Insert
<1>5. Run(f)
  BY <1>3, Zenon
<1> HIDE DEF f
<1>6. LoopRun("insert", start, n, f)
  BY <1>1, <1>5 DEF LoopRun
<1> QED BY <1>4, <1>6, Zenon

\* There are finitely many nodes.
LEMMA NodesFinite ==
    ASSUME NEW T, NEW C, NEW B, StoreOK(T, C, B)
    PROVE  IsFiniteSet(DOMAIN T.nodes) /\ Cardinality(DOMAIN T.nodes) \in Nat
<1>1. T.next_id \in Nat /\ \A i \in DOMAIN T.nodes : i \in Nat /\ i < T.next_id
  BY DEF StoreOK
<1>2. DOMAIN T.nodes \in SUBSET Nat /\ \A i \in DOMAIN T.nodes : i <= T.next_id
  BY <1>1
<1>3. IsFiniteSet(DOMAIN T.nodes)
  BY <1>1, <1>2, FS_BoundedSetOfNaturals
<1> QED BY <1>3, FS_CardinalityType

\* evict leaves a well-formed trie, whatever it is asked for.
LEMMA EvictKeeps ==
    ASSUME NEW T, NEW ext, NEW C, NEW B, TrieOK(T, ext, C, B), NEW k \in Nat
    PROVE  LET e == Evict(T, k)
           IN  /\ TrieOK(e.trie, ext, C, B) /\ e.evicted \in Seq(B) /\ Evicted(T, e.trie)
               /\ Freed(T, e.trie, ext, e.evicted)
<1> DEFINE n == Cardinality(DOMAIN T.nodes)
           start == [trie |-> T, n |-> k, evicted |-> <<>>, done |-> FALSE]
           e == Evict(T, k)
<1>1. StoreOK(T, C, B)
  BY DEF TrieOK
<1>2. n \in Nat
  BY <1>1, NodesFinite
<1>3. PICK f : LoopRun("evict", start, n, f) /\ e = f[n]
  BY <1>2, EvictDef, Zenon
<1>4. EvictOK(start, T, ext, C, B)
  <2>1. \A i \in DOMAIN T.nodes : T.nodes[i].last_accessed \in Nat
    BY <1>1, NodeIs
  <2>2. Evicted(T, T)
    BY <2>1, Zenon DEF Evicted, NonRoot
  <2>3. <<>> \in Seq(B)
    OBVIOUS
  <2>4. /\ {"trie", "n", "evicted", "done"} \subseteq DOMAIN start /\ start.trie = T
        /\ start.n = k /\ start.evicted = <<>>
    BY Zenon
  <2> HIDE DEF start
  <2>5. Freed(T, T, ext, <<>>)
    BY FreedNothing
  <2> QED BY <1>1, <2>2, <2>3, <2>4, <2>5, Zenon DEF EvictOK
<1> DEFINE S == {x \in {f[i] : i \in 0..n} : EvictOK(x, T, ext, C, B)}
<1> HIDE DEF n, start, e
<1>5. f[0] = start
  BY <1>2, <1>3 DEF LoopRun
<1>6. start \in S
  <2>1. 0 \in 0..n
    BY <1>2
  <2> QED BY <1>4, <1>5, <2>1
<1>7. ASSUME NEW i \in 1..n, f[i - 1] \in S PROVE TrieStep("evict", f[i - 1]) \in S
  <2>1. i \in 0..n /\ i # 0
    BY <1>2
  <2>2. f[i] = TrieStep("evict", f[i - 1])
    BY <1>3, <2>1 DEF LoopRun
  <2>3. EvictOK(EvictStep(f[i - 1]), T, ext, C, B)
    BY <1>7, EvictStepOK
  <2>4. TrieStep("evict", f[i - 1]) = EvictStep(f[i - 1])
    BY DEF TrieStep
  <2> QED BY <2>1, <2>2, <2>3, <2>4
<1> HIDE DEF S
<1>8. \A i \in 0..n : f[i] \in S
  BY <1>2, <1>3, <1>6, <1>7, LoopKeeps
<1>9. EvictOK(e, T, ext, C, B)
  BY <1>2, <1>3, <1>8 DEF S
<1> QED BY <1>9, Zenon DEF EvictOK, e
-----------------------------------------------------------------------------
(* find                                                                    *)

\* What two keys share is the same in both, at least the block they begin with and
\* no more than each has.
LEMMA SharedIs ==
    ASSUME NEW C, NEW l \in Seq(C), NEW r \in Seq(C), l # <<>>, r # <<>>, Head(l) = Head(r)
    PROVE  /\ SharedPrefix(l, r) \in 1..Len(l) /\ SharedPrefix(l, r) \in 1..Len(r)
           /\ SameTo(SharedPrefix(l, r), l, r)
<1> DEFINE P == CommonPrefixes({l, r})
           Longest(q) == \A o \in P : Len(o) <= Len(q)
           L == {Len(l) - Len(q) : q \in P}
           first == SubSeq(l, 1, 1)
<1>1. Len(l) \in Nat \ {0} /\ Len(r) \in Nat \ {0} /\ l[1] = r[1]
  OBVIOUS
<1>2. ASSUME NEW q \in P PROVE Len(q) \in Nat /\ Len(q) <= Len(l) /\ Len(q) <= Len(r)
  <2>1. PICK s \in {l, r} : q \in Prefixes(s)
    BY DEF CommonPrefixes
  <2>2. PICK k \in 0..Len(s) : q = SubSeq(s, 1, k)
    BY <2>1 DEF Prefixes
  <2>3. Len(q) = k
    BY <1>1, <2>2
  <2>4. IsPrefix(q, l) /\ IsPrefix(q, r)
    BY DEF CommonPrefixes
  <2> QED BY <2>2, <2>3, <2>4 DEF IsPrefix
<1>3. first \in P /\ Len(first) = 1
  <2>1. Len(first) = 1 /\ first = SubSeq(r, 1, 1) /\ SubSeq(first, 1, 1) = first
    BY <1>1
  <2>2. first \in Prefixes(l)
    BY <1>1 DEF Prefixes
  <2>3. IsPrefix(first, l) /\ IsPrefix(first, r)
    BY <1>1, <2>1 DEF IsPrefix
  <2> QED BY <2>1, <2>2, <2>3 DEF CommonPrefixes
<1>4. PICK m \in L : \A k \in L : m <= k
  <2>1. L \subseteq Nat
    <3>1. \A q \in P : Len(l) - Len(q) \in Nat
      BY <1>1, <1>2
    <3> HIDE DEF P
    <3> QED BY <3>1
  <2>2. Len(l) - Len(first) \in L
    BY <1>3, Zenon
  <2> HIDE DEF L
  <2> QED BY <2>1, <2>2, LeastNumber
<1>5. \E q \in P : Longest(q)
  <2>1. PICK q \in P : m = Len(l) - Len(q)
    BY <1>4
  <2>2. ASSUME NEW o \in P PROVE Len(o) <= Len(q)
    <3>1. Len(l) - Len(q) <= Len(l) - Len(o)
      BY <1>4, <2>1
    <3> QED BY <1>1, <1>2, <3>1
  <2> QED BY <2>2
<1>6. LongestCommonPrefix({l, r}) = CHOOSE q \in P : Longest(q)
  BY DEF LongestCommonPrefix
<1> DEFINE x == CHOOSE q \in P : Longest(q)
<1>7. x \in P /\ Longest(x)
  <2> HIDE DEF Longest, P
  <2> QED BY <1>5, Zenon
<1>8. Len(first) <= Len(x)
  BY <1>3, <1>7
<1>9. IsPrefix(x, l) /\ IsPrefix(x, r)
  <2> HIDE DEF x
  <2> QED BY <1>7 DEF CommonPrefixes
<1> HIDE DEF x, P
<1>10. Len(x) \in 1..Len(l) /\ Len(x) \in 1..Len(r)
  BY <1>1, <1>2, <1>3, <1>7, <1>8
<1>11. SameTo(Len(x), l, r)
  <2> DEFINE n == Len(x)
  <2>1. n \in 0..Len(l) /\ n \in 0..Len(r)
    BY <1>10
  <2>2. Take(l, n) = Take(r, n)
    BY <1>9 DEF IsPrefix, Take
  <2> HIDE DEF n
  <2>3. \A i \in 1..n : Take(l, n)[i] = l[i] /\ Take(r, n)[i] = r[i]
    BY ONLY <2>1, l \in Seq(C), r \in Seq(C), CutElements
  <2>4. n <= Len(l) /\ n <= Len(r)
    BY <1>1, <2>1
  <2> QED BY <2>2, <2>3, <2>4 DEF SameTo, n
<1> QED BY <1>6, <1>10, <1>11 DEF SharedPrefix, x

\* U is T after some accesses, at the time of T.
Touched(T, U) ==
    /\ U.next_id = T.next_id /\ U.time = T.time
    /\ DOMAIN U.nodes = DOMAIN T.nodes
    /\ \A i \in DOMAIN T.nodes :
         /\ U.nodes[i].blocks = T.nodes[i].blocks
         /\ U.nodes[i].key = T.nodes[i].key /\ U.nodes[i].parent = T.nodes[i].parent
         /\ U.nodes[i].ref_count = T.nodes[i].ref_count
         /\ U.nodes[i].last_accessed \in {T.nodes[i].last_accessed, T.time}

\* find before and after a call of find_, for a key of size chunks: the node that
\* will be held is the root or was just accessed.
FindOK(w, S, ext, size, C, B) ==
    /\ {"trie", "node", "key", "partial", "blocks", "strayed", "done"} \subseteq DOMAIN w
    /\ TrieOK(w.trie, ext, C, B)
    /\ w.node \in DOMAIN w.trie.nodes
    /\ w.node # Root => w.trie.nodes[w.node].last_accessed = w.trie.time
    /\ w.key \in Seq(C) /\ w.blocks \in Seq(B)
    /\ Len(w.blocks) + Len(w.key) = size
    /\ Touched(S, w.trie)

\* The child that a key leads to shares at least its first chunk.
LEMMA ChildIs ==
    ASSUME NEW T, NEW ext, NEW C, NEW B, TrieOK(T, ext, C, B), NEW p \in DOMAIN T.nodes,
           NEW key \in Seq(C), key # <<>>, Head(key) \in DOMAIN T.nodes[p].children
    PROVE  LET id == T.nodes[p].children[Head(key)]
               shared == SharedPrefix(T.nodes[id].key, key)
           IN  /\ id \in NonRoot(T) /\ id \in DOMAIN T.nodes
               /\ T.nodes[id].blocks \in Seq(B)
               /\ Len(T.nodes[id].blocks) = Len(T.nodes[id].key)
               /\ shared \in 1..Len(T.nodes[id].key) /\ shared \in 1..Len(key)
               /\ SameTo(shared, T.nodes[id].key, key)
               /\ T.nodes[id].parent = p
<1> DEFINE id == T.nodes[p].children[Head(key)]
           n == T.nodes[id]
<1>1. StoreOK(T, C, B) /\ LinksOK(T)
  BY DEF TrieOK
<1>2. id \in NonRoot(T) /\ Head(n.key) = Head(key) /\ n.parent = p
  BY <1>1, Zenon DEF LinksOK
<1>3. n.key # <<>>
  BY <1>1, <1>2, Zenon DEF LinksOK
<1>4. id \in DOMAIN T.nodes
  BY <1>2 DEF NonRoot
<1>5. n.key \in Seq(C) /\ n.blocks \in Seq(B) /\ Len(n.blocks) = Len(n.key)
  BY <1>1, <1>4, NodeIs
<1> HIDE DEF id
<1>6. /\ SharedPrefix(n.key, key) \in 1..Len(n.key) /\ SharedPrefix(n.key, key) \in 1..Len(key)
      /\ SameTo(SharedPrefix(n.key, key), n.key, key)
  BY <1>2, <1>3, <1>5, SharedIs
<1> QED BY <1>2, <1>4, <1>5, <1>6 DEF id

\* One call of find_ keeps that.
LEMMA FindStepOK ==
    ASSUME NEW w, NEW S, NEW ext, NEW size, NEW C, NEW B, FindOK(w, S, ext, size, C, B)
    PROVE  FindOK(FindStep(w), S, ext, size, C, B)
<1> DEFINE T == w.trie
           x == FindStep(w)
           p == w.node
           k == w.key
           c == Head(k)
           Fields == {"trie", "node", "key", "partial", "blocks", "strayed", "done"}
<1>1. /\ Fields \subseteq DOMAIN w /\ TrieOK(T, ext, C, B) /\ w.node \in DOMAIN T.nodes
      /\ w.node # Root => T.nodes[w.node].last_accessed = T.time
      /\ w.key \in Seq(C) /\ w.blocks \in Seq(B) /\ Len(w.blocks) + Len(w.key) = size
      /\ Touched(S, T)
  BY DEF FindOK
<1>2. CASE w.done \/ w.key = <<>> \/ c \notin DOMAIN T.nodes[w.node].children
  <2>1. x = [w EXCEPT !.done = TRUE]
    BY <1>2, Zenon DEF FindStep
  <2>2. /\ Fields \subseteq DOMAIN x /\ x.trie = w.trie /\ x.node = w.node
        /\ x.key = w.key /\ x.blocks = w.blocks
    BY <1>1, <2>1, Zenon
  <2> HIDE DEF x
  <2> QED BY <1>1, <2>2, Zenon DEF FindOK, x
<1>3. CASE ~ (w.done \/ w.key = <<>> \/ c \notin DOMAIN T.nodes[w.node].children)
  <2> DEFINE id == T.nodes[p].children[c]
             n == T.nodes[id]
             shared == SharedPrefix(n.key, k)
             ends == Len(w.key) = shared /\ ~ w.partial
             U == UpdateAccessTime(T, id)
             more == w.blocks \o Take(n.blocks, shared)
             next == IF ends THEN w.node ELSE id
             strays == w.strayed \/ (/\ shared < Len(n.key) /\ shared < Len(k)
                                     /\ k[shared + 1] \in DOMAIN n.children)
             key == Skip(k, shared)
  <2>1. x = [w EXCEPT !.trie = U, !.blocks = more, !.key = key, !.node = next,
                      !.strayed = strays, !.done = ends]
    BY <1>3, Zenon DEF FindStep
  <2>2. /\ id \in NonRoot(T) /\ id \in DOMAIN T.nodes /\ n.blocks \in Seq(B)
        /\ Len(n.blocks) = Len(n.key)
        /\ shared \in 1..Len(n.key) /\ shared \in 1..Len(k)
    <3>1. /\ p \in DOMAIN T.nodes /\ k \in Seq(C) /\ k # <<>>
          /\ Head(k) \in DOMAIN T.nodes[p].children /\ TrieOK(T, ext, C, B)
      BY <1>1, <1>3
    <3> HIDE DEF T, p, k
    <3> QED BY ONLY <3>1, ChildIs
  <2> HIDE DEF id, shared, ends, strays
  <2>3. TrieOK(U, ext, C, B)
    BY <1>1, <2>2, TouchOK, Zenon
  <2>4. StoreOK(T, C, B) /\ TrieFields \subseteq DOMAIN T
    BY <1>1, Zenon DEF TrieOK, StoreOK
  <2>5. U.time = T.time /\ U.next_id = T.next_id
    BY <2>2, <2>4, TouchIs, NodeIs, Zenon
  <2>6. /\ DOMAIN U.nodes = DOMAIN T.nodes
        /\ \A i \in DOMAIN T.nodes :
             /\ U.nodes[i].blocks = T.nodes[i].blocks
             /\ U.nodes[i].key = T.nodes[i].key /\ U.nodes[i].parent = T.nodes[i].parent
             /\ U.nodes[i].ref_count = T.nodes[i].ref_count
             /\ U.nodes[i].last_accessed =
                  IF i = id THEN T.time ELSE T.nodes[i].last_accessed
    <3> HIDE DEF T
    <3> QED BY ONLY <2>2, <2>4, TouchNodes DEF Alike
  <2> HIDE DEF U
  <2>7. Touched(S, U)
    <3> HIDE DEF T
    <3> QED BY <1>1, <2>5, <2>6 DEF Touched
  <2>8. next \in DOMAIN U.nodes /\ (next # Root => U.nodes[next].last_accessed = U.time)
    <3> HIDE DEF T
    <3> QED BY <1>1, <2>2, <2>5, <2>6
  <2>9. key \in Seq(C) /\ more \in Seq(B) /\ Len(more) + Len(key) = size
    <3> DEFINE b == w.blocks
               part == Take(n.blocks, shared)
    <3>1. /\ k \in Seq(C) /\ b \in Seq(B) /\ Len(b) + Len(k) = size
          /\ Len(k) \in Nat /\ Len(n.key) \in Nat /\ Len(b) \in Nat
          /\ shared \in 0..Len(k) /\ shared \in 0..Len(n.blocks)
      BY <1>1, <2>2, LenProperties
    <3> HIDE DEF k, b
    <3>2. key \in Seq(C) /\ Len(key) = Len(k) - shared
      BY <3>1, CutList
    <3>3. part \in Seq(B) /\ Len(part) = shared
      BY <2>2, <3>1, CutList
    <3> HIDE DEF part
    <3>4. b \o part \in Seq(B) /\ Len(b \o part) = Len(b) + shared
      BY <3>1, <3>3, ConcatProperties
    <3>5. more = b \o part
      BY DEF b, part
    <3>6. more \in Seq(B) /\ Len(more) = Len(b) + shared
      BY <3>4, <3>5
    <3> HIDE DEF key, more
    <3> QED BY ONLY <3>1, <3>2, <3>6
  <2> HIDE DEF key, more, next, x
  <2>10. /\ Fields \subseteq DOMAIN x /\ x.trie = U /\ x.node = next
         /\ x.key = key /\ x.blocks = more
    BY <1>1, <2>1, Zenon
  <2> QED BY <2>3, <2>7, <2>8, <2>9, <2>10, Zenon DEF FindOK, x
<1> QED BY <1>2, <1>3

\* The clock of the trie, as find and insert advance it.
Tick(T) == [T EXCEPT !.time = @ + 1]

\* A trie is well formed at any later time.
LEMMA TickOK ==
    ASSUME NEW T, NEW ext, NEW C, NEW B, TrieOK(T, ext, C, B)
    PROVE  /\ TrieOK(Tick(T), ext, C, B)
           /\ Tick(T).nodes = T.nodes /\ Tick(T).time = T.time + 1
           /\ Tick(T).next_id = T.next_id
<1> DEFINE S == Tick(T)
<1>1. StoreOK(T, C, B) /\ LinksOK(T) /\ CountsOK(T, ext) /\ T.leaves = LeavesOf(T.nodes)
  BY DEF TrieOK
<1>2. TrieFields \subseteq DOMAIN T
  BY <1>1 DEF StoreOK
<1>3. /\ TrieFields \subseteq DOMAIN S /\ S.nodes = T.nodes /\ S.leaves = T.leaves
      /\ S.time = T.time + 1 /\ S.next_id = T.next_id /\ S.panicked = T.panicked
  BY <1>2, Zenon DEF Tick, TrieFields
<1> HIDE DEF S
<1>4. StoreOK(S, C, B)
  <2>1. T.time \in Nat /\ \A i \in DOMAIN T.nodes : T.nodes[i].last_accessed \in Nat
    BY <1>1, NodeIs DEF StoreOK
  <2>2. S.time \in Nat
        /\ \A i \in DOMAIN T.nodes : T.nodes[i].last_accessed <= T.time =>
             T.nodes[i].last_accessed <= S.time
    BY <1>3, <2>1
  <2> QED BY <1>1, <1>3, <2>2, Zenon DEF StoreOK
<1>5. LinksOK(S)
  <2>1. \A i \in DOMAIN T.nodes : Alike(T.nodes[i], S.nodes[i])
    BY <1>1, <1>3, NodeIs DEF Alike
  <2> QED BY <1>1, <1>3, <2>1, AlikeLinks
<1>6. CountsOK(S, ext)
  BY <1>1, <1>3, Zenon DEF CountsOK, NonRoot
<1>7. TrieOK(S, ext, C, B)
  BY <1>1, <1>3, <1>4, <1>5, <1>6, Zenon DEF TrieOK
<1> QED BY <1>3, <1>7 DEF S

\* find leaves a well-formed trie: only access times change.
LEMMA FindKeeps ==
    ASSUME NEW T, NEW ext, NEW C, NEW B, TrieOK(T, ext, C, B), NEW key \in Seq(C), NEW partial
    PROVE  FindOK(Find(T, key, partial), Tick(T), ext, Len(key), C, B)
<1> DEFINE n == Len(key) + 1
           size == Len(key)
           U == Tick(T)
           start == [trie |-> U, node |-> Root, key |-> key,
                     partial |-> partial, blocks |-> <<>>, strayed |-> FALSE,
                     done |-> FALSE]
           e == Find(T, key, partial)
<1>1. n \in Nat /\ size \in Nat
  BY LenProperties
<1>2. PICK f : LoopRun("find", start, n, f) /\ e = f[n]
  BY <1>1, FindDef, Zenon DEF Tick
<1>3. FindOK(start, U, ext, size, C, B)
  <2>1. TrieOK(U, ext, C, B)
    BY TickOK
  <2> HIDE DEF U
  <2>2. Root \in DOMAIN U.nodes
    BY <2>1 DEF TrieOK, StoreOK
  <2>3. Touched(U, U)
    BY Zenon DEF Touched
  <2>4. <<>> \in Seq(B) /\ Len(<<>>) + Len(key) = size
    BY <1>1
  <2>5. /\ {"trie", "node", "key", "partial", "blocks", "strayed", "done"} \subseteq DOMAIN start
        /\ start.trie = U /\ start.node = Root /\ start.key = key /\ start.blocks = <<>>
    BY Zenon
  <2> HIDE DEF start, size
  <2> QED BY <2>1, <2>2, <2>3, <2>4, <2>5, Zenon DEF FindOK
<1> DEFINE S == {x \in {f[i] : i \in 0..n} : FindOK(x, U, ext, size, C, B)}
<1> HIDE DEF n, start, e, U, size
<1>4. f[0] = start
  BY <1>1, <1>2 DEF LoopRun
<1>5. start \in S
  <2>1. 0 \in 0..n
    BY <1>1
  <2> QED BY <1>3, <1>4, <2>1
<1>6. ASSUME NEW i \in 1..n, f[i - 1] \in S PROVE TrieStep("find", f[i - 1]) \in S
  <2>1. i \in 0..n /\ i # 0
    BY <1>1
  <2>2. f[i] = TrieStep("find", f[i - 1])
    BY <1>2, <2>1 DEF LoopRun
  <2>3. FindOK(FindStep(f[i - 1]), U, ext, size, C, B)
    BY <1>6, FindStepOK
  <2>4. TrieStep("find", f[i - 1]) = FindStep(f[i - 1])
    BY DEF TrieStep
  <2> QED BY <2>1, <2>2, <2>3, <2>4
<1> HIDE DEF S
<1>7. \A i \in 0..n : f[i] \in S
  BY <1>1, <1>2, <1>5, <1>6, LoopKeeps
<1>8. FindOK(e, U, ext, size, C, B)
  BY <1>1, <1>2, <1>7 DEF S
<1> QED BY <1>8, Zenon DEF e, U, size
-----------------------------------------------------------------------------
(* insert                                                                  *)

\* U is T after insertions: no node is gone, and without a new one no node was cut.
Extended(T, U) ==
    /\ U.next_id \in Nat /\ T.next_id <= U.next_id
    /\ DOMAIN T.nodes \subseteq DOMAIN U.nodes
    /\ U.next_id = T.next_id => \A i \in DOMAIN T.nodes : U.nodes[i].blocks = T.nodes[i].blocks

\* insert before and after a call of insert_, for a key of size chunks.
InsertOK(w, S, ext, size, C, B) ==
    /\ {"trie", "node", "key", "blocks", "common", "done"} \subseteq DOMAIN w
    /\ TrieOK(w.trie, ext, C, B)
    /\ w.node \in DOMAIN w.trie.nodes
    /\ w.key \in Seq(C) /\ w.blocks \in Seq(B) /\ Len(w.key) = Len(w.blocks)
    /\ w.key = <<>> => w.done
    /\ w.common \in Nat /\ w.common + Len(w.key) = size
    /\ Extended(S, w.trie)

\* One call of insert_ keeps that.
LEMMA InsertStepOK ==
    ASSUME NEW w, NEW S, NEW ext, NEW size, NEW C, NEW B, S.next_id \in Nat,
           InsertOK(w, S, ext, size, C, B)
    PROVE  InsertOK(InsertStep(w), S, ext, size, C, B)
<1> DEFINE T == w.trie
           x == InsertStep(w)
           p == w.node
           k == w.key
           b == w.blocks
           c == Head(k)
           Fields == {"trie", "node", "key", "blocks", "common", "done"}
<1>1. /\ Fields \subseteq DOMAIN w /\ TrieOK(T, ext, C, B) /\ p \in DOMAIN T.nodes
      /\ k \in Seq(C) /\ b \in Seq(B) /\ Len(k) = Len(b) /\ (k = <<>> => w.done)
      /\ w.common \in Nat /\ w.common + Len(k) = size
      /\ Extended(S, T)
  BY DEF InsertOK
<1>2. StoreOK(T, C, B) /\ TrieFields \subseteq DOMAIN T /\ T.next_id \in Nat
      /\ T.next_id \notin DOMAIN T.nodes
  <2>1. StoreOK(T, C, B)
    BY <1>1, Zenon DEF TrieOK
  <2> HIDE DEF T
  <2> QED BY <2>1 DEF StoreOK
<1>3. CASE w.done
  <2>1. x = w
    BY <1>3, Zenon DEF InsertStep
  <2> HIDE DEF x
  <2> QED BY <2>1, Zenon DEF x
<1>4. CASE ~ w.done /\ c \notin DOMAIN T.nodes[p].children
  <2> DEFINE U == AddNode(T, p, k, b)
  <2>1. x = [w EXCEPT !.trie = U, !.done = TRUE]
    BY <1>4, Zenon DEF InsertStep
  <2>2. TrieOK(U, ext, C, B) /\ Added(T, U, p, k, b)
    <3>1. k # <<>> /\ NodeFields \subseteq DOMAIN T.nodes[p]
      BY <1>1, <1>2, <1>4, NodeIs
    <3> HIDE DEF T, p, k, b
    <3>2. TrieOK(U, ext, C, B)
      BY <1>1, <1>4, <3>1, AddOK
    <3>3. Added(T, U, p, k, b)
      BY <1>1, <1>2, <3>1, AddIs
    <3> QED BY <3>2, <3>3
  <2> HIDE DEF U
  <2>3. U.next_id = T.next_id + 1 /\ DOMAIN T.nodes \subseteq DOMAIN U.nodes
    BY <2>2, Zenon DEF Added
  <2>4. Extended(S, U) /\ p \in DOMAIN U.nodes
    <3> HIDE DEF T
    <3> QED BY <1>1, <1>2, <2>3 DEF Extended
  <2> HIDE DEF x
  <2>5. /\ Fields \subseteq DOMAIN x /\ x.trie = U /\ x.node = w.node
        /\ x.key = w.key /\ x.blocks = w.blocks /\ x.common = w.common /\ x.done
    BY <1>1, <2>1, Zenon DEF x
  <2> QED BY <1>1, <2>2, <2>4, <2>5, Zenon DEF InsertOK, x
<1>5. CASE ~ w.done /\ c \in DOMAIN T.nodes[p].children
  <2> DEFINE id == T.nodes[p].children[c]
             n == T.nodes[id]
             shared == SharedPrefix(n.key, k)
             V == UpdateAccessTime(T, id)
             split == shared < Len(k) /\ shared < Len(n.key)
             U == IF split THEN SplitNode(V, id, shared) ELSE V
             next == IF split THEN T.next_id ELSE id
             key == Skip(k, shared)
             rest == Skip(b, shared)
             common == w.common + shared
             done == shared = Len(k)
  <2>1. x = [w EXCEPT !.trie = U, !.node = next, !.key = key, !.blocks = rest,
                      !.common = common, !.done = done]
    BY <1>5, Zenon DEF InsertStep
  <2>2. /\ id \in NonRoot(T) /\ id \in DOMAIN T.nodes /\ n.blocks \in Seq(B)
        /\ Len(n.blocks) = Len(n.key)
        /\ shared \in 1..Len(n.key) /\ shared \in 1..Len(k)
    <3>1. /\ p \in DOMAIN T.nodes /\ k \in Seq(C) /\ k # <<>>
          /\ Head(k) \in DOMAIN T.nodes[p].children /\ TrieOK(T, ext, C, B)
      BY <1>1, <1>5
    <3> HIDE DEF T, p, k
    <3> QED BY ONLY <3>1, ChildIs
  <2> HIDE DEF id, shared
  <2>3. TrieOK(V, ext, C, B)
    BY <1>1, <2>2, TouchOK, Zenon
  <2>4. V.next_id = T.next_id
    BY <1>2, <2>2, TouchIs, NodeIs, Zenon
  <2>5. /\ DOMAIN V.nodes = DOMAIN T.nodes
        /\ \A i \in DOMAIN T.nodes : /\ V.nodes[i].blocks = T.nodes[i].blocks
                                     /\ V.nodes[i].key = T.nodes[i].key
    <3> HIDE DEF T
    <3> QED BY ONLY <1>2, <2>2, TouchNodes DEF Alike
  <2>6. Extended(S, V)
    <3> HIDE DEF T, V
    <3> QED BY <1>1, <2>4, <2>5 DEF Extended
  <2>7. TrieOK(U, ext, C, B) /\ next \in DOMAIN U.nodes /\ Extended(S, U)
    <3>1. CASE split
      <4>1. id \in NonRoot(V) /\ shared \in 1..(Len(V.nodes[id].key) - 1)
        <5>1. Len(V.nodes[id].key) = Len(n.key) /\ id \in NonRoot(V)
          BY <2>2, <2>5 DEF NonRoot
        <5> HIDE DEF V, n
        <5> QED BY <2>2, <3>1, <5>1
      <4>2. U = SplitNode(V, id, shared)
        BY <3>1
      <4> HIDE DEF U, V
      <4>3. TrieOK(U, ext, C, B) /\ Split(V, U, id, shared)
        BY <2>3, <4>1, <4>2, SplitOK, SplitIs
      <4>4. U.next_id = V.next_id + 1 /\ DOMAIN U.nodes = DOMAIN V.nodes \cup {V.next_id}
        BY <4>3, Zenon DEF Split
      <4>5. next = V.next_id
        BY <2>4, <3>1
      <4>6. Extended(S, U)
        BY <1>2, <2>4, <2>6, <4>4 DEF Extended
      <4> HIDE DEF next
      <4> QED BY <4>3, <4>4, <4>5, <4>6
    <3>2. CASE ~ split
      <4>1. U = V /\ next = id
        BY <3>2
      <4> HIDE DEF U, next
      <4> QED BY <2>2, <2>3, <2>5, <2>6, <4>1
    <3> QED BY <3>1, <3>2
  <2> HIDE DEF U, next
  <2>8. /\ key \in Seq(C) /\ rest \in Seq(B) /\ Len(key) = Len(rest)
        /\ (key = <<>> => done) /\ common \in Nat /\ common + Len(key) = size
    <3>1. /\ Len(k) \in Nat /\ shared \in 0..Len(k) /\ shared \in 0..Len(b)
          /\ k \in Seq(C) /\ b \in Seq(B) /\ Len(k) = Len(b)
      BY <1>1, <2>2, LenProperties
    <3> HIDE DEF k, b
    <3>2. key \in Seq(C) /\ Len(key) = Len(k) - shared
      BY <3>1, CutList
    <3>3. rest \in Seq(B) /\ Len(rest) = Len(b) - shared
      BY <3>1, CutList
    <3>4. w.common \in Nat /\ w.common + Len(k) = size
      BY <1>1
    <3>5. key = <<>> => Len(key) = 0
      OBVIOUS
    <3> DEFINE cm == w.common
    <3> HIDE DEF key, rest, cm
    <3>6. common = cm + shared /\ cm \in Nat /\ cm + Len(k) = size
      BY <3>4 DEF cm
    <3> HIDE DEF common
    <3> QED BY ONLY <3>1, <3>2, <3>3, <3>5, <3>6
  <2> HIDE DEF key, rest, common, done, x
  <2>9. /\ Fields \subseteq DOMAIN x /\ x.trie = U /\ x.node = next
        /\ x.key = key /\ x.blocks = rest /\ x.common = common /\ x.done = done
    BY <1>1, <2>1, Zenon
  <2> QED BY <2>7, <2>8, <2>9, Zenon DEF InsertOK, x
<1> QED BY <1>3, <1>4, <1>5

\* insert leaves a well-formed trie; common counts the chunks that were there.
LEMMA InsertKeeps ==
    ASSUME NEW T, NEW ext, NEW C, NEW B, TrieOK(T, ext, C, B),
           NEW key \in Seq(C), NEW blocks \in Seq(B), key # <<>>, Len(key) = Len(blocks)
    PROVE  InsertOK(Insert(T, key, blocks), Tick(T), ext, Len(key), C, B)
<1> DEFINE n == Len(key) + 1
           size == Len(key)
           U == Tick(T)
           start == [trie |-> U, node |-> Root, key |-> key,
                     blocks |-> blocks, common |-> 0, done |-> FALSE]
           e == Insert(T, key, blocks)
<1>1. n \in Nat /\ size \in Nat
  BY LenProperties
<1>2. PICK f : LoopRun("insert", start, n, f) /\ e = f[n]
  BY ONLY <1>1, InsertDef, Zenon DEF Tick, n, start, e, U
<1>3. TrieOK(U, ext, C, B) /\ U.next_id \in Nat
  BY TickOK DEF TrieOK, StoreOK
<1>4. InsertOK(start, U, ext, size, C, B)
  <2>1. TrieOK(U, ext, C, B)
    BY <1>3
  <2> HIDE DEF U
  <2>2. Root \in DOMAIN U.nodes
    BY <2>1 DEF TrieOK, StoreOK
  <2>3. Extended(U, U)
    BY <1>3 DEF Extended
  <2>4. 0 \in Nat /\ 0 + Len(key) = size
    BY <1>1
  <2>5. /\ {"trie", "node", "key", "blocks", "common", "done"} \subseteq DOMAIN start
        /\ start.trie = U /\ start.node = Root /\ start.key = key
        /\ start.blocks = blocks /\ start.common = 0
    BY Zenon
  <2> HIDE DEF start, size
  <2> QED BY <2>1, <2>2, <2>3, <2>4, <2>5, Zenon DEF InsertOK
<1> DEFINE S == {x \in {f[i] : i \in 0..n} : InsertOK(x, U, ext, size, C, B)}
<1> HIDE DEF n, start, e, U, size
<1>5. f[0] = start
  BY <1>1, <1>2 DEF LoopRun
<1>6. start \in S
  <2>1. 0 \in 0..n
    BY <1>1
  <2> QED BY <1>4, <1>5, <2>1
<1>7. ASSUME NEW i \in 1..n, f[i - 1] \in S PROVE TrieStep("insert", f[i - 1]) \in S
  <2>1. i \in 0..n /\ i # 0
    BY <1>1
  <2>2. f[i] = TrieStep("insert", f[i - 1])
    BY <1>2, <2>1 DEF LoopRun
  <2>3. InsertOK(InsertStep(f[i - 1]), U, ext, size, C, B)
    BY <1>3, <1>7, InsertStepOK
  <2>4. TrieStep("insert", f[i - 1]) = InsertStep(f[i - 1])
    BY DEF TrieStep
  <2> QED BY <2>1, <2>2, <2>3, <2>4
<1> HIDE DEF S
<1>8. \A i \in 0..n : f[i] \in S
  BY <1>1, <1>2, <1>6, <1>7, LoopKeeps
<1>9. InsertOK(e, U, ext, size, C, B)
  BY <1>1, <1>2, <1>8 DEF S
<1> QED BY <1>9, Zenon DEF e, U, size
-----------------------------------------------------------------------------
(* The allocations                                                         *)

\* Numbers of users are numbers, and a node that is used has one.
LEMMA UsersAre ==
    ASSUME NEW h, HolderOK(h)
    PROVE  /\ UsersIn(h) \in [Nat -> Nat]
           /\ \A r \in HoldingIn(h) : UsersIn(h)[h[r].prefix_node] > 0
<1> DEFINE U(id) == {r \in HoldingIn(h) : h[r].prefix_node = id}
<1>1. ASSUME NEW id \in Nat PROVE IsFiniteSet(U(id)) /\ Cardinality(U(id)) \in Nat
  <2>1. U(id) \in SUBSET HoldingIn(h)
    OBVIOUS
  <2> HIDE DEF U
  <2>2. IsFiniteSet(U(id))
    BY <2>1, FS_Subset DEF HolderOK
  <2> QED BY <2>2, FS_CardinalityType
<1>2. \A id \in Nat : UsersIn(h)[id] = Cardinality(U(id))
  BY DEF UsersIn
<1>3. UsersIn(h) \in [Nat -> Nat]
  <2> HIDE DEF U
  <2> QED BY <1>1 DEF UsersIn, U
<1>4. ASSUME NEW r \in HoldingIn(h) PROVE UsersIn(h)[h[r].prefix_node] > 0
  <2> DEFINE id == h[r].prefix_node
  <2>1. id \in Nat
    BY DEF HolderOK, HeldOK
  <2>2. r \in U(id)
    OBVIOUS
  <2> HIDE DEF U, id
  <2>3. Cardinality(U(id)) # 0
    BY <1>1, <2>1, <2>2, FS_EmptySet
  <2>4. UsersIn(h)[id] > 0
    BY <1>1, <1>2, <2>1, <2>3
  <2> QED BY <2>4 DEF id
<1> QED BY <1>3, <1>4

\* A new allocation is one more user of its node.
LEMMA UsersMore ==
    ASSUME NEW h, HolderOK(h), NEW r \in Requests, h[r] = NoAllocation,
           NEW a, HeldOK(a), NEW g, g = [h EXCEPT ![r] = a]
    PROVE  HolderOK(g) /\ UsersIn(g) = More(UsersIn(h), a.prefix_node)
<1>1. DOMAIN h = Requests /\ IsFiniteSet(HoldingIn(h)) /\ r \notin HoldingIn(h)
  BY DEF HolderOK, HoldingIn
<1>2. a # NoAllocation
  <2>1. "key" \in DOMAIN a
    BY DEF HeldOK, AllocFields
  <2>2. DOMAIN NoAllocation = {"blocks"}
    BY DEF NoAllocation
  <2> QED BY <2>1, <2>2
<1>3. DOMAIN g = Requests /\ g[r] = a /\ \A q \in Requests : q # r => g[q] = h[q]
  BY <1>1
<1>4. HoldingIn(g) = HoldingIn(h) \cup {r}
  BY <1>2, <1>3 DEF HoldingIn
<1>5. HolderOK(g)
  <2>1. IsFiniteSet(HoldingIn(g))
    BY <1>1, <1>4, FS_AddElement
  <2>2. \A q \in HoldingIn(g) : HeldOK(g[q])
    <3>1. HoldingIn(h) \subseteq Requests
      BY DEF HoldingIn
    <3> QED BY <1>1, <1>3, <1>4, <3>1 DEF HolderOK
  <2> QED BY <1>3, <2>1, <2>2 DEF HolderOK
<1> DEFINE U(k, id) == {q \in HoldingIn(k) : k[q].prefix_node = id}
           p == a.prefix_node
<1>6. /\ U(g, p) = U(h, p) \cup {r} /\ r \notin U(h, p)
      /\ \A id \in Nat : id # p => U(g, id) = U(h, id)
  <2>1. HoldingIn(h) \subseteq Requests
    BY DEF HoldingIn
  <2> QED BY <1>1, <1>3, <1>4, <2>1
<1>7. U(h, p) \in SUBSET HoldingIn(h)
  OBVIOUS
<1>8. /\ \A id \in Nat : UsersIn(h)[id] = Cardinality(U(h, id))
      /\ UsersIn(g) = [id \in Nat |-> Cardinality(U(g, id))]
  BY DEF UsersIn
<1>9. p \in Nat
  BY DEF HeldOK
<1> HIDE DEF U, p
<1>10. Cardinality(U(g, p)) = Cardinality(U(h, p)) + 1
  <2>1. IsFiniteSet(U(h, p))
    BY <1>1, <1>7, FS_Subset
  <2> QED BY <1>6, <2>1, FS_AddElement
<1>11. UsersIn(h) \in [Nat -> Nat]
  BY UsersAre
<1>12. UsersIn(g) = More(UsersIn(h), p)
  BY <1>6, <1>8, <1>9, <1>10, <1>11 DEF More
<1> QED BY <1>5, <1>12 DEF p

\* An allocation that is dropped is one less.
LEMMA UsersLess ==
    ASSUME NEW h, HolderOK(h), NEW r \in HoldingIn(h),
           NEW g, g = [h EXCEPT ![r] = NoAllocation]
    PROVE  HolderOK(g) /\ UsersIn(g) = Less(UsersIn(h), h[r].prefix_node)
<1>1. DOMAIN h = Requests /\ IsFiniteSet(HoldingIn(h)) /\ HeldOK(h[r])
      /\ HoldingIn(h) \subseteq Requests
  BY DEF HolderOK, HoldingIn
<1>2. /\ DOMAIN g = Requests /\ g[r] = NoAllocation
      /\ \A q \in Requests : q # r => g[q] = h[q]
  BY <1>1
<1>3. HoldingIn(g) = HoldingIn(h) \ {r}
  BY <1>1, <1>2 DEF HoldingIn
<1>4. HolderOK(g)
  <2>1. IsFiniteSet(HoldingIn(g))
    BY <1>1, <1>3, FS_RemoveElement
  <2>2. \A q \in HoldingIn(g) : HeldOK(g[q])
    BY <1>1, <1>2, <1>3 DEF HolderOK
  <2> QED BY <1>2, <2>1, <2>2 DEF HolderOK
<1> DEFINE U(k, id) == {q \in HoldingIn(k) : k[q].prefix_node = id}
           p == h[r].prefix_node
<1>5. /\ U(g, p) = U(h, p) \ {r} /\ r \in U(h, p)
      /\ \A id \in Nat : id # p => U(g, id) = U(h, id)
  BY <1>1, <1>2, <1>3
<1>6. U(h, p) \in SUBSET HoldingIn(h)
  OBVIOUS
<1>7. /\ \A id \in Nat : UsersIn(h)[id] = Cardinality(U(h, id))
      /\ UsersIn(g) = [id \in Nat |-> Cardinality(U(g, id))]
  BY DEF UsersIn
<1>8. p \in Nat
  BY <1>1 DEF HeldOK
<1> HIDE DEF U, p
<1>9. Cardinality(U(g, p)) = Cardinality(U(h, p)) - 1
  <2>1. IsFiniteSet(U(h, p))
    BY <1>1, <1>6, FS_Subset
  <2> QED BY <1>5, <2>1, FS_RemoveElement
<1>10. UsersIn(h) \in [Nat -> Nat]
  BY UsersAre
<1>11. UsersIn(g) = Less(UsersIn(h), p)
  BY <1>5, <1>7, <1>8, <1>9, <1>10 DEF Less
<1> QED BY <1>4, <1>11 DEF p

\* A prefill changes neither.
LEMMA UsersSame ==
    ASSUME NEW h, HolderOK(h), NEW r \in HoldingIn(h),
           NEW g, g = [h EXCEPT ![r].prefilled = TRUE]
    PROVE  HolderOK(g) /\ UsersIn(g) = UsersIn(h)
<1> DEFINE a == h[r]
           b == [a EXCEPT !.prefilled = TRUE]
<1>1. DOMAIN h = Requests /\ IsFiniteSet(HoldingIn(h)) /\ HeldOK(a)
      /\ HoldingIn(h) \subseteq Requests
  BY DEF HolderOK, HoldingIn
<1>2. g = [h EXCEPT ![r] = b]
  BY Zenon
<1>3. HeldOK(b) /\ b.prefix_node = a.prefix_node
  <2>1. AllocFields \subseteq DOMAIN a
    BY <1>1 DEF HeldOK
  <2> HIDE DEF a
  <2>2. /\ AllocFields \subseteq DOMAIN b /\ b.prefix_node = a.prefix_node
        /\ b.cached = a.cached /\ b.key = a.key /\ b.blocks = a.blocks
    BY ONLY <2>1, Zenon DEF AllocFields, b
  <2> HIDE DEF b
  <2> QED BY <1>1, <2>2, Zenon DEF HeldOK
<1>4. b # NoAllocation
  <2>1. "key" \in DOMAIN b
    BY <1>3 DEF HeldOK, AllocFields
  <2>2. DOMAIN NoAllocation = {"blocks"}
    BY DEF NoAllocation
  <2> HIDE DEF b
  <2> QED BY <2>1, <2>2
<1> HIDE DEF b
<1>5. DOMAIN g = Requests /\ g[r] = b /\ \A q \in Requests : q # r => g[q] = h[q]
  BY <1>1, <1>2
<1>6. HoldingIn(g) = HoldingIn(h)
  BY <1>1, <1>4, <1>5 DEF HoldingIn
<1>7. \A q \in HoldingIn(h) : HeldOK(g[q]) /\ g[q].prefix_node = h[q].prefix_node
  BY <1>1, <1>3, <1>5 DEF HolderOK
<1>8. HolderOK(g)
  BY <1>1, <1>5, <1>6, <1>7 DEF HolderOK
<1>9. UsersIn(g) = UsersIn(h)
  BY <1>6, <1>7 DEF UsersIn
<1> QED BY <1>8, <1>9
-----------------------------------------------------------------------------
(* allocate                                                                *)

\* U is T with another count at one node at most.
Bumped(T, U, id) ==
    /\ DOMAIN U.nodes = DOMAIN T.nodes /\ U.next_id = T.next_id
    /\ \A i \in DOMAIN T.nodes :
         /\ U.nodes[i].blocks = T.nodes[i].blocks
         /\ U.nodes[i].key = T.nodes[i].key /\ U.nodes[i].parent = T.nodes[i].parent
         /\ U.nodes[i].last_accessed = T.nodes[i].last_accessed
         /\ i # id => U.nodes[i] = T.nodes[i]

\* incref only counts.
LEMMA IncrefKeeps ==
    ASSUME NEW T, NEW ext, NEW C, NEW B, TrieOK(T, ext, C, B), NEW id \in DOMAIN T.nodes
    PROVE  Bumped(T, Incref(T, id), id)
<1> DEFINE U == Incref(T, id)
           n == T.nodes[id]
           m == [n EXCEPT !.ref_count = n.ref_count + 1]
<1>1. TrieFields \subseteq DOMAIN T /\ NodeFields \subseteq DOMAIN n
  BY NodeIs DEF TrieOK, StoreOK
<1>2. CASE id = Root
  <2>1. U = T
    BY <1>2 DEF Incref
  <2> HIDE DEF U
  <2> QED BY <2>1, Zenon DEF Bumped, U
<1>3. CASE id # Root
  <2>1. U.nodes = [T.nodes EXCEPT ![id] = m] /\ U.next_id = T.next_id
    BY <1>1, <1>3, Zenon DEF Incref, TrieFields, NodeFields
  <2>2. /\ m.blocks = n.blocks /\ m.key = n.key /\ m.parent = n.parent
        /\ m.last_accessed = n.last_accessed
    <3> HIDE DEF n
    <3> QED BY ONLY <1>1, Zenon DEF NodeFields, m
  <2> HIDE DEF m, U
  <2>3. DOMAIN U.nodes = DOMAIN T.nodes
        /\ \A i \in DOMAIN T.nodes : U.nodes[i] = IF i = id THEN m ELSE T.nodes[i]
    BY <2>1, Zenon
  <2> QED BY <2>1, <2>2, <2>3, Zenon DEF Bumped, U
<1> QED BY <1>2, <1>3

\* decref too.
LEMMA DecrefBumped ==
    ASSUME NEW T, NEW ext, NEW C, NEW B, TrieOK(T, ext, C, B), NEW id \in DOMAIN T.nodes
    PROVE  Bumped(T, Decref(T, id), id)
<1> DEFINE D == Decref(T, id)
<1>1. /\ D.next_id = T.next_id /\ DOMAIN D.nodes = DOMAIN T.nodes
      /\ \A i \in DOMAIN D.nodes :
           /\ D.nodes[i].blocks = T.nodes[i].blocks
           /\ D.nodes[i].key = T.nodes[i].key /\ D.nodes[i].parent = T.nodes[i].parent
           /\ D.nodes[i].last_accessed = T.nodes[i].last_accessed
           /\ i # id => D.nodes[i] = T.nodes[i]
  BY DecrefKeeps
<1> HIDE DEF D
<1> QED BY <1>1 DEF Bumped, D

\* alloc_or_reclaim.
LEMMA ReclaimKeeps ==
    ASSUME NEW T, NEW ext, TrieOK(T, ext, Chunks, Blocks), free_blocks \in Seq(Blocks),
           NEW k \in Nat
    PROVE  LET room == Reclaim(T, k)
           IN  /\ TrieOK(room.trie, ext, Chunks, Blocks) /\ Evicted(T, room.trie)
               /\ room.free \in Seq(Blocks)
               /\ \E l \in Seq(Blocks) : room.free = free_blocks \o l /\ Freed(T, room.trie, ext, l)
<1> DEFINE room == Reclaim(T, k)
           e == Evict(T, k - Len(free_blocks))
<1>1. Len(free_blocks) \in Nat
  BY LenProperties
<1>2. CASE Len(free_blocks) >= k
  <2>1. room.trie = T /\ room.free = free_blocks
    BY <1>2 DEF Reclaim
  <2>2. \A i \in DOMAIN T.nodes : T.nodes[i].last_accessed \in Nat
    BY NodeIs DEF TrieOK
  <2>3. Evicted(T, T)
    BY <2>2, Zenon DEF Evicted, NonRoot
  <2>4. <<>> \in Seq(Blocks) /\ free_blocks = free_blocks \o <<>> /\ Freed(T, T, ext, <<>>)
    BY FreedNothing
  <2> HIDE DEF room
  <2>5. \E l \in Seq(Blocks) : room.free = free_blocks \o l /\ Freed(T, room.trie, ext, l)
    BY ONLY <2>1, <2>4, Zenon
  <2> QED BY <2>1, <2>3, <2>5, Zenon DEF room
<1>3. CASE ~ (Len(free_blocks) >= k)
  <2>1. room.trie = e.trie /\ room.free = free_blocks \o e.evicted
    BY <1>3 DEF Reclaim
  <2> DEFINE d == k - Len(free_blocks)
  <2>2. d \in Nat
    BY <1>1, <1>3
  <2> HIDE DEF d
  <2>3. /\ TrieOK(e.trie, ext, Chunks, Blocks) /\ e.evicted \in Seq(Blocks) /\ Evicted(T, e.trie)
        /\ Freed(T, e.trie, ext, e.evicted)
    BY <2>2, EvictKeeps, Zenon DEF d
  <2>4. free_blocks \o e.evicted \in Seq(Blocks)
    <3> HIDE DEF e
    <3> QED BY <2>3, ConcatProperties
  <2> HIDE DEF room, e
  <2>5. \E l \in Seq(Blocks) : room.free = free_blocks \o l /\ Freed(T, room.trie, ext, l)
    BY ONLY <2>1, <2>3, Zenon
  <2>6. TrieOK(room.trie, ext, Chunks, Blocks) /\ Evicted(T, room.trie) /\ room.free \in Seq(Blocks)
    BY ONLY <2>1, <2>3, <2>4
  <2> QED BY <2>5, <2>6 DEF room
<1> QED BY <1>2, <1>3

\* What allocate has found and reclaimed when it takes the blocks.
LEMMA RoomFor ==
    ASSUME AllocInv, NEW p \in Prompts, NEW extra \in Extras
    PROVE  LET found == Find(trie, p.key, p.partial)
               needed == Len(p.key) + extra - Len(found.blocks)
               with == Incref(found.trie, found.node)
               room == Reclaim(with, needed)
               ext == More(UsersIn(held), found.node)
           IN  /\ FindOK(found, Tick(trie), UsersIn(held), Len(p.key), Chunks, Blocks)
               /\ p.key \in Seq(Chunks) /\ found.node \in Nat
               /\ Len(found.blocks) \in Nat /\ Len(found.blocks) <= Len(p.key)
               /\ extra \in Nat /\ needed \in Nat
               /\ Bumped(found.trie, with, found.node)
               /\ Evicted(with, room.trie)
               /\ TrieOK(room.trie, ext, Chunks, Blocks)
               /\ room.free \in Seq(Blocks)
               /\ \E l \in Seq(Blocks) : room.free = free_blocks \o l /\ Freed(with, room.trie, ext, l)
<1> DEFINE found == Find(trie, p.key, p.partial)
           F == found.trie
           node == found.node
           fb == found.blocks
           needed == Len(p.key) + extra - Len(fb)
           with == Incref(F, node)
           room == Reclaim(with, needed)
           users == UsersIn(held)
           ext == More(users, node)
           key == p.key
<1>1. TrieOK(trie, users, Chunks, Blocks) /\ free_blocks \in Seq(Blocks)
  BY DEF AllocInv
<1>2. key \in Seq(Chunks) /\ extra \in Nat
  <2>1. key \in Seq(Range(key)) /\ extra \in Nat
    BY RadixAssumption
  <2>2. Range(key) \subseteq Chunks
    BY DEF Chunks
  <2> HIDE DEF key
  <2>3. Len(key) \in Nat /\ key \in [1..Len(key) -> Range(key)]
    BY <2>1, LenProperties
  <2>4. key \in [1..Len(key) -> Chunks]
    <3>1. \A i \in 1..Len(key) : key[i] \in Chunks
      BY <2>2, <2>3
    <3> QED BY <2>3, <3>1
  <2> QED BY <2>1, <2>3, <2>4, SeqDef
<1>3. FindOK(found, Tick(trie), users, Len(key), Chunks, Blocks)
  <2> DEFINE part == p.partial
  <2>1. found = Find(trie, key, part)
    OBVIOUS
  <2> HIDE DEF found, key, users, part
  <2> QED BY <1>1, <1>2, <2>1, FindKeeps
<1> HIDE DEF found
<1>4. /\ TrieOK(F, users, Chunks, Blocks) /\ node \in DOMAIN F.nodes
      /\ fb \in Seq(Blocks) /\ found.key \in Seq(Chunks) /\ Len(fb) + Len(found.key) = Len(key)
  BY <1>3, Zenon DEF FindOK
<1>5. Len(fb) \in Nat /\ Len(found.key) \in Nat /\ Len(key) \in Nat
  BY <1>2, <1>4, LenProperties
<1>6. Len(fb) <= Len(key) /\ needed \in Nat
  <2> HIDE DEF fb, key
  <2> QED BY <1>2, <1>4, <1>5 DEF key
<1>7. node \in Nat
  <2>1. StoreOK(F, Chunks, Blocks)
    BY <1>4, Zenon DEF TrieOK
  <2> QED BY <1>4, <2>1, NodeIs
<1>8. TrieOK(with, ext, Chunks, Blocks) /\ Bumped(F, with, node)
  <2> HIDE DEF F, node, users
  <2> QED BY <1>4, IncrefOK, IncrefKeeps
<1>9. /\ TrieOK(room.trie, ext, Chunks, Blocks) /\ Evicted(with, room.trie)
      /\ room.free \in Seq(Blocks)
      /\ \E l \in Seq(Blocks) : room.free = free_blocks \o l /\ Freed(with, room.trie, ext, l)
  <2> HIDE DEF with, ext, needed
  <2> QED BY <1>1, <1>6, <1>8, ReclaimKeeps
<1> QED BY <1>2, <1>3, <1>5, <1>6, <1>7, <1>8, <1>9, Zenon DEF found
-----------------------------------------------------------------------------
(* The invariant                                                           *)

\* The empty trie is well formed.
LEMMA InitInv == Init => AllocInv
<1> SUFFICES ASSUME Init PROVE AllocInv
  OBVIOUS
<1> DEFINE T == NewTrie
           n == TrieNode(<<>>, <<>>, 0, Root)
           ext == UsersIn(held)
<1>1. held = [r \in Requests |-> NoAllocation] /\ trie = T /\ free_blocks = [i \in Blocks |-> i]
  BY DEF Init
<1>2. HoldingIn(held) = {}
  BY <1>1 DEF HoldingIn
<1>3. HolderOK(held)
  BY <1>1, <1>2, FS_EmptySet DEF HolderOK
<1>4. ext \in [Nat -> Nat] /\ \A i \in Nat : ext[i] = 0
  <2>1. \A i \in Nat : {r \in HoldingIn(held) : held[r].prefix_node = i} = {}
    BY <1>2
  <2> QED BY <2>1, FS_EmptySet DEF UsersIn
<1>5. /\ NodeFields \subseteq DOMAIN n /\ n.key = <<>> /\ n.blocks = <<>> /\ n.children = <<>>
      /\ n.last_accessed = 0 /\ n.parent = Root /\ n.ref_count = 0
  BY Zenon DEF TrieNode, NodeFields
<1>6. /\ TrieFields \subseteq DOMAIN T /\ T.nodes = [id \in {Root} |-> n] /\ T.leaves = {}
      /\ T.time = 0 /\ T.next_id = 1 /\ T.panicked = FALSE
  <2> HIDE DEF n
  <2> QED BY Zenon DEF NewTrie, TrieFields, n
<1>7. DOMAIN n.children = {}
  BY <1>5
<1> HIDE DEF n, T
<1>8. DOMAIN T.nodes = {Root} /\ T.nodes[Root] = n
  BY <1>6
<1>9. NodeOK(n, Chunks, Blocks)
  <2>1. IsFiniteSet(DOMAIN n.children)
    BY <1>7, FS_EmptySet
  <2>2. <<>> \in Seq(Chunks) /\ <<>> \in Seq(Blocks) /\ Len(<<>>) = Len(<<>>)
    OBVIOUS
  <2> QED BY <1>5, <2>1, <2>2 DEF NodeOK
<1>10. StoreOK(T, Chunks, Blocks)
  BY <1>5, <1>6, <1>8, <1>9 DEF StoreOK, Root
<1>11. LinksOK(T)
  BY <1>7, <1>8 DEF LinksOK, NonRoot
<1>12. CountsOK(T, ext)
  BY <1>4, <1>8 DEF CountsOK, NonRoot
<1>13. T.leaves = LeavesOf(T.nodes)
  BY <1>6, <1>8, LeavesAre
<1>14. TrieOK(T, ext, Chunks, Blocks)
  BY <1>10, <1>11, <1>12, <1>13 DEF TrieOK
<1>15. free_blocks \in Seq(Blocks)
  <2>1. NBlocks \in Nat
    BY RadixAssumption
  <2>2. CASE NBlocks = 0
    <3>1. Blocks = {}
      BY <2>2 DEF Blocks
    <3>2. free_blocks = <<>>
      BY <1>1, <3>1
    <3> QED BY <3>2
  <2>3. CASE NBlocks # 0
    <3>1. NBlocks - 1 \in Nat /\ Blocks = 1..(NBlocks - 1)
      BY <2>1, <2>3 DEF Blocks
    <3>2. free_blocks \in [1..(NBlocks - 1) -> Blocks]
      BY <1>1, <3>1
    <3> QED BY <3>1, <3>2, SeqDef
  <2> QED BY <2>2, <2>3
<1> QED BY <1>1, <1>3, <1>14, <1>15 DEF AllocInv

\* allocate: the prefix it found gets a user, and loses it again when there is not
\* enough room; neither increment nor decrement fails.
LEMMA AllocateKeeps ==
    ASSUME AllocInv, NEW r \in Requests, NEW p \in Prompts, NEW extra \in Extras,
           Allocate(r, p, extra)
    PROVE  AllocInv'
<1> DEFINE found == Find(trie, p.key, p.partial)
           cached == Len(found.blocks)
           needed == Len(p.key) + extra - cached
           room == Reclaim(Incref(found.trie, found.node), needed)
           left == Len(room.free) - needed
           users == UsersIn(held)
           node == found.node
           ext == More(users, node)
           a == [prefix_node |-> found.node, cached |-> cached,
                 key |-> p.key, partial |-> p.partial, prefilled |-> FALSE,
                 blocks |-> found.blocks \o Skip(room.free, left)]
<1>1. TrieOK(trie, users, Chunks, Blocks) /\ HolderOK(held)
  BY DEF AllocInv
<1>2. /\ held[r] = NoAllocation
      /\ \/ /\ Len(room.free) >= needed
            /\ trie' = room.trie
            /\ free_blocks' = Take(room.free, left)
            /\ held' = [held EXCEPT ![r] = a]
         \/ /\ Len(room.free) < needed
            /\ trie' = Decref(room.trie, found.node)
            /\ free_blocks' = room.free
            /\ held' = held
  BY Zenon DEF Allocate
<1>3. /\ FindOK(found, Tick(trie), users, Len(p.key), Chunks, Blocks)
      /\ p.key \in Seq(Chunks) /\ node \in Nat
      /\ cached \in Nat /\ cached <= Len(p.key) /\ extra \in Nat /\ needed \in Nat
      /\ TrieOK(room.trie, ext, Chunks, Blocks) /\ room.free \in Seq(Blocks)
  BY RoomFor, Zenon
<1>4. users \in [Nat -> Nat]
  BY <1>1, UsersAre
<1>5. found.blocks \in Seq(Blocks)
  BY <1>3, Zenon DEF FindOK
<1> DEFINE fb == found.blocks
           key == p.key
           free == room.free
<1> HIDE DEF found, room, users, needed
<1>6. CASE Len(room.free) >= needed
  <2>1. trie' = room.trie /\ free_blocks' = Take(free, left) /\ held' = [held EXCEPT ![r] = a]
    <3>1. Len(room.free) \in Nat
      BY <1>3, LenProperties
    <3>2. ~ (Len(room.free) < needed)
      BY <1>3, <1>6, <3>1
    <3> QED BY <1>2, <3>2, Zenon
  <2>2. /\ Take(free, left) \in Seq(Blocks) /\ Skip(free, left) \in Seq(Blocks)
        /\ Len(Skip(free, left)) = needed
    <3>1. free \in Seq(Blocks) /\ Len(free) \in Nat /\ Len(free) >= needed
      BY <1>3, <1>6, LenProperties
    <3>2. left = Len(free) - needed
      OBVIOUS
    <3> HIDE DEF free, left
    <3>3. left \in 0..Len(free) /\ Len(free) - left = needed
      BY <1>3, <3>1, <3>2
    <3> QED BY <3>1, <3>3, CutList
  <2>3. HeldOK(a)
    <3> DEFINE new == Skip(free, left)
               all == fb \o new
    <3>1. all \in Seq(Blocks) /\ Len(all) = Len(fb) + Len(new)
      <4> HIDE DEF fb, new
      <4>1. fb \in Seq(Blocks) /\ new \in Seq(Blocks)
        BY <1>5, <2>2 DEF fb, new
      <4> QED BY <4>1, ConcatProperties
    <3>2. Len(fb) = cached /\ Len(new) = needed
      BY <2>2
    <3>3. needed = Len(key) + extra - cached
      BY DEF needed
    <3>4. Len(key) \in Nat
      BY <1>3, LenProperties
    <3>5. cached <= Len(key) /\ Len(key) <= Len(all)
      <4> HIDE DEF cached, all, fb, new, key
      <4> QED BY <1>3, <3>1, <3>2, <3>3, <3>4 DEF key
    <3>6. /\ AllocFields \subseteq DOMAIN a /\ a.prefix_node = node /\ a.cached = cached
          /\ a.key = key /\ a.blocks = all
      BY Zenon DEF AllocFields
    <3> HIDE DEF a, all, cached, key
    <3> QED BY <1>3, <3>1, <3>5, <3>6, Zenon DEF HeldOK, key
  <2>4. a.prefix_node = node
    OBVIOUS
  <2> HIDE DEF a, node
  <2>5. HolderOK(held') /\ UsersIn(held') = ext
    BY <1>1, <1>2, <2>1, <2>3, <2>4, UsersMore DEF users
  <2>6. TrieOK(trie', UsersIn(held'), Chunks, Blocks)
    BY <1>3, <2>1, <2>5
  <2> QED BY <2>1, <2>2, <2>5, <2>6 DEF AllocInv
<1>7. CASE ~ (Len(room.free) >= needed)
  <2>1. trie' = Decref(room.trie, node) /\ free_blocks' = free /\ held' = held
    BY <1>2, <1>7, Zenon
  <2> DEFINE E == room.trie
  <2> HIDE DEF E, node
  <2>2. Less(ext, node) = users /\ ext[node] > 0
    BY <1>3, <1>4, MoreLess
  <2>3. TrieOK(E, ext, Chunks, Blocks) /\ node \in DOMAIN E.nodes
    BY <1>3, <2>2 DEF E, TrieOK, CountsOK
  <2>4. TrieOK(Decref(E, node), Less(ext, node), Chunks, Blocks)
    BY <2>2, <2>3, DecrefOK
  <2>5. TrieOK(trie', UsersIn(held'), Chunks, Blocks)
    BY <2>1, <2>2, <2>4 DEF E, users
  <2> QED BY <1>1, <1>3, <2>1, <2>5 DEF AllocInv
<1> QED BY <1>6, <1>7

\* The prefill of an allocation.
LEMMA PrefillKeeps ==
    ASSUME AllocInv, NEW r \in Requests, Prefill(r)
    PROVE  AllocInv'
<1>1. TrieOK(trie, UsersIn(held), Chunks, Blocks) /\ HolderOK(held)
      /\ free_blocks \in Seq(Blocks)
  BY DEF AllocInv
<1>2. r \in HoldingIn(held) /\ held' = [held EXCEPT ![r].prefilled = TRUE]
      /\ trie' = trie /\ free_blocks' = free_blocks
  BY DEF Prefill, Holding, HoldingIn
<1>3. HolderOK(held') /\ UsersIn(held') = UsersIn(held)
  BY <1>1, <1>2, UsersSame
<1> QED BY <1>1, <1>2, <1>3 DEF AllocInv

\* What free releases and inserts: the decrement does not fail, and what is given
\* back are blocks of the allocation.
LEMMA Released ==
    ASSUME AllocInv, NEW r \in HoldingIn(held)
    PROVE  LET a == held[r]
               released == Decref(trie, a.prefix_node)
               ext == Less(UsersIn(held), a.prefix_node)
               ins == Insert(released, a.key, Take(a.blocks, Len(a.key)))
           IN  /\ HeldOK(a) /\ a.prefix_node \in DOMAIN trie.nodes
               /\ TrieOK(released, ext, Chunks, Blocks)
               /\ Bumped(trie, released, a.prefix_node)
               /\ a.key # <<>> =>
                    InsertOK(ins, Tick(released), ext, Len(a.key), Chunks, Blocks)
<1> DEFINE a == held[r]
           node == a.prefix_node
           key == a.key
           users == UsersIn(held)
           ext == Less(users, node)
           D == Decref(trie, node)
           head == Take(a.blocks, Len(key))
<1>1. TrieOK(trie, users, Chunks, Blocks) /\ HolderOK(held)
  BY DEF AllocInv
<1>2. HeldOK(a) /\ node \in Nat /\ users[node] > 0
  BY <1>1, UsersAre DEF HolderOK, HeldOK
<1>3. node \in DOMAIN trie.nodes
  <2> HIDE DEF node, users
  <2> QED BY <1>1, <1>2 DEF TrieOK, CountsOK
<1>4. TrieOK(D, ext, Chunks, Blocks) /\ Bumped(trie, D, node)
  <2> HIDE DEF node, users
  <2>1. TrieOK(D, ext, Chunks, Blocks)
    BY <1>1, <1>2, <1>3, DecrefOK
  <2>2. Bumped(trie, D, node)
    BY <1>1, <1>3, DecrefBumped
  <2> QED BY <2>1, <2>2
<1>5. key \in Seq(Chunks) /\ head \in Seq(Blocks) /\ Len(head) = Len(key)
  <2> DEFINE b == a.blocks
  <2>1. key \in Seq(Chunks) /\ b \in Seq(Blocks) /\ Len(key) <= Len(b)
    BY <1>2 DEF HeldOK
  <2> HIDE DEF key, b
  <2>2. Len(key) \in 0..Len(b)
    BY <2>1, LenProperties
  <2>3. Take(b, Len(key)) \in Seq(Blocks) /\ Len(Take(b, Len(key))) = Len(key)
    BY <2>1, <2>2, CutList
  <2> QED BY <2>1, <2>3 DEF b
<1>6. ASSUME key # <<>>
      PROVE  InsertOK(Insert(D, key, head), Tick(D), ext, Len(key), Chunks, Blocks)
  <2> HIDE DEF key, head, D, ext
  <2> QED BY <1>4, <1>5, <1>6, InsertKeeps
<1> QED BY <1>2, <1>3, <1>4, <1>6, Zenon

\* free, after or before the prefill.
LEMMA FreeKeeps ==
    ASSUME AllocInv, NEW r \in HoldingIn(held), Free(r)
    PROVE  AllocInv'
<1> DEFINE a == held[r]
           node == a.prefix_node
           key == a.key
           b == a.blocks
           users == UsersIn(held)
           ext == Less(users, node)
           D == Decref(trie, node)
           insert == (Len(a.key) > a.cached \/ a.partial) /\ a.key # <<>>
           ins == Insert(D, a.key, Take(a.blocks, Len(a.key)))
           duplicates == IF insert /\ ins.common > a.cached
                         THEN SubSeq(a.blocks, a.cached + 1, ins.common) ELSE <<>>
<1>1. /\ trie' = IF insert THEN ins.trie ELSE D
      /\ free_blocks' = free_blocks \o duplicates \o Skip(a.blocks, Len(a.key))
      /\ held' = [held EXCEPT ![r] = NoAllocation]
  BY Zenon DEF Free
<1>2. /\ TrieOK(trie, users, Chunks, Blocks) /\ HolderOK(held)
      /\ free_blocks \in Seq(Blocks)
  BY DEF AllocInv
<1>3. /\ HeldOK(a) /\ TrieOK(D, ext, Chunks, Blocks)
      /\ key # <<>> => InsertOK(ins, Tick(D), ext, Len(key), Chunks, Blocks)
  BY Released, Zenon
<1>4. HolderOK(held') /\ UsersIn(held') = ext
  BY <1>1, <1>2, UsersLess
<1>5. insert => InsertOK(ins, Tick(D), ext, Len(key), Chunks, Blocks)
  BY <1>3
<1> HIDE DEF insert, ins
<1>6. TrieOK(trie', UsersIn(held'), Chunks, Blocks)
  <2> HIDE DEF D, ext
  <2>1. CASE insert
    BY <1>1, <1>4, <1>5, <2>1, Zenon DEF InsertOK
  <2>2. CASE ~ insert
    BY <1>1, <1>3, <1>4, <2>2, Zenon
  <2> QED BY <2>1, <2>2
<1>7. /\ key \in Seq(Chunks) /\ b \in Seq(Blocks) /\ Len(key) \in Nat /\ Len(b) \in Nat
      /\ Len(key) <= Len(b) /\ a.cached \in Nat
  BY <1>3, LenProperties DEF HeldOK
<1>8. duplicates \in Seq(Blocks)
  <2>1. CASE insert /\ ins.common > a.cached
    <3> DEFINE m == ins.common
               k == ins.key
               c == a.cached
    <3>1. m \in Nat /\ k \in Seq(Chunks) /\ m + Len(k) = Len(key)
      BY <1>5, <2>1, Zenon DEF InsertOK
    <3>2. Len(k) \in Nat
      BY <3>1, LenProperties
    <3> HIDE DEF m, k, b, c, key
    <3>3. m <= Len(b)
      BY <1>7, <3>1, <3>2
    <3>4. c \in Nat
      BY <1>7 DEF c
    <3>5. \A i \in (c + 1)..m : b[i] \in Blocks
      <4>1. \A i \in (c + 1)..m : i \in 1..Len(b)
        BY <1>7, <3>1, <3>3, <3>4
      <4> QED BY <1>7, <4>1, ElementOfSeq
    <3>6. c + 1 \in Int /\ m \in Int
      BY <3>1, <3>4
    <3>7. SubSeq(b, c + 1, m) \in Seq(Blocks)
      BY <1>7, <3>5, <3>6, SubSeqProperties
    <3> QED BY <2>1, <3>7 DEF b, c, m
  <2>2. CASE ~ (insert /\ ins.common > a.cached)
    BY <2>2
  <2> QED BY <2>1, <2>2
<1>9. Skip(b, Len(key)) \in Seq(Blocks)
  <2> HIDE DEF b, key
  <2> QED BY <1>7, CutList
<1> HIDE DEF duplicates
<1>10. free_blocks' \in Seq(Blocks)
  <2> DEFINE x == Skip(b, Len(key))
  <2>1. free_blocks' = (free_blocks \o duplicates) \o x
    BY <1>1
  <2> HIDE DEF x
  <2>2. free_blocks \o duplicates \in Seq(Blocks)
    BY <1>2, <1>8, ConcatProperties
  <2>3. x \in Seq(Blocks)
    BY <1>9 DEF x
  <2>4. (free_blocks \o duplicates) \o x \in Seq(Blocks)
    BY <2>2, <2>3, ConcatProperties
  <2> QED BY <2>1, <2>4
<1> QED BY <1>4, <1>6, <1>10 DEF AllocInv

\* Every command keeps the invariant.
LEMMA NextInv == AllocInv /\ [Next]_vars => AllocInv'
<1> SUFFICES ASSUME AllocInv, [Next]_vars PROVE AllocInv'
  OBVIOUS
<1>1. ASSUME NEW r \in Requests, NEW p \in Prompts, NEW extra \in Extras, Allocate(r, p, extra)
      PROVE  AllocInv'
  BY <1>1, AllocateKeeps
<1>2. ASSUME NEW r \in Requests, Prefill(r) PROVE AllocInv'
  BY <1>2, PrefillKeeps
<1>3. ASSUME NEW r \in Requests, DropFinished(r) \/ DropAbandoned(r) PROVE AllocInv'
  <2>1. r \in HoldingIn(held) /\ Free(r)
    BY <1>3, Zenon DEF DropFinished, DropAbandoned, CanFree, Holding, HoldingIn
  <2> QED BY <2>1, FreeKeeps
<1>4. CASE UNCHANGED vars
  BY <1>4 DEF AllocInv, vars
<1> QED BY <1>1, <1>2, <1>3, <1>4, Zenon DEF Next

\* What the allocator keeps through every call.
THEOREM AllocInvariant == Spec => []AllocInv
  BY InitInv, NextInv, PTL DEF Spec
-----------------------------------------------------------------------------
(* What follows from it                                                    *)

\* The elements of a list over S are in S.
LEMMA ListRange ==
    ASSUME NEW S, NEW s \in Seq(S)
    PROVE  Range(s) \subseteq S
<1>1. DOMAIN s = 1..Len(s) /\ \A i \in 1..Len(s) : s[i] \in S
  BY ElementOfSeq
<1> QED BY <1>1 DEF Range

\* The invariant has the parts of TypeOK.
LEMMA InvType == AllocInv => TypeOK
<1> SUFFICES ASSUME AllocInv PROVE TypeOK
  OBVIOUS
<1>1. /\ StoreOK(trie, Chunks, Blocks) /\ LinksOK(trie) /\ HolderOK(held)
      /\ free_blocks \in Seq(Blocks)
  BY DEF AllocInv, TrieOK
<1>2. ASSUME NEW id \in NonRoot(trie)
      PROVE  /\ Len(trie.nodes[id].key) = Len(trie.nodes[id].blocks)
             /\ Range(trie.nodes[id].blocks) \subseteq Blocks
  <2>1. id \in DOMAIN trie.nodes
    BY DEF NonRoot
  <2>2. trie.nodes[id].blocks \in Seq(Blocks)
        /\ Len(trie.nodes[id].key) = Len(trie.nodes[id].blocks)
    BY <1>1, <2>1, NodeIs
  <2> QED BY <2>2, ListRange
<1>3. ASSUME NEW id \in NonRoot(trie)
      PROVE  LET node == trie.nodes[id]
             IN  /\ node.key # <<>> /\ node.parent \in DOMAIN trie.nodes
                 /\ Head(node.key) \in DOMAIN trie.nodes[node.parent].children
                 /\ trie.nodes[node.parent].children[Head(node.key)] = id
  BY <1>1, Zenon DEF LinksOK
<1>4. \A id \in DOMAIN trie.nodes : \A c \in DOMAIN trie.nodes[id].children :
        trie.nodes[id].children[c] \in NonRoot(trie)
  BY <1>1, Zenon DEF LinksOK
<1>5. Range(free_blocks) \subseteq Blocks
  BY <1>1, ListRange
<1>6. ASSUME NEW r \in Requests PROVE Range(held[r].blocks) \subseteq Blocks
  <2>1. CASE r \in HoldingIn(held)
    BY <1>1, <2>1, ListRange DEF HolderOK, HeldOK
  <2>2. CASE r \notin HoldingIn(held)
    <3>1. held[r].blocks = <<>>
      BY <2>2 DEF HoldingIn, NoAllocation
    <3>2. <<>> \in Seq(Blocks)
      OBVIOUS
    <3> QED BY <3>1, <3>2, ListRange
  <2> QED BY <2>1, <2>2
<1> QED BY <1>2, <1>3, <1>4, <1>5, <1>6, Zenon DEF TypeOK

\* And those of RefCountsExact.
LEMMA InvCounts == AllocInv => RefCountsExact
<1> SUFFICES ASSUME AllocInv PROVE RefCountsExact
  OBVIOUS
<1>1. /\ StoreOK(trie, Chunks, Blocks) /\ CountsOK(trie, UsersIn(held))
      /\ trie.leaves = LeavesOf(trie.nodes)
  BY DEF AllocInv, TrieOK
<1>2. Holding = HoldingIn(held)
  BY DEF Holding, HoldingIn
<1>3. ASSUME NEW id \in NonRoot(trie)
      PROVE  trie.nodes[id].ref_count =
                Cardinality(DOMAIN trie.nodes[id].children)
                + Cardinality({r \in Holding : held[r].prefix_node = id})
  <2>1. id \in Nat
    BY <1>1 DEF StoreOK, NonRoot
  <2>2. UsersIn(held)[id] = Cardinality({r \in Holding : held[r].prefix_node = id})
    BY <1>2, <2>1, Zenon DEF UsersIn
  <2>3. trie.nodes[id].ref_count =
          Cardinality(DOMAIN trie.nodes[id].children) + UsersIn(held)[id]
    BY <1>1, Zenon DEF CountsOK
  <2> QED BY <2>2, <2>3, Zenon
<1>4. trie.leaves = {<<trie.nodes[id].last_accessed, id>> :
                       id \in {n \in NonRoot(trie) : trie.nodes[n].ref_count = 0}}
  BY <1>1, Zenon DEF LeavesOf, NonRoot
<1> QED BY <1>3, <1>4, Zenon DEF RefCountsExact

\* The trie is a tree with a block per chunk, after every command of the allocator,
\* for every set of prompts and every number of blocks.
THEOREM TypeCorrect == Spec => []TypeOK
  BY AllocInvariant, InvType, PTL

\* Reference counts are exact: children and allocations, nothing else, and the
\* leaves evict may take are the nodes without references.
THEOREM RefCountsCorrect == Spec => []RefCountsExact
  BY AllocInvariant, InvCounts, PTL

\* No assert, expect or unreachable of the allocator and of the trie fires.
THEOREM NoPanicCorrect == Spec => []NoPanic
<1>1. AllocInv => NoPanic
  BY DEF AllocInv, TrieOK, StoreOK, NoPanic
<1> QED BY <1>1, AllocInvariant, PTL
-----------------------------------------------------------------------------
(* Least recently used first                                               *)

\* What EvictsOldestFirst says of a step from trie T to trie U.
OldestFirst(T, U) ==
    \A id, keep \in NonRoot(T) :
        (/\ id \notin DOMAIN U.nodes
            \/ Len(U.nodes[id].blocks) < Len(T.nodes[id].blocks)
         /\ keep \in DOMAIN U.nodes
         /\ U.nodes[keep] = T.nodes[keep]
         /\ T.nodes[keep].ref_count = 0
         /\ U.next_id = T.next_id)
           => T.nodes[id].last_accessed <= T.nodes[keep].last_accessed

\* A step in which no node loses blocks evicts nothing.
LEMMA NothingEvicted ==
    ASSUME NEW T, NEW C, NEW B, StoreOK(T, C, B), NEW U,
           U.next_id = T.next_id =>
             /\ DOMAIN T.nodes \subseteq DOMAIN U.nodes
             /\ \A i \in DOMAIN T.nodes : U.nodes[i].blocks = T.nodes[i].blocks
    PROVE  OldestFirst(T, U)
<1>1. \A i \in NonRoot(T) : i \in DOMAIN T.nodes /\ T.nodes[i].blocks \in Seq(B)
  BY NodeIs DEF NonRoot
<1>2. \A i \in NonRoot(T) : ~ (Len(T.nodes[i].blocks) < Len(T.nodes[i].blocks))
  <2>1. \A i \in NonRoot(T) : Len(T.nodes[i].blocks) \in Nat
    BY <1>1, LenProperties
  <2> QED BY <2>1
<1> QED BY <1>1, <1>2, Zenon DEF OldestFirst

\* allocate: find makes the nodes on its path the youngest, the one it holds among
\* them, before evict takes the oldest; so a leaf that stays as it was is older than
\* all of them, and not older than what evict took.
LEMMA AllocateOldest ==
    ASSUME NEW T, NEW ext, NEW C, NEW B, TrieOK(T, ext, C, B),
           NEW F, NEW I, NEW E, NEW U, NEW node, Touched(Tick(T), F),
           node # Root => F.nodes[node].last_accessed = F.time,
           Bumped(F, I, node), Evicted(I, E), Bumped(E, U, node)
    PROVE  OldestFirst(T, U)
<1>1. StoreOK(T, C, B) /\ T.time \in Nat
  BY DEF TrieOK, StoreOK
<1>2. \A i \in DOMAIN T.nodes : /\ T.nodes[i].last_accessed \in Nat
                                /\ T.nodes[i].last_accessed <= T.time
                                /\ T.nodes[i].blocks \in Seq(B)
  BY <1>1, NodeIs DEF StoreOK
<1>3. /\ F.time = T.time + 1 /\ DOMAIN F.nodes = DOMAIN T.nodes
      /\ \A i \in DOMAIN T.nodes :
           /\ F.nodes[i].blocks = T.nodes[i].blocks
           /\ F.nodes[i].ref_count = T.nodes[i].ref_count
           /\ F.nodes[i].last_accessed \in {T.nodes[i].last_accessed, T.time + 1}
  <2> DEFINE S == Tick(T)
  <2>1. S.nodes = T.nodes /\ S.time = T.time + 1
    BY TickOK
  <2>2. Touched(S, F)
    OBVIOUS
  <2> HIDE DEF S
  <2> QED BY <2>1, <2>2 DEF Touched
<1>4. /\ DOMAIN I.nodes = DOMAIN F.nodes
      /\ \A i \in DOMAIN F.nodes :
           /\ I.nodes[i].blocks = F.nodes[i].blocks
           /\ I.nodes[i].last_accessed = F.nodes[i].last_accessed
           /\ i # node => I.nodes[i] = F.nodes[i]
  BY DEF Bumped
<1>5. /\ DOMAIN U.nodes = DOMAIN E.nodes
      /\ \A i \in DOMAIN E.nodes :
           /\ U.nodes[i].blocks = E.nodes[i].blocks
           /\ U.nodes[i].last_accessed = E.nodes[i].last_accessed
  BY DEF Bumped
<1>6. /\ DOMAIN E.nodes \subseteq DOMAIN I.nodes
      /\ \A i \in DOMAIN E.nodes : E.nodes[i].last_accessed = I.nodes[i].last_accessed
      /\ \A i \in DOMAIN I.nodes, keep \in NonRoot(E) :
           (i \notin DOMAIN E.nodes \/ E.nodes[i].blocks # I.nodes[i].blocks)
             /\ I.nodes[keep].ref_count = 0
           => I.nodes[i].last_accessed <= I.nodes[keep].last_accessed
  BY Zenon DEF Evicted
<1>7. ASSUME NEW id \in NonRoot(T), NEW keep \in NonRoot(T),
             id \notin DOMAIN U.nodes \/ Len(U.nodes[id].blocks) < Len(T.nodes[id].blocks),
             keep \in DOMAIN U.nodes, U.nodes[keep] = T.nodes[keep],
             T.nodes[keep].ref_count = 0
      PROVE  T.nodes[id].last_accessed <= T.nodes[keep].last_accessed
  <2>1. id \in DOMAIN T.nodes /\ keep \in DOMAIN T.nodes /\ keep # Root
    BY DEF NonRoot
  <2>2. keep \in DOMAIN E.nodes /\ keep \in NonRoot(E)
    BY <1>5, <1>7, <2>1 DEF NonRoot
  <2>3. /\ I.nodes[keep].last_accessed = T.nodes[keep].last_accessed
        /\ F.nodes[keep].last_accessed = T.nodes[keep].last_accessed
    BY <1>3, <1>4, <1>5, <1>6, <1>7, <2>1, <2>2
  <2>4. keep # node
    <3>1. T.nodes[keep].last_accessed # T.time + 1
      BY <1>1, <1>2, <2>1
    <3> QED BY <1>3, <2>1, <2>3, <3>1
  <2>5. I.nodes[keep].ref_count = 0
    BY <1>3, <1>4, <1>7, <2>1, <2>4
  <2>6. id \notin DOMAIN E.nodes \/ E.nodes[id].blocks # I.nodes[id].blocks
    <3> SUFFICES ASSUME id \in DOMAIN E.nodes, E.nodes[id].blocks = I.nodes[id].blocks
                 PROVE  FALSE
      OBVIOUS
    <3>1. U.nodes[id].blocks = T.nodes[id].blocks /\ id \in DOMAIN U.nodes
      BY <1>3, <1>4, <1>5, <2>1
    <3>2. Len(T.nodes[id].blocks) \in Nat
      BY <1>2, <2>1, LenProperties
    <3> QED BY <1>7, <3>1, <3>2
  <2>7. I.nodes[id].last_accessed <= I.nodes[keep].last_accessed
    <3>1. id \in DOMAIN I.nodes
      BY <1>3, <1>4, <2>1
    <3> QED BY <1>6, <2>2, <2>5, <2>6, <3>1, Zenon
  <2>8. I.nodes[id].last_accessed \in {T.nodes[id].last_accessed, T.time + 1}
    BY <1>3, <1>4, <2>1
  <2> DEFINE old == T.nodes[id].last_accessed
             new == I.nodes[id].last_accessed
             kept == T.nodes[keep].last_accessed
  <2>9. /\ old \in Nat /\ kept \in Nat /\ kept <= T.time /\ new \in {old, T.time + 1}
        /\ new <= kept
    BY <1>2, <2>1, <2>3, <2>7, <2>8
  <2> HIDE DEF old, new, kept
  <2>10. old <= kept
    BY <1>1, <2>9
  <2> QED BY <2>10 DEF old, kept
<1> QED BY <1>7, Zenon DEF OldestFirst

\* Every command evicts the least recently used blocks first.
LEMMA NextOldest == AllocInv /\ [Next]_vars => OldestFirst(trie, trie')
<1> SUFFICES ASSUME AllocInv, [Next]_vars PROVE OldestFirst(trie, trie')
  OBVIOUS
<1>1. TrieOK(trie, UsersIn(held), Chunks, Blocks) /\ StoreOK(trie, Chunks, Blocks)
      /\ HolderOK(held)
  BY DEF AllocInv, TrieOK
<1>2. ASSUME NEW r \in Requests, NEW p \in Prompts, NEW extra \in Extras, Allocate(r, p, extra)
      PROVE  OldestFirst(trie, trie')
  <2> DEFINE found == Find(trie, p.key, p.partial)
             needed == Len(p.key) + extra - Len(found.blocks)
             F == found.trie
             node == found.node
             I == Incref(F, node)
             E == Reclaim(I, needed).trie
             users == UsersIn(held)
             ext == More(users, node)
  <2>1. trie' = E \/ trie' = Decref(E, node)
    BY <1>2, Zenon DEF Allocate
  <2>2. /\ FindOK(found, Tick(trie), users, Len(p.key), Chunks, Blocks) /\ node \in Nat
        /\ Bumped(F, I, node) /\ Evicted(I, E) /\ TrieOK(E, ext, Chunks, Blocks)
    BY RoomFor, Zenon
  <2>3. Touched(Tick(trie), F) /\ (node # Root => F.nodes[node].last_accessed = F.time)
    BY <2>2, Zenon DEF FindOK
  <2> HIDE DEF F, I, E, node, users
  <2>4. Bumped(E, E, node)
    BY Zenon DEF Bumped
  <2>5. Bumped(E, Decref(E, node), node)
    <3>1. users \in [Nat -> Nat]
      BY <1>1, UsersAre DEF users
    <3>2. ext[node] > 0
      BY <2>2, <3>1, MoreLess
    <3>3. node \in DOMAIN E.nodes
      BY <2>2, <3>2 DEF TrieOK, CountsOK
    <3> QED BY <2>2, <3>3, DecrefBumped
  <2>6. Bumped(E, trie', node)
    BY <2>1, <2>4, <2>5, Zenon
  <2> QED BY <1>1, <2>2, <2>3, <2>6, AllocateOldest
<1>3. ASSUME trie' = trie PROVE OldestFirst(trie, trie')
  BY <1>1, <1>3, NothingEvicted
<1>4. ASSUME NEW r \in Requests, DropFinished(r) \/ DropAbandoned(r)
      PROVE  OldestFirst(trie, trie')
  <2> DEFINE a == held[r]
             D == Decref(trie, a.prefix_node)
             ins == Insert(D, a.key, Take(a.blocks, Len(a.key)))
             ext == Less(UsersIn(held), a.prefix_node)
  <2>1. r \in HoldingIn(held) /\ Free(r)
    BY <1>4, Zenon DEF DropFinished, DropAbandoned, CanFree, Holding, HoldingIn
  <2>2. trie' = D \/ (a.key # <<>> /\ trie' = ins.trie)
    BY <2>1, Zenon DEF Free
  <2>3. /\ TrieOK(D, ext, Chunks, Blocks) /\ Bumped(trie, D, a.prefix_node)
        /\ a.key # <<>> => InsertOK(ins, Tick(D), ext, Len(a.key), Chunks, Blocks)
    BY <2>1, Released, Zenon
  <2> HIDE DEF D, ins, ext
  <2>4. /\ DOMAIN D.nodes = DOMAIN trie.nodes /\ D.next_id = trie.next_id
        /\ \A i \in DOMAIN trie.nodes : D.nodes[i].blocks = trie.nodes[i].blocks
    BY <2>3, Zenon DEF Bumped
  <2>5. CASE trie' = D
    BY <1>1, <2>4, <2>5, NothingEvicted
  <2>6. CASE a.key # <<>> /\ trie' = ins.trie
    <3> DEFINE S == Tick(D)
    <3>1. Extended(S, trie')
      BY <2>3, <2>6, Zenon DEF InsertOK
    <3>2. S.nodes = D.nodes /\ S.next_id = D.next_id
      BY <2>3, TickOK
    <3> HIDE DEF S
    <3>3. trie'.next_id = trie.next_id =>
            /\ DOMAIN trie.nodes \subseteq DOMAIN trie'.nodes
            /\ \A i \in DOMAIN trie.nodes : trie'.nodes[i].blocks = trie.nodes[i].blocks
      BY <2>4, <3>1, <3>2 DEF Extended
    <3> QED BY <1>1, <3>3, NothingEvicted
  <2> QED BY <2>2, <2>5, <2>6
<1>5. ASSUME NEW r \in Requests, Prefill(r) PROVE OldestFirst(trie, trie')
  BY <1>3, <1>5 DEF Prefill
<1>6. CASE UNCHANGED vars
  BY <1>3, <1>6 DEF vars
<1> QED BY <1>2, <1>4, <1>5, <1>6, Zenon DEF Next

\* Eviction takes the least recently used blocks: a node that loses blocks was not
\* used after any leaf that keeps all of its own.
THEOREM EvictsOldestFirstCorrect == Spec => EvictsOldestFirst
<1>1. AllocInv /\ [Next]_vars => [OldestFirst(trie, trie')]_vars
  BY NextOldest
<1>2. AllocInv /\ [Next]_vars =>
        [\A id, keep \in NonRoot(trie) :
            (/\ id \notin DOMAIN trie'.nodes
                \/ Len(trie'.nodes[id].blocks) < Len(trie.nodes[id].blocks)
             /\ keep \in DOMAIN trie'.nodes
             /\ trie'.nodes[keep] = trie.nodes[keep]
             /\ trie.nodes[keep].ref_count = 0
             /\ trie'.next_id = trie.next_id)
               => trie.nodes[id].last_accessed <= trie.nodes[keep].last_accessed]_vars
  BY <1>1, Zenon DEF OldestFirst
<1> QED BY <1>2, AllocInvariant, PTL DEF Spec, EvictsOldestFirst
-----------------------------------------------------------------------------
(* Paths and keys                                                          *)

\* A list is its two parts.
LEMMA PartsJoined ==
    ASSUME NEW S, NEW s \in Seq(S), NEW n \in 0..Len(s)
    PROVE  Joined(s, Take(s, n), Skip(s, n))
<1> DEFINE t == Take(s, n)
           k == Skip(s, n)
<1>1. /\ Len(t) = n /\ \A i \in 1..n : t[i] = s[i]
      /\ Len(k) = Len(s) - n /\ \A i \in 1..(Len(s) - n) : k[i] = s[n + i]
  BY CutElements
<1>2. Len(s) \in Nat /\ n \in Nat
  BY LenProperties
<1> HIDE DEF t, k
<1>3. Joined(s, t, k)
  BY <1>1, <1>2 DEF Joined
<1> QED BY <1>3 DEF t, k

\* The rest of the rest.
LEMMA SkipSkip ==
    ASSUME NEW S, NEW s \in Seq(S), NEW n \in 0..Len(s), NEW k \in 0..(Len(s) - n)
    PROVE  n + k \in 0..Len(s) /\ Skip(Skip(s, n), k) = Skip(s, n + k)
<1> DEFINE t == Skip(s, n)
           u == Skip(t, k)
           v == Skip(s, n + k)
           L == Len(s)
<1>1. L \in Nat /\ n \in Nat /\ k \in Nat /\ n + k <= L /\ n + k \in 0..L
  BY LenProperties
<1>2. t \in Seq(S) /\ Len(t) = L - n /\ \A i \in 1..(L - n) : t[i] = s[n + i]
  BY CutElements
<1>3. v \in Seq(S) /\ Len(v) = L - (n + k) /\ \A i \in 1..(L - (n + k)) : v[i] = s[(n + k) + i]
  BY <1>1, CutElements
<1> HIDE DEF t, v
<1>4. k \in 0..Len(t)
  BY <1>1, <1>2
<1>5. u \in Seq(S) /\ Len(u) = Len(t) - k /\ \A i \in 1..(Len(t) - k) : u[i] = t[k + i]
  BY <1>2, <1>4, CutElements
<1> HIDE DEF u, L
<1>6. Len(u) = Len(v) /\ Len(u) = L - (n + k)
  <2>1. Len(t) = L - n /\ Len(v) = L - (n + k) /\ Len(u) = Len(t) - k
    BY ONLY <1>2, <1>3, <1>5
  <2> QED BY ONLY <1>1, <2>1
<1>7. ASSUME NEW i \in 1..Len(u) PROVE u[i] = v[i]
  <2>1. i \in 1..(Len(t) - k) /\ k + i \in 1..(L - n) /\ i \in 1..(L - (n + k))
        /\ n + (k + i) = (n + k) + i
    BY ONLY <1>1, <1>2, <1>6, i \in 1..Len(u)
  <2> QED BY ONLY <1>2, <1>3, <1>5, <2>1
<1>8. u = v
  BY <1>3, <1>5, <1>6, <1>7, SeqEqual
<1> QED BY <1>1, <1>8 DEF t, u, v, L

\* Two lists that agree in their first parts and up to n in their second.
LEMMA JoinSame ==
    ASSUME NEW S, NEW s \in Seq(S), NEW a \in Seq(S), NEW b \in Seq(S), Joined(s, a, b),
           NEW t \in Seq(S), NEW c \in Seq(S), NEW e \in Seq(S), Joined(t, c, e),
           Len(a) = Len(c), SameTo(Len(a), a, c), NEW n \in Nat, SameTo(n, b, e)
    PROVE  SameTo(Len(a) + n, s, t)
<1>1. /\ Len(a) \in Nat /\ Len(b) \in Nat /\ Len(e) \in Nat /\ n <= Len(b) /\ n <= Len(e)
      /\ Len(s) = Len(a) + Len(b) /\ Len(t) = Len(a) + Len(e)
  BY LenProperties DEF Joined, SameTo
<1> DEFINE A == Len(a)
<1>2. /\ \A j \in 1..A : s[j] = a[j] /\ t[j] = c[j] /\ a[j] = c[j]
      /\ \A j \in 1..Len(b) : s[A + j] = b[j]
      /\ \A j \in 1..Len(e) : t[A + j] = e[j]
      /\ \A j \in 1..n : b[j] = e[j]
  BY DEF Joined, SameTo
<1> HIDE DEF A
<1>3. ASSUME NEW j \in 1..(A + n) PROVE s[j] = t[j]
  <2>1. A \in Nat
    BY <1>1 DEF A
  <2>2. CASE j <= A
    <3>1. j \in 1..A
      BY <2>1, <2>2
    <3> QED BY <1>2, <3>1
  <2>3. CASE ~ (j <= A)
    <3> DEFINE y == j - A
    <3>1. y \in 1..n /\ y \in 1..Len(b) /\ y \in 1..Len(e) /\ A + y = j
      BY <1>1, <2>1, <2>3
    <3> HIDE DEF y
    <3> QED BY <1>2, <3>1
  <2> QED BY <2>2, <2>3
<1>4. A + n <= Len(s) /\ A + n <= Len(t)
  BY <1>1 DEF A
<1> QED BY <1>3, <1>4 DEF SameTo, A
-----------------------------------------------------------------------------
(* What find finds                                                         *)

\* How much of a path, to a node with chunks k, a key may rely on when it found
\* cached blocks: a key that ends with the last of them holds the node before.
Reach(partial, cached, key, k) == IF partial \/ cached < Len(key) THEN cached ELSE Len(k)

\* find before and after a call of find_, when it did not stray: so far the key and
\* the blocks found are those of the path to the node, and where there is a next
\* chunk all of the path was found.
FindPath(w, K, V, key, partial) ==
    LET m == Len(w.blocks)
        n == Reach(partial, m, key, K[w.node])
    IN  /\ w.partial = partial
        /\ m \in 0..Len(key)
        /\ w.key = Skip(key, m)
        /\ SameTo(n, K[w.node], key)
        /\ SameTo(n, V[w.node], w.blocks)
        /\ ~ w.done /\ w.key # <<>> /\ Head(w.key) \in DOMAIN w.trie.nodes[w.node].children
             => Len(K[w.node]) = m

\* A search that strayed stays so.
LEMMA FindStrays ==
    ASSUME NEW w, NEW S, NEW ext, NEW size, NEW C, NEW B, FindOK(w, S, ext, size, C, B), w.strayed
    PROVE  FindStep(w).strayed
<1> DEFINE c == Head(w.key)
           node == w.trie.nodes[w.node]
<1>1. {"trie", "node", "key", "partial", "blocks", "strayed", "done"} \subseteq DOMAIN w
  BY DEF FindOK
<1>2. CASE w.done \/ w.key = <<>> \/ c \notin DOMAIN node.children
  <2>1. FindStep(w) = [w EXCEPT !.done = TRUE]
    BY <1>2, Zenon DEF FindStep
  <2> QED BY <1>1, <2>1, Zenon
<1>3. CASE ~ (w.done \/ w.key = <<>> \/ c \notin DOMAIN node.children)
  <2> DEFINE id == node.children[c]
             child == w.trie.nodes[id]
             shared == SharedPrefix(child.key, w.key)
             ends == Len(w.key) = shared /\ ~ w.partial
             U == UpdateAccessTime(w.trie, id)
             more == w.blocks \o Take(child.blocks, shared)
             rest == Skip(w.key, shared)
             next == IF ends THEN w.node ELSE id
             new == /\ shared < Len(child.key) /\ shared < Len(w.key)
                    /\ w.key[shared + 1] \in DOMAIN child.children
             strays == w.strayed \/ new
  <2>1. FindStep(w) = [w EXCEPT !.trie = U, !.blocks = more, !.key = rest, !.node = next,
                                !.strayed = strays, !.done = ends]
    BY <1>3, Zenon DEF FindStep
  <2>2. strays
    OBVIOUS
  <2> HIDE DEF U, more, rest, next, strays, ends
  <2> QED BY <1>1, <2>1, <2>2, Zenon
<1> QED BY <1>2, <1>3

\* One call of find_ that does not stray keeps that.
LEMMA FindPathStep ==
    ASSUME NEW w, NEW S, NEW ext, NEW size, NEW C, NEW B, FindOK(w, S, ext, size, C, B),
           NEW K, NEW V, PathsOK(S, K, V, C, B),
           NEW key \in Seq(C), NEW partial, FindPath(w, K, V, key, partial),
           ~ FindStep(w).strayed
    PROVE  FindPath(FindStep(w), K, V, key, partial)
<1> DEFINE T == w.trie
           x == FindStep(w)
           p == w.node
           k == w.key
           c == Head(k)
           b == w.blocks
           m == Len(b)
           Fields == {"trie", "node", "key", "partial", "blocks", "strayed", "done"}
<1>1. /\ Fields \subseteq DOMAIN w /\ TrieOK(T, ext, C, B) /\ p \in DOMAIN T.nodes
      /\ k \in Seq(C) /\ b \in Seq(B) /\ Touched(S, T)
  BY DEF FindOK
<1>2. /\ w.partial = partial /\ m \in 0..Len(key) /\ k = Skip(key, m)
      /\ SameTo(Reach(partial, m, key, K[p]), K[p], key)
      /\ SameTo(Reach(partial, m, key, K[p]), V[p], b)
      /\ ~ w.done /\ k # <<>> /\ c \in DOMAIN T.nodes[p].children => Len(K[p]) = m
  BY Zenon DEF FindPath
<1>3. CASE w.done \/ w.key = <<>> \/ c \notin DOMAIN T.nodes[w.node].children
  <2>1. x = [w EXCEPT !.done = TRUE]
    BY <1>3, Zenon DEF FindStep
  <2>2. /\ x.node = w.node /\ x.key = w.key /\ x.blocks = w.blocks /\ x.partial = w.partial
        /\ x.done = TRUE
    BY <1>1, <2>1, Zenon
  <2> HIDE DEF x
  <2> QED BY <2>2, Zenon DEF FindPath, x
<1>4. CASE ~ (w.done \/ w.key = <<>> \/ c \notin DOMAIN T.nodes[w.node].children)
  <2> DEFINE id == T.nodes[p].children[c]
             n == T.nodes[id]
             shared == SharedPrefix(n.key, k)
             ends == Len(w.key) = shared /\ ~ w.partial
             part == Take(n.blocks, shared)
             more == b \o part
             next == IF ends THEN w.node ELSE id
             rest == Skip(k, shared)
             U == UpdateAccessTime(T, id)
             strays == w.strayed \/ (/\ shared < Len(n.key) /\ shared < Len(k)
                                     /\ k[shared + 1] \in DOMAIN n.children)
  <2>1. x = [w EXCEPT !.trie = U, !.blocks = more, !.key = rest, !.node = next,
                      !.strayed = strays, !.done = ends]
    BY <1>4, Zenon DEF FindStep
  <2>2. /\ x.trie = U /\ x.node = next /\ x.key = rest /\ x.blocks = more
        /\ x.partial = partial /\ x.strayed = strays /\ x.done = ends
    <3>1. w.partial = partial
      BY <1>2
    <3> HIDE DEF U, more, rest, next, strays, ends, x
    <3> QED BY <1>1, <2>1, <3>1, Zenon
  <2>3. /\ id \in NonRoot(T) /\ id \in DOMAIN T.nodes /\ n.blocks \in Seq(B)
        /\ Len(n.blocks) = Len(n.key) /\ n.parent = p
        /\ shared \in 1..Len(n.key) /\ shared \in 1..Len(k) /\ SameTo(shared, n.key, k)
    <3>1. /\ p \in DOMAIN T.nodes /\ k \in Seq(C) /\ k # <<>>
          /\ Head(k) \in DOMAIN T.nodes[p].children /\ TrieOK(T, ext, C, B)
      BY <1>1, <1>4
    <3> HIDE DEF T, p, k
    <3>2. /\ id \in NonRoot(T) /\ id \in DOMAIN T.nodes /\ n.blocks \in Seq(B)
          /\ Len(n.blocks) = Len(n.key)
      <4>1. id \in NonRoot(T)
        BY ONLY <3>1, ChildIs
      <4>2. StoreOK(T, C, B) /\ id \in DOMAIN T.nodes
        BY ONLY <3>1, <4>1 DEF TrieOK, NonRoot
      <4> HIDE DEF id
      <4> QED BY ONLY <4>1, <4>2, NodeIs
    <3>5. shared \in 1..Len(n.key) /\ shared \in 1..Len(k)
      BY ONLY <3>1, ChildIs
    <3>3. n.parent = p
      BY ONLY <3>1, ChildIs
    <3>4. SameTo(shared, n.key, k)
      BY ONLY <3>1, ChildIs
    <3> QED BY ONLY <3>2, <3>3, <3>4, <3>5
  <2>4. StoreOK(T, C, B) /\ LinksOK(T) /\ PathsOK(T, K, V, C, B)
    <3>1. SameNodes(S, T)
      BY <1>1, Zenon DEF Touched, SameNodes
    <3> QED BY <1>1, <3>1, SamePaths, Zenon DEF TrieOK
  <2>5. Head(n.key) = c
    <3>1. p \in DOMAIN T.nodes /\ c \in DOMAIN T.nodes[p].children
      BY <1>1, <1>4
    <3> HIDE DEF T, p, c
    <3> QED BY ONLY <2>4, <3>1 DEF LinksOK, id, n
  <2>u. /\ ~ (/\ shared < Len(n.key) /\ shared < Len(k)
              /\ k[shared + 1] \in DOMAIN n.children)
        /\ U.nodes[id].children = n.children
    <3>1. ~ strays
      <4> HIDE DEF strays
      <4> QED BY <2>2
    <3>2. Alike(T.nodes[id], U.nodes[id])
      <4>1. StoreOK(T, C, B) /\ id \in DOMAIN T.nodes
        BY <2>3, <2>4
      <4> HIDE DEF T, id
      <4> QED BY <4>1, TouchNodes
    <3>3. U.nodes[id].children = n.children
      BY <3>2 DEF Alike
    <3> QED BY <3>1, <3>3
  <2> HIDE DEF T, x, p, id, n, shared, U, strays
  <2>6. /\ Len(K[p]) \in Nat /\ Len(K[id]) \in Nat /\ Len(K[p]) < Len(K[id])
        /\ K[id][Len(K[p]) + 1] = c
    BY <2>3, <2>4, <2>5, PathStep DEF n
  <2>7. K[id] \in Seq(C) /\ K[p] \in Seq(C) /\ V[id] \in Seq(B) /\ V[p] \in Seq(B)
        /\ Len(V[p]) = Len(K[p]) /\ Joined(K[id], K[p], n.key) /\ Joined(V[id], V[p], n.blocks)
        /\ n.key \in Seq(C)
    <3>1. Joined(K[id], K[p], n.key) /\ Joined(V[id], V[p], n.blocks)
      BY <2>3, <2>4 DEF PathsOK, n
    <3>2. n.key \in Seq(C)
      BY <2>3, <2>4, NodeIs DEF n
    <3> QED BY <1>1, <2>3, <2>4, <3>1, <3>2 DEF PathsOK
  <2>8. m \in Nat /\ m < Len(key) /\ Len(key) \in Nat /\ key[m + 1] = c /\ Len(k) = Len(key) - m
    <3>1. Len(key) \in Nat /\ m \in 0..Len(key)
      BY <1>2, LenProperties
    <3>2. k # <<>> /\ Len(k) = Len(key) - m
      BY <1>2, <1>4, CutList
    <3>3. m # Len(key)
      <4>1. Len(k) \in Nat \ {0}
        BY <1>1, <3>2
      <4> HIDE DEF k, m
      <4> QED BY ONLY <3>1, <3>2, <4>1
    <3>4. m < Len(key)
      <4> HIDE DEF m
      <4> QED BY ONLY <3>1, <3>3
    <3>5. Head(Skip(key, m)) = key[m + 1]
      <4> HIDE DEF m
      <4> QED BY ONLY <3>1, <3>4, key \in Seq(C), CutList
    <3>6. c = key[m + 1]
      BY <1>2, <3>5
    <3> HIDE DEF m, c, k
    <3> QED BY ONLY <3>1, <3>2, <3>4, <3>6
  <2>9. Len(K[p]) = m /\ Reach(partial, m, key, K[p]) = m
    <3>1. ~ w.done /\ k # <<>> /\ c \in DOMAIN T.nodes[p].children
      BY <1>4, Zenon DEF p
    <3>2. Len(K[p]) = m
      BY <1>2, <3>1, Zenon
    <3> QED BY <3>2 DEF Reach
  <2>10. shared \in Nat /\ shared \in 0..Len(n.blocks) /\ shared \in 0..(Len(key) - m)
         /\ shared \in 0..Len(k)
    <3>1. Len(n.blocks) \in Nat
      BY <2>3, LenProperties
    <3> HIDE DEF m, k
    <3> QED BY ONLY <2>3, <2>8, <3>1
  <2>11. part \in Seq(B) /\ Len(part) = shared /\ SameTo(shared, n.blocks, part)
    <3> DEFINE l == n.blocks
    <3>1. l \in Seq(B) /\ shared \in 0..Len(l)
      BY <2>3, <2>10
    <3>2. part = Take(l, shared)
      OBVIOUS
    <3> HIDE DEF l, part
    <3>3. part \in Seq(B) /\ Len(part) = shared /\ \A i \in 1..shared : part[i] = l[i]
      BY ONLY <3>1, <3>2, CutElements
    <3>4. shared <= Len(l)
      BY <2>10, <3>1, LenProperties
    <3>5. SameTo(shared, l, part)
      BY ONLY <2>10, <3>3, <3>4 DEF SameTo
    <3> QED BY <3>3, <3>5 DEF l
  <2> HIDE DEF part, rest
  <2>12. more \in Seq(B) /\ Joined(more, b, part) /\ Len(more) = m + shared
    <3>1. b \in Seq(B) /\ part \in Seq(B)
      BY <1>1, <2>11
    <3> HIDE DEF b
    <3>2. more \in Seq(B) /\ Joined(more, b, part)
      BY ONLY <3>1, ConcatProperties, LenProperties DEF Joined, more
    <3>3. Len(more) = Len(b) + Len(part)
      BY ONLY <3>2 DEF Joined
    <3> QED BY <2>11, <3>2, <3>3
  <2>16. SameTo(m, K[p], key) /\ SameTo(m, V[p], b)
    BY <1>2, <2>9
  <2> HIDE DEF more, b
  <2>13. SameTo(m + shared, V[id], more)
    <3>1. Len(V[p]) = Len(b) /\ SameTo(Len(V[p]), V[p], b)
      BY <2>7, <2>9, <2>16
    <3>2. SameTo(Len(V[p]) + shared, V[id], more)
      BY ONLY <1>1, <2>3, <2>7, <2>10, <2>11, <2>12, <3>1, JoinSame
    <3> QED BY <3>1, <3>2
  <2>14. SameTo(m + shared, K[id], key)
    <3> DEFINE a == Take(key, m)
               e == Skip(key, m)
    <3>1. m \in 0..Len(key) /\ k = e
      BY <1>2
    <3> HIDE DEF m
    <3>2. a \in Seq(C) /\ e \in Seq(C) /\ Joined(key, a, e) /\ Len(a) = m /\ Begins(a, key)
      BY ONLY <3>1, key \in Seq(C), CutList, PartsJoined, TakeBegins
    <3> HIDE DEF a, e
    <3>3. SameTo(Len(K[p]), K[p], a) /\ Len(K[p]) = Len(a)
      BY <2>8, <2>9, <2>16, <3>2 DEF SameTo, Begins
    <3>4. SameTo(shared, n.key, e)
      BY <2>3, <3>1
    <3>5. SameTo(Len(K[p]) + shared, K[id], key)
      BY ONLY <2>7, <2>10, <3>2, <3>3, <3>4, key \in Seq(C), JoinSame
    <3> QED BY <2>9, <3>5
  <2>15. m + shared \in 0..Len(key) /\ rest = Skip(key, m + shared)
    <3>1. m \in 0..Len(key) /\ k = Skip(key, m)
      BY <1>2
    <3>2. rest = Skip(k, shared)
      BY DEF rest
    <3> HIDE DEF m, k
    <3> QED BY ONLY <2>10, <3>1, <3>2, key \in Seq(C), SkipSkip
  <2>17. CASE ends
    <3>1. x.node = p /\ x.done
      BY <2>2, <2>17 DEF p
    <3>2. m + shared = Len(key) /\ ~ partial
      <4>1. Len(k) = shared /\ ~ partial
        BY <1>2, <2>17 DEF k
      <4> HIDE DEF m, k
      <4> QED BY <2>8, <2>10, <4>1
    <3>3. Reach(partial, m + shared, key, K[p]) = m
      <4>1. ~ (m + shared < Len(key))
        <5> HIDE DEF m
        <5> QED BY <2>8, <2>10, <3>2
      <4> QED BY <2>9, <3>2, <4>1 DEF Reach
    <3>4. SameTo(m, V[p], more)
      <4>1. Len(b) = m /\ m \in Nat /\ Len(more) = m + shared /\ \A j \in 1..m : more[j] = b[j]
        <5>1. \A j \in 1..Len(b) : more[j] = b[j]
          BY <2>12 DEF Joined
        <5> QED BY <2>8, <2>12, <5>1
      <4> HIDE DEF m
      <4>2. m <= Len(more)
        BY <2>10, <4>1
      <4> QED BY <2>16, <4>1, <4>2 DEF SameTo
    <3> HIDE DEF ends, next, m
    <3> QED BY <2>2, <2>12, <2>15, <2>16, <3>1, <3>3, <3>4, Zenon DEF FindPath, x
  <2>18. CASE ~ ends
    <3>1. x.node = id
      BY <2>2, <2>18
    <3>2. partial \/ m + shared < Len(key)
      <4>1. Len(k) # shared \/ partial
        BY <1>2, <2>18 DEF k
      <4> HIDE DEF m, k
      <4> QED BY <2>8, <2>10, <4>1
    <3>3. Reach(partial, m + shared, key, K[id]) = m + shared
      BY <3>2 DEF Reach
    <3>4. ASSUME rest # <<>>, Head(rest) \in DOMAIN U.nodes[id].children
          PROVE  Len(K[id]) = m + shared
      <4>1. shared < Len(k) /\ Head(rest) = k[shared + 1]
        <5> HIDE DEF k
        <5>1. Len(k) \in Nat /\ shared \in Nat /\ shared <= Len(k)
          BY <2>3, LenProperties, <1>1
        <5>2. shared # Len(k)
          <6>1. Len(rest) = Len(k) - shared
            BY <1>1, <2>10, CutList DEF rest
          <6>2. rest \in Seq(C)
            BY <1>1, <2>10, CutList DEF rest
          <6>3. Len(rest) # 0
            BY <3>4, <6>2
          <6> QED BY <5>1, <6>1, <6>3
        <5>3. shared < Len(k)
          BY <5>1, <5>2
        <5> QED BY ONLY <1>1, <2>10, <5>1, <5>3, CutList DEF rest
      <4>2. ~ (shared < Len(n.key))
        BY <2>u, <3>4, <4>1
      <4>3. shared = Len(n.key) /\ Len(n.key) \in Nat
        BY <2>3, <2>7, <4>2, LenProperties
      <4>4. Len(K[id]) = Len(K[p]) + Len(n.key)
        BY <2>7 DEF Joined
      <4> QED BY <2>9, <4>3, <4>4
    <3> HIDE DEF ends, next, m, rest
    <3> QED BY <2>2, <2>12, <2>13, <2>14, <2>15, <3>1, <3>3, <3>4, Zenon DEF FindPath, x
  <2> QED BY <2>17, <2>18
<1> QED BY <1>3, <1>4

\* What find returns are the blocks of a path that the key begins with.
LEMMA FindPaths ==
    ASSUME NEW T, NEW ext, NEW C, NEW B, TrieOK(T, ext, C, B),
           NEW K, NEW V, PathsOK(T, K, V, C, B),
           NEW key \in Seq(C), NEW partial, ~ Find(T, key, partial).strayed
    PROVE  FindPath(Find(T, key, partial), K, V, key, partial)
<1> DEFINE n == Len(key) + 1
           size == Len(key)
           U == Tick(T)
           start == [trie |-> U, node |-> Root, key |-> key,
                     partial |-> partial, blocks |-> <<>>, strayed |-> FALSE,
                     done |-> FALSE]
           e == Find(T, key, partial)
<1>1. n \in Nat /\ size \in Nat
  BY LenProperties
<1>2. PICK f : LoopRun("find", start, n, f) /\ e = f[n]
  BY <1>1, FindDef, Zenon DEF Tick
<1>3. FindOK(start, U, ext, size, C, B)
  <2>1. TrieOK(U, ext, C, B)
    BY TickOK
  <2> HIDE DEF U
  <2>2. Root \in DOMAIN U.nodes
    BY <2>1 DEF TrieOK, StoreOK
  <2>3. Touched(U, U)
    BY Zenon DEF Touched
  <2>4. <<>> \in Seq(B) /\ Len(<<>>) + Len(key) = size
    BY <1>1
  <2>5. /\ {"trie", "node", "key", "partial", "blocks", "strayed", "done"} \subseteq DOMAIN start
        /\ start.trie = U /\ start.node = Root /\ start.key = key /\ start.blocks = <<>>
    BY Zenon
  <2> HIDE DEF start, size
  <2> QED BY <2>1, <2>2, <2>3, <2>4, <2>5, Zenon DEF FindOK
<1>4. PathsOK(U, K, V, C, B)
  <2>1. U.nodes = T.nodes
    BY TickOK
  <2>2. SameNodes(T, U)
    BY <2>1, Zenon DEF SameNodes
  <2> QED BY <2>2, SamePaths
<1>5. FindPath(start, K, V, key, partial)
  <2>1. /\ start.node = Root /\ start.key = key /\ start.blocks = <<>> /\ start.partial = partial
    BY Zenon
  <2>2. Len(<<>>) = 0 /\ 0 \in 0..Len(key) /\ key = Skip(key, 0)
    BY <1>1 DEF Skip
  <2>3. Root \in DOMAIN T.nodes
    BY DEF TrieOK, StoreOK
  <2>4. Len(K[Root]) \in Nat /\ Len(V[Root]) \in Nat /\ Len(key) \in Nat
    BY <2>3, LenProperties DEF PathsOK
  <2>5. Len(K[Root]) = 0
    BY <2>3 DEF PathsOK
  <2>6. Reach(partial, 0, key, K[Root]) = 0
    BY <2>5 DEF Reach
  <2>7. SameTo(0, K[Root], key) /\ SameTo(0, V[Root], <<>>)
    BY <2>4 DEF SameTo
  <2> HIDE DEF start
  <2> QED BY <2>1, <2>2, <2>5, <2>6, <2>7, Zenon DEF FindPath
<1> DEFINE S == {x \in {f[i] : i \in 0..n} :
                   FindOK(x, U, ext, size, C, B) /\ (x.strayed \/ FindPath(x, K, V, key, partial))}
<1> HIDE DEF n, start, e, U, size
<1>6. f[0] = start
  BY <1>1, <1>2 DEF LoopRun
<1>7. start \in S
  <2>1. 0 \in 0..n
    BY <1>1
  <2> QED BY <1>3, <1>5, <1>6, <2>1
<1>8. ASSUME NEW i \in 1..n, f[i - 1] \in S PROVE TrieStep("find", f[i - 1]) \in S
  <2>1. i \in 0..n /\ i # 0
    BY <1>1
  <2>2. f[i] = TrieStep("find", f[i - 1])
    BY <1>2, <2>1 DEF LoopRun
  <2> DEFINE w == f[i - 1]
  <2>3. FindOK(w, U, ext, size, C, B) /\ (w.strayed \/ FindPath(w, K, V, key, partial))
    BY <1>8
  <2> HIDE DEF w
  <2>4. FindOK(FindStep(w), U, ext, size, C, B)
    BY <2>3, FindStepOK
  <2>5. FindStep(w).strayed \/ FindPath(FindStep(w), K, V, key, partial)
    <3>1. CASE w.strayed
      BY ONLY <2>3, <3>1, FindStrays
    <3>2. CASE FindPath(w, K, V, key, partial) /\ ~ FindStep(w).strayed
      BY ONLY <1>4, <2>3, <3>2, FindPathStep, key \in Seq(C)
    <3> QED BY <2>3, <3>1, <3>2
  <2>6. TrieStep("find", w) = FindStep(w)
    BY DEF TrieStep
  <2> QED BY <2>1, <2>2, <2>4, <2>5, <2>6 DEF w
<1> HIDE DEF S
<1>9. \A i \in 0..n : f[i] \in S
  BY <1>1, <1>2, <1>7, <1>8, LoopKeeps
<1>10. e.strayed \/ FindPath(e, K, V, key, partial)
  BY <1>1, <1>2, <1>9 DEF S
<1> QED BY <1>10, Zenon DEF e
-----------------------------------------------------------------------------
(* What insert adds                                                        *)

\* The first j chunks of s are those of a path of K0, with block v at the end; or
\* those of the key, with its block, and more than c.
OldAt(j, s, v, K0, V0) == \E m \in DOMAIN K0 : SameTo(j, s, K0[m]) /\ v = V0[m][j]
NewAt(j, s, v, key, blocks, c) == c < j /\ SameTo(j, s, key) /\ v = blocks[j]

\* Every chunk of the paths K comes with its block from one or the other.
Drawn(K, V, K0, V0, key, blocks, c) ==
    \A i \in DOMAIN K : \A j \in 1..Len(K[i]) :
        OldAt(j, K[i], V[i][j], K0, V0) \/ NewAt(j, K[i], V[i][j], key, blocks, c)

\* insert before and after a call of insert_, with the paths K and V; N0, K0 and V0
\* are the nodes and the paths before insert, cached chunks of the key begin
\* one of them.
InsertPath(w, K, V, N0, K0, V0, key, blocks, cached) ==
    /\ Kept(K0, V0, K, V)
    /\ w.common \in 0..Len(key)
    /\ ~ w.done =>
         /\ w.key = Skip(key, w.common) /\ w.blocks = Skip(blocks, w.common)
         /\ Len(K[w.node]) = w.common /\ SameTo(w.common, K[w.node], key)
         /\ Drawn(K, V, K0, V0, key, blocks, Len(key))
         /\ Gained(N0, w.trie.nodes, <<>>)
    /\ w.done =>
         /\ cached <= w.common
         /\ Drawn(K, V, K0, V0, key, blocks, w.common)
         /\ Gained(N0, w.trie.nodes, Skip(blocks, w.common))

\* A longer list of gained blocks, when it has none.
LEMMA GainedMore ==
    ASSUME NEW N, NEW M, NEW L, NEW l, Gained(N, M, <<>>), Gained(M, L, l)
    PROVE  Gained(N, L, l)
<1>1. IsInjective(<<>>) /\ Range(<<>>) = {}
  BY DEF IsInjective, Range
<1> QED BY <1>1 DEF Gained

\* Nodes with the same blocks gain none.
LEMMA GainedNone ==
    ASSUME NEW N, NEW M, DOMAIN M = DOMAIN N, \A i \in DOMAIN N : M[i].blocks = N[i].blocks
    PROVE  Gained(N, M, <<>>)
<1>1. Range(<<>>) = {}
  BY DEF Range
<1> QED BY <1>1, SameMoved DEF Gained

\* The cases of a call of insert_.
InsertAdds(w, x) ==
    /\ ~ w.done /\ Head(w.key) \notin DOMAIN w.trie.nodes[w.node].children
    /\ Added(w.trie, x.trie, w.node, w.key, w.blocks)
    /\ x.common = w.common /\ x.done
InsertGoes(w, x, W, id, shared, C, B, ext) ==
    LET n == w.trie.nodes[id]
    IN  /\ ~ w.done
        /\ id \in NonRoot(w.trie) /\ n.parent = w.node
        /\ shared \in 1..Len(n.key) /\ shared \in 1..Len(w.key) /\ SameTo(shared, n.key, w.key)
        /\ TrieOK(W, ext, C, B) /\ SameNodes(w.trie, W) /\ W.next_id = w.trie.next_id
        /\ x.key = Skip(w.key, shared) /\ x.blocks = Skip(w.blocks, shared)
        /\ x.common = w.common + shared /\ x.done = (shared = Len(w.key))
        /\ \/ /\ Split(W, x.trie, id, shared) /\ shared < Len(n.key) /\ x.node = W.next_id
           \/ /\ x.trie = W /\ x.node = id /\ (shared = Len(w.key) \/ shared = Len(n.key))

LEMMA InsertCases ==
    ASSUME NEW w, NEW S, NEW ext, NEW size, NEW C, NEW B, InsertOK(w, S, ext, size, C, B)
    PROVE  \/ w.done /\ InsertStep(w) = w
           \/ InsertAdds(w, InsertStep(w))
           \/ \E W, id, shared : InsertGoes(w, InsertStep(w), W, id, shared, C, B, ext)
<1> DEFINE T == w.trie
           x == InsertStep(w)
           p == w.node
           k == w.key
           b == w.blocks
           c == Head(k)
           Fields == {"trie", "node", "key", "blocks", "common", "done"}
<1>1. /\ Fields \subseteq DOMAIN w /\ TrieOK(T, ext, C, B) /\ p \in DOMAIN T.nodes
      /\ k \in Seq(C) /\ b \in Seq(B) /\ Len(k) = Len(b) /\ (k = <<>> => w.done)
  BY DEF InsertOK
<1>2. StoreOK(T, C, B) /\ TrieFields \subseteq DOMAIN T /\ T.next_id \in Nat
      /\ T.next_id \notin DOMAIN T.nodes
  <2>1. StoreOK(T, C, B)
    BY <1>1, Zenon DEF TrieOK
  <2> HIDE DEF T
  <2> QED BY <2>1 DEF StoreOK
<1>3. CASE w.done
  <2>1. x = w
    BY <1>3, Zenon DEF InsertStep
  <2> QED BY <1>3, <2>1
<1>4. CASE ~ w.done /\ c \notin DOMAIN T.nodes[p].children
  <2> DEFINE U == AddNode(T, p, k, b)
  <2>1. x = [w EXCEPT !.trie = U, !.done = TRUE]
    BY <1>4, Zenon DEF InsertStep
  <2>2. Added(T, U, p, k, b)
    <3>1. NodeFields \subseteq DOMAIN T.nodes[p]
      BY <1>1, <1>2, NodeIs
    <3> HIDE DEF T, p, k, b
    <3> QED BY <1>1, <1>2, <3>1, AddIs
  <2> HIDE DEF U, x
  <2>3. x.trie = U /\ x.common = w.common /\ x.done
    BY <1>1, <2>1, Zenon DEF x
  <2>4. InsertAdds(w, x)
    BY <1>4, <2>2, <2>3, Zenon DEF InsertAdds
  <2> QED BY <2>4 DEF x
<1>5. CASE ~ w.done /\ c \in DOMAIN T.nodes[p].children
  <2> DEFINE id == T.nodes[p].children[c]
             n == T.nodes[id]
             shared == SharedPrefix(n.key, k)
             W == UpdateAccessTime(T, id)
             split == shared < Len(k) /\ shared < Len(n.key)
             U == IF split THEN SplitNode(W, id, shared) ELSE W
             next == IF split THEN T.next_id ELSE id
             key == Skip(k, shared)
             rest == Skip(b, shared)
             common == w.common + shared
             done == shared = Len(k)
  <2>1. x = [w EXCEPT !.trie = U, !.node = next, !.key = key, !.blocks = rest,
                      !.common = common, !.done = done]
    BY <1>5, Zenon DEF InsertStep
  <2>2. /\ id \in NonRoot(T) /\ id \in DOMAIN T.nodes /\ n.parent = p
        /\ shared \in 1..Len(n.key) /\ shared \in 1..Len(k) /\ SameTo(shared, n.key, k)
        /\ Len(n.key) \in Nat /\ Len(k) \in Nat
    <3>1. /\ p \in DOMAIN T.nodes /\ k \in Seq(C) /\ k # <<>>
          /\ Head(k) \in DOMAIN T.nodes[p].children /\ TrieOK(T, ext, C, B)
      BY <1>1, <1>5
    <3> HIDE DEF T, p, k
    <3>2. id \in NonRoot(T)
      BY ONLY <3>1, ChildIs
    <3>3. n.parent = p
      BY ONLY <3>1, ChildIs
    <3>4. SameTo(shared, n.key, k)
      BY ONLY <3>1, ChildIs
    <3>5. shared \in 1..Len(n.key) /\ shared \in 1..Len(k)
      BY ONLY <3>1, ChildIs
    <3>6. id \in DOMAIN T.nodes
      BY ONLY <3>2 DEF NonRoot
    <3> HIDE DEF id
    <3>7. n.key \in Seq(C)
      BY ONLY <1>2, <3>6, NodeIs
    <3>8. Len(n.key) \in Nat /\ Len(k) \in Nat
      BY ONLY <3>1, <3>7, LenProperties
    <3> QED BY ONLY <3>2, <3>3, <3>4, <3>5, <3>6, <3>8
  <2> HIDE DEF id, shared
  <2>3. TrieOK(W, ext, C, B)
    BY <1>1, <2>2, TouchOK, Zenon
  <2>4. W.next_id = T.next_id
    BY <1>2, <2>2, TouchIs, NodeIs, Zenon
  <2>5. SameNodes(T, W)
    <3>1. /\ DOMAIN W.nodes = DOMAIN T.nodes
          /\ \A i \in DOMAIN T.nodes : /\ W.nodes[i].blocks = T.nodes[i].blocks
                                       /\ W.nodes[i].key = T.nodes[i].key
                                       /\ W.nodes[i].parent = T.nodes[i].parent
      <4> HIDE DEF T
      <4> QED BY ONLY <1>2, <2>2, TouchNodes DEF Alike
    <3> HIDE DEF W
    <3> QED BY <3>1, Zenon DEF SameNodes
  <2> HIDE DEF W
  <2>6. \/ Split(W, U, id, shared) /\ shared < Len(n.key) /\ next = W.next_id
        \/ U = W /\ next = id /\ (shared = Len(k) \/ shared = Len(n.key))
    <3>1. CASE split
      <4>1. id \in NonRoot(W) /\ shared \in 1..(Len(W.nodes[id].key) - 1)
        <5>1. Len(W.nodes[id].key) = Len(n.key) /\ id \in NonRoot(W)
          BY <2>2, <2>5 DEF NonRoot, SameNodes
        <5> HIDE DEF n
        <5> QED BY <2>2, <3>1, <5>1
      <4>2. U = SplitNode(W, id, shared) /\ next = T.next_id
        BY <3>1
      <4> HIDE DEF U, next
      <4>3. Split(W, U, id, shared)
        BY <2>3, <4>1, <4>2, SplitIs
      <4> QED BY <2>4, <3>1, <4>2, <4>3
    <3>2. CASE ~ split
      <4>1. U = W /\ next = id
        BY <3>2
      <4>2. shared = Len(k) \/ shared = Len(n.key)
        <5> HIDE DEF n, k
        <5> QED BY ONLY <2>2, <3>2
      <4> QED BY <4>1, <4>2
    <3> QED BY <3>1, <3>2
  <2> HIDE DEF U, next, key, rest, common, done, x
  <2>7. /\ x.trie = U /\ x.node = next
        /\ x.key = key /\ x.blocks = rest /\ x.common = common /\ x.done = done
    BY <1>1, <2>1, Zenon
  <2>8. InsertGoes(w, x, W, id, shared, C, B, ext)
    BY <1>5, <2>2, <2>3, <2>4, <2>5, <2>6, <2>7, Zenon DEF InsertGoes, key, rest, common, done
  <2> QED BY <2>8 DEF x
<1> QED BY <1>3, <1>4, <1>5

\* A path that agrees with another one is drawn as that one is.
LEMMA OldSame ==
    ASSUME NEW j \in Nat, NEW s, NEW t, NEW v, NEW u, NEW K0, NEW V0,
           SameTo(j, s, t), v = u, OldAt(j, t, u, K0, V0)
    PROVE  OldAt(j, s, v, K0, V0)
<1>1. PICK m \in DOMAIN K0 : SameTo(j, t, K0[m]) /\ u = V0[m][j]
  BY Zenon DEF OldAt
<1>2. SameTo(j, s, K0[m])
  BY <1>1 DEF SameTo
<1> QED BY <1>1, <1>2, Zenon DEF OldAt

\* Two lists joined.
LEMMA ConcatJoined ==
    ASSUME NEW S, NEW s \in Seq(S), NEW t \in Seq(S)
    PROVE  s \o t \in Seq(S) /\ Joined(s \o t, s, t)
BY ConcatProperties, LenProperties DEF Joined

\* While nothing is added all is drawn from before.
LEMMA DrawnOld ==
    ASSUME NEW K, NEW V, NEW K0, NEW V0, NEW C, NEW key \in Seq(C), NEW blocks,
           Drawn(K, V, K0, V0, key, blocks, Len(key)),
           NEW i \in DOMAIN K, NEW j \in 1..Len(K[i])
    PROVE  OldAt(j, K[i], V[i][j], K0, V0)
<1>1. OldAt(j, K[i], V[i][j], K0, V0) \/ NewAt(j, K[i], V[i][j], key, blocks, Len(key))
  BY DEF Drawn
<1>2. ~ NewAt(j, K[i], V[i][j], key, blocks, Len(key))
  <2>1. SUFFICES ASSUME Len(key) < j, SameTo(j, K[i], key) PROVE FALSE
    BY DEF NewAt
  <2>2. j <= Len(key) /\ j \in Int /\ Len(key) \in Nat
    BY <2>1, LenProperties DEF SameTo
  <2> QED BY <2>1, <2>2
<1> QED BY <1>1, <1>2

\* insert_ comes to a node that has no child for the rest of the key: a node with
\* the rest is added.
LEMMA InsertPathAdds ==
    ASSUME NEW w, NEW S, NEW ext, NEW size, NEW C, NEW B, InsertOK(w, S, ext, size, C, B),
           NEW K, NEW V, PathsOK(w.trie, K, V, C, B),
           NEW key \in Seq(C), NEW blocks \in Seq(B), Len(blocks) = Len(key),
           NEW N0, NEW K0, NEW V0, NEW cached \in 0..Len(key), NEW n0 \in DOMAIN K0,
           SameTo(cached, K0[n0], key),
           InsertPath(w, K, V, N0, K0, V0, key, blocks, cached),
           NEW x, InsertAdds(w, x)
    PROVE  \E K2, V2 : /\ PathsOK(x.trie, K2, V2, C, B)
                       /\ InsertPath(x, K2, V2, N0, K0, V0, key, blocks, cached)
<1> DEFINE T == w.trie
           U == x.trie
           p == w.node
           q == T.next_id
           c == w.common
           k == w.key
           b == w.blocks
           a == Take(key, c)
<1>1. /\ ~ w.done /\ Head(k) \notin DOMAIN T.nodes[p].children /\ Added(T, U, p, k, b)
      /\ x.common = c /\ x.done
  BY DEF InsertAdds
<1>2. /\ TrieOK(T, ext, C, B) /\ p \in DOMAIN T.nodes
      /\ k \in Seq(C) /\ b \in Seq(B) /\ Len(k) = Len(b) /\ k # <<>>
  BY <1>1 DEF InsertOK
<1>3. StoreOK(T, C, B) /\ LinksOK(T) /\ q \in Nat /\ q \notin DOMAIN T.nodes /\ q # Root
  BY <1>2, FreshId, Zenon DEF TrieOK
<1>4. /\ Kept(K0, V0, K, V) /\ c \in 0..Len(key) /\ c \in Nat
      /\ k = Skip(key, c) /\ b = Skip(blocks, c)
      /\ Len(K[p]) = c /\ SameTo(c, K[p], key)
      /\ Drawn(K, V, K0, V0, key, blocks, Len(key))
      /\ Gained(N0, T.nodes, <<>>)
  BY <1>1 DEF InsertPath
<1>5. PathsOK(T, K, V, C, B)
  OBVIOUS
<1>a. x.trie = U
  OBVIOUS
<1> HIDE DEF T, U, p, q, c, k, b
<1>6. PICK K2, V2 : /\ PathsOK(U, K2, V2, C, B)
                    /\ PathMore(K, V, K2, V2, q, K[p] \o k, V[p] \o b)
  BY <1>1, <1>2, <1>3, <1>5, AddPaths DEF q
<1>7. Kept(K0, V0, K2, V2)
  BY <1>4, <1>6 DEF Kept, PathMore
<1>8. Len(key) \in Nat /\ cached \in Nat /\ cached <= Len(key) /\ c <= Len(key)
      /\ Len(k) = Len(key) - c /\ Len(k) \in Nat /\ Len(b) = Len(key) - c
  <2>1. Len(key) \in Nat
    BY LenProperties
  <2>2. Len(k) = Len(key) - c
    BY <1>4, CutList
  <2> QED BY <1>2, <1>4, <2>1, <2>2, LenProperties
<1>9. cached <= c
  <2>1. SUFFICES ASSUME c < cached PROVE FALSE
    BY <1>4, <1>8
  <2>2. n0 \in DOMAIN T.nodes /\ K[n0] = K0[n0]
    BY <1>4, <1>5 DEF Kept, PathsOK
  <2>3. Begins(K[p], K[n0]) /\ c < Len(K[n0]) /\ key[c + 1] = K[n0][c + 1]
    <3>1. SameTo(cached, K[n0], key) /\ Len(K[n0]) \in Nat
      BY <1>5, <2>2, LenProperties DEF PathsOK
    <3>2. c < Len(K[n0]) /\ c <= Len(K[n0])
      BY <1>4, <1>8, <2>1, <3>1 DEF SameTo
    <3>3. ASSUME NEW j \in 1..Len(K[p]) PROVE K[p][j] = K[n0][j]
      <4>1. j \in 1..c /\ j \in 1..cached
        BY <1>4, <1>8, <2>1
      <4> QED BY <1>4, <3>1, <4>1 DEF SameTo
    <3>4. c + 1 \in 1..cached
      BY <1>4, <1>8, <2>1
    <3>5. key[c + 1] = K[n0][c + 1]
      BY <3>1, <3>4 DEF SameTo
    <3> QED BY <1>4, <3>2, <3>3, <3>5 DEF Begins
  <2>4. K[n0][c + 1] \in DOMAIN T.nodes[p].children
    BY <1>2, <1>3, <1>4, <1>5, <2>2, <2>3, WayOn
  <2>5. Head(k) = key[c + 1]
    <3>1. c < Len(key)
      BY <1>4, <1>8, <2>1
    <3> QED BY <1>4, <3>1, CutList
  <2> QED BY <1>1, <2>3, <2>4, <2>5
<1>10. /\ K[p] \in Seq(C) /\ V[p] \in Seq(B) /\ Len(V[p]) = c
  BY <1>2, <1>4, <1>5 DEF PathsOK
<1>11. /\ K2[q] \in Seq(C) /\ Joined(K2[q], K[p], k) /\ Len(K2[q]) = Len(key)
       /\ Joined(V2[q], V[p], b)
  <2>1. K2[q] = K[p] \o k /\ V2[q] = V[p] \o b
    BY <1>6 DEF PathMore
  <2>2. K2[q] \in Seq(C) /\ Joined(K2[q], K[p], k)
    BY ONLY <1>2, <1>10, <2>1, ConcatJoined
  <2>3. Joined(V2[q], V[p], b)
    BY ONLY <1>2, <1>10, <2>1, ConcatJoined
  <2>4. Len(K2[q]) = Len(K[p]) + Len(k)
    BY <2>2 DEF Joined
  <2>5. Len(K2[q]) = Len(key)
    BY <1>4, <1>8, <2>4
  <2> QED BY <2>2, <2>3, <2>5
<1>12. SameTo(Len(key), K2[q], key)
  <2>1. a \in Seq(C) /\ Joined(key, a, k) /\ Len(a) = c /\ Begins(a, key)
    BY <1>4, CutList, PartsJoined, TakeBegins
  <2> HIDE DEF a
  <2>2. SameTo(Len(K[p]), K[p], a) /\ Len(K[p]) = Len(a)
    BY <1>4, <1>8, <2>1 DEF SameTo, Begins
  <2>3. SameTo(Len(k), k, k)
    BY <1>8 DEF SameTo
  <2>4. SameTo(Len(K[p]) + Len(k), K2[q], key)
    BY ONLY <1>2, <1>8, <1>10, <1>11, <2>1, <2>2, <2>3, key \in Seq(C), JoinSame
  <2> QED BY <1>4, <1>8, <2>4
<1>13. Drawn(K2, V2, K0, V0, key, blocks, c)
  <2>1. ASSUME NEW i \in DOMAIN K, NEW j \in 1..Len(K2[i])
        PROVE  OldAt(j, K2[i], V2[i][j], K0, V0)
    <3>1. K2[i] = K[i] /\ V2[i] = V[i]
      BY <1>6 DEF PathMore, Kept
    <3> QED BY <1>4, <2>1, <3>1, DrawnOld
  <2>2. ASSUME NEW j \in 1..Len(K2[q])
        PROVE  OldAt(j, K2[q], V2[q][j], K0, V0) \/ NewAt(j, K2[q], V2[q][j], key, blocks, c)
    <3>1. j \in 1..Len(key) /\ j \in Nat
      BY <1>8, <1>11
    <3>2. CASE j <= c
      <4>1. j \in 1..c /\ p \in DOMAIN K
        BY <1>2, <1>4, <1>5, <3>1, <3>2 DEF PathsOK
      <4>2. OldAt(j, K[p], V[p][j], K0, V0)
        BY <1>4, <4>1, DrawnOld
      <4>3. V2[q][j] = V[p][j]
        BY <1>10, <1>11, <4>1 DEF Joined
      <4>4. SameTo(j, K2[q], K[p])
        <5>1. \A y \in 1..j : K2[q][y] = K[p][y]
          BY <1>4, <1>11, <4>1 DEF Joined
        <5>2. j <= Len(K2[q]) /\ j <= Len(K[p])
          BY <1>4, <1>8, <1>11, <3>2, <3>1
        <5> QED BY <5>1, <5>2 DEF SameTo
      <4> QED BY <3>1, <4>2, <4>3, <4>4, OldSame
    <3>3. CASE ~ (j <= c)
      <4> DEFINE y == j - c
      <4>1. c < j /\ y \in 1..Len(b) /\ c + y = j /\ y \in 1..(Len(blocks) - c) /\ c \in 0..Len(blocks)
        BY <1>4, <1>8, <3>1, <3>3
      <4> HIDE DEF y
      <4>2. V2[q][j] = b[y]
        BY <1>10, <1>11, <4>1 DEF Joined
      <4>3. b[y] = blocks[c + y]
        BY ONLY <1>4, <4>1, blocks \in Seq(B), CutElements
      <4>4. SameTo(j, K2[q], key)
        BY <1>8, <1>12, <3>1 DEF SameTo
      <4> QED BY <4>1, <4>2, <4>3, <4>4 DEF NewAt
    <3> QED BY <3>2, <3>3
  <2>3. \A i \in DOMAIN K2 : i \in DOMAIN K \/ i = q
    BY <1>6 DEF PathMore
  <2> QED BY <2>1, <2>2, <2>3 DEF Drawn
<1>14. Gained(N0, U.nodes, b)
  <2> DEFINE N == T.nodes
             M == U.nodes
  <2>1. \A i \in DOMAIN N : N[i].blocks \in Seq(B)
    BY <1>3, NodeIs
  <2>2. DOMAIN M = DOMAIN N \cup {q} /\ M[q].blocks = b
        /\ \A i \in DOMAIN N : M[i].blocks = N[i].blocks
    <3>1. /\ DOMAIN M = DOMAIN N \cup {q} /\ \A i \in DOMAIN N : i # p => M[i] = N[i]
      BY <1>1, Zenon DEF Added, q
    <3>2. M[q] = TrieNode(k, b, T.time, p) /\ M[p].blocks = N[p].blocks
      BY <1>1, Zenon DEF Added, q
    <3>3. M[q].blocks = b
      BY <3>2, NewNode
    <3> HIDE DEF N, M
    <3> QED BY <3>1, <3>2, <3>3
  <2> HIDE DEF N, M
  <2>3. Gained(N, M, b)
    <3>1. M[q].blocks \in Seq(B)
      BY <1>2, <2>2
    <3>2. Gained(N, M, M[q].blocks)
      BY ONLY <1>3, <2>1, <2>2, <3>1, AddGained DEF N
    <3> QED BY <2>2, <3>2
  <2> QED BY <1>4, <2>3, GainedMore DEF N, M
<1>15. InsertPath(x, K2, V2, N0, K0, V0, key, blocks, cached)
  <2>1. c = x.common /\ x.trie.nodes = U.nodes
    BY <1>1, <1>a
  <2> QED BY <1>1, <1>4, <1>7, <1>9, <1>13, <1>14, <2>1 DEF InsertPath
<1> QED BY <1>6, <1>15, <1>a

\* The paths after a call of insert_ that follows or splits a child.
LEMMA GoesPaths ==
    ASSUME NEW w, NEW S, NEW ext, NEW size, NEW C, NEW B, InsertOK(w, S, ext, size, C, B),
           NEW K, NEW V, PathsOK(w.trie, K, V, C, B),
           NEW key \in Seq(C), NEW blocks \in Seq(B), Len(blocks) = Len(key),
           NEW N0, NEW K0, NEW V0, NEW cached,
           InsertPath(w, K, V, N0, K0, V0, key, blocks, cached),
           NEW x, NEW W, NEW id, NEW shared, InsertGoes(w, x, W, id, shared, C, B, ext),
           NEW d, d = w.common + shared, SameTo(d, K[id], key), Len(K[w.node]) = w.common
    PROVE  \E K2, V2 : /\ PathsOK(x.trie, K2, V2, C, B)
                       /\ Kept(K0, V0, K2, V2)
                       /\ Drawn(K2, V2, K0, V0, key, blocks, Len(key))
                       /\ Gained(N0, x.trie.nodes, <<>>)
                       /\ ~ x.done => Len(K2[x.node]) = d /\ SameTo(d, K2[x.node], key)
<1> DEFINE T == w.trie
           U == x.trie
           p == w.node
           n == T.nodes[id]
           q == W.next_id
<1>1. /\ ~ w.done
      /\ id \in NonRoot(T) /\ n.parent = p
      /\ shared \in 1..Len(n.key) /\ shared \in 1..Len(w.key)
      /\ TrieOK(W, ext, C, B) /\ SameNodes(T, W) /\ q = T.next_id
      /\ x.done = (shared = Len(w.key))
      /\ \/ /\ Split(W, U, id, shared) /\ shared < Len(n.key) /\ x.node = q
         \/ /\ U = W /\ x.node = id /\ (shared = Len(w.key) \/ shared = Len(n.key))
  BY DEF InsertGoes
<1>2. TrieOK(T, ext, C, B) /\ p \in DOMAIN T.nodes /\ w.common \in Nat
  BY DEF InsertOK
<1>3. /\ Kept(K0, V0, K, V)
      /\ Drawn(K, V, K0, V0, key, blocks, Len(key))
      /\ Gained(N0, T.nodes, <<>>)
  BY <1>1 DEF InsertPath
<1>4. PathsOK(T, K, V, C, B) /\ PathsOK(W, K, V, C, B)
  BY <1>1, SamePaths
<1>5. StoreOK(T, C, B) /\ StoreOK(W, C, B) /\ LinksOK(W) /\ LinksOK(T)
      /\ q \in Nat /\ q \notin DOMAIN W.nodes /\ q # Root
  BY <1>1, <1>2, FreshId, Zenon DEF TrieOK
<1>6. /\ id \in NonRoot(W) /\ id \in DOMAIN W.nodes /\ W.nodes[id].key = n.key
      /\ W.nodes[id].parent = p /\ W.nodes[id].blocks = n.blocks
      /\ id \in DOMAIN T.nodes
  BY <1>1, Zenon DEF SameNodes, NonRoot
<1>7. n.key \in Seq(C) /\ n.blocks \in Seq(B) /\ Len(n.key) = Len(n.blocks) /\ Len(n.key) \in Nat
  BY <1>5, <1>6, NodeIs, LenProperties
<1>8. Gained(N0, W.nodes, <<>>)
  <2> DEFINE N == T.nodes
             M == W.nodes
  <2>1. Gained(N, M, <<>>)
    <3>1. DOMAIN M = DOMAIN N /\ \A i \in DOMAIN N : M[i].blocks = N[i].blocks
      BY <1>1, Zenon DEF SameNodes
    <3> HIDE DEF N, M
    <3> QED BY <3>1, GainedNone
  <2> QED BY <1>3, <2>1, GainedMore
<1>a. x.trie = U /\ d \in Nat
  <2>1. shared \in Nat
    BY <1>1
  <2> QED BY <1>2, <2>1
<1>b. Len(K[p]) = w.common
  OBVIOUS
<1> HIDE DEF T, U, p, n, q
<1>9. CASE Split(W, U, id, shared) /\ shared < Len(n.key) /\ x.node = q
  <2>1. shared \in 1..(Len(W.nodes[id].key) - 1)
    <3>1. shared \in Nat \ {0}
      BY <1>1
    <3> QED BY <1>6, <1>7, <1>9, <3>1
  <2> DEFINE e == Len(K[W.nodes[id].parent]) + shared
  <2>2. e = d
    BY <1>6, <1>b
  <2>3. e \in 0..Len(K[id]) /\ \E K2, V2 : /\ PathsOK(U, K2, V2, C, B)
                    /\ PathMore(K, V, K2, V2, W.next_id, Take(K[id], e), Take(V[id], e))
    BY ONLY <1>4, <1>5, <1>6, <1>9, <2>1, SplitPaths DEF q
  <2> HIDE DEF e
  <2>4. PICK K2, V2 : /\ PathsOK(U, K2, V2, C, B)
                      /\ PathMore(K, V, K2, V2, q, Take(K[id], d), Take(V[id], d))
    BY <2>2, <2>3 DEF q
  <2>5. d \in 0..Len(K[id]) /\ K[id] \in Seq(C) /\ V[id] \in Seq(B) /\ Len(V[id]) = Len(K[id])
        /\ Len(K[id]) \in Nat
    BY <1>4, <1>6, <2>2, <2>3, LenProperties DEF PathsOK
  <2>6. K2[q] \in Seq(C) /\ Len(K2[q]) = d /\ Begins(K2[q], K[id])
    <3>1. K2[q] = Take(K[id], d)
      BY <2>4 DEF PathMore
    <3> QED BY <2>5, <3>1, TakeBegins
  <2>7. \A j \in 1..d : V2[q][j] = V[id][j]
    <3>1. V2[q] = Take(V[id], d)
      BY <2>4 DEF PathMore
    <3>2. V[id] \in Seq(B) /\ d \in 0..Len(V[id])
      BY <2>5
    <3>3. \A j \in 1..d : Take(V[id], d)[j] = V[id][j]
      BY ONLY <3>2, CutElements
    <3> QED BY <3>1, <3>3
  <2>8. SameTo(d, K2[q], key)
    BY <2>5, <2>6 DEF SameTo, Begins
  <2>9. Kept(K0, V0, K2, V2)
    BY <1>3, <2>4 DEF Kept, PathMore
  <2>10. Drawn(K2, V2, K0, V0, key, blocks, Len(key))
    <3>1. ASSUME NEW i \in DOMAIN K, NEW j \in 1..Len(K2[i])
          PROVE  OldAt(j, K2[i], V2[i][j], K0, V0)
      <4>1. K2[i] = K[i] /\ V2[i] = V[i]
        BY <2>4 DEF PathMore, Kept
      <4> QED BY <1>3, <3>1, <4>1, DrawnOld
    <3>2. ASSUME NEW j \in 1..Len(K2[q])
          PROVE  OldAt(j, K2[q], V2[q][j], K0, V0)
      <4>1. j \in 1..d /\ j \in 1..Len(K[id]) /\ j \in Nat /\ id \in DOMAIN K
        BY <1>4, <1>6, <2>5, <2>6 DEF PathsOK
      <4>2. OldAt(j, K[id], V[id][j], K0, V0)
        BY <1>3, <4>1, DrawnOld
      <4>3. V2[q][j] = V[id][j]
        BY <2>7, <4>1
      <4>4. SameTo(j, K2[q], K[id])
        <5>1. j <= Len(K2[q]) /\ j <= Len(K[id])
          BY <2>5, <2>6, <4>1
        <5>2. \A y \in 1..j : K2[q][y] = K[id][y]
          BY <2>5, <2>6, <4>1 DEF Begins
        <5> QED BY <5>1, <5>2 DEF SameTo
      <4> QED BY <4>1, <4>2, <4>3, <4>4, OldSame
    <3>3. \A i \in DOMAIN K2 : i \in DOMAIN K \/ i = q
      BY <2>4 DEF PathMore
    <3> QED BY <3>1, <3>2, <3>3 DEF Drawn
  <2>11. Gained(N0, U.nodes, <<>>)
    <3> DEFINE N == W.nodes
               M == U.nodes
    <3>1. \A i \in DOMAIN N : N[i].blocks \in Seq(B)
      BY <1>5, NodeIs
    <3>2. /\ DOMAIN M = DOMAIN N \cup {q} /\ M[q].blocks = Take(N[id].blocks, shared)
          /\ M[id].blocks = Skip(N[id].blocks, shared)
      BY <1>9, Zenon DEF Split, q
    <3>3. ASSUME NEW i \in DOMAIN N, i # id PROVE M[i].blocks = N[i].blocks
      <4>1. CASE i = N[id].parent
        BY <1>9, <4>1, Zenon DEF Split
      <4>2. CASE i # N[id].parent
        BY <1>9, <3>3, <4>2, Zenon DEF Split
      <4> QED BY <4>1, <4>2
    <3>4. shared \in 0..Len(N[id].blocks) /\ id \in DOMAIN N \ {Root} /\ q \notin DOMAIN N
      <4>1. Len(N[id].blocks) = Len(n.key) /\ shared \in 1..Len(n.key)
        BY <1>1, <1>6, <1>7
      <4> QED BY <1>5, <1>6, <1>7, <4>1 DEF NonRoot
    <3> HIDE DEF N, M
    <3>5. Gained(N, M, <<>>)
      BY ONLY <1>5, <3>1, <3>2, <3>3, <3>4, SplitGained
    <3> QED BY <1>8, <3>5, GainedMore DEF N, M
  <2> QED BY <1>9, <1>a, <2>4, <2>6, <2>8, <2>9, <2>10, <2>11
<1>10. CASE U = W /\ x.node = id /\ (shared = Len(w.key) \/ shared = Len(n.key))
  <2>1. Len(K[id]) = Len(K[p]) + Len(n.key)
    <3>1. Len(K[id]) = Len(K[T.nodes[id].parent]) + Len(T.nodes[id].key)
      BY <1>1, <1>4 DEF PathsOK, Joined
    <3> QED BY <1>1, <3>1 DEF n
  <2>2. ~ x.done => Len(K[id]) = d
    BY <1>1, <1>10, <1>b, <2>1
  <2>3. PathsOK(x.trie, K, V, C, B) /\ Gained(N0, x.trie.nodes, <<>>)
    BY <1>4, <1>8, <1>10, <1>a
  <2> QED BY <1>3, <1>10, <2>2, <2>3
<1> QED BY <1>1, <1>9, <1>10

\* The same with what is left of the key.
LEMMA InsertPathGoes ==
    ASSUME NEW w, NEW S, NEW ext, NEW size, NEW C, NEW B, InsertOK(w, S, ext, size, C, B),
           NEW K, NEW V, PathsOK(w.trie, K, V, C, B),
           NEW key \in Seq(C), NEW blocks \in Seq(B), Len(blocks) = Len(key),
           NEW N0, NEW K0, NEW V0, NEW cached \in 0..Len(key),
           InsertPath(w, K, V, N0, K0, V0, key, blocks, cached),
           NEW x, NEW W, NEW id, NEW shared, InsertGoes(w, x, W, id, shared, C, B, ext)
    PROVE  /\ \E K2, V2 : /\ PathsOK(x.trie, K2, V2, C, B)
                          /\ InsertPath(x, K2, V2, N0, K0, V0, key, blocks, cached)
           /\ w.common < x.common
<1> DEFINE T == w.trie
           p == w.node
           n == T.nodes[id]
           c == w.common
           k == w.key
           d == c + shared
           a == Take(key, c)
<1>1. /\ ~ w.done
      /\ id \in NonRoot(T) /\ n.parent = p
      /\ shared \in 1..Len(n.key) /\ shared \in 1..Len(k) /\ SameTo(shared, n.key, k)
      /\ x.key = Skip(k, shared) /\ x.blocks = Skip(w.blocks, shared)
      /\ x.common = d /\ x.done = (shared = Len(k))
  BY DEF InsertGoes
<1>2. TrieOK(T, ext, C, B) /\ p \in DOMAIN T.nodes /\ k \in Seq(C)
  BY DEF InsertOK
<1>3. /\ c \in 0..Len(key) /\ c \in Nat
      /\ k = Skip(key, c) /\ w.blocks = Skip(blocks, c)
      /\ Len(K[p]) = c /\ SameTo(c, K[p], key)
  BY <1>1 DEF InsertPath
<1>4. Len(key) \in Nat /\ cached <= Len(key) /\ Len(k) = Len(key) - c /\ shared \in Nat
      /\ shared \in 0..(Len(key) - c) /\ shared \in 0..(Len(blocks) - c) /\ c \in 0..Len(blocks)
      /\ d \in Nat /\ d \in 0..Len(key) /\ shared # 0 /\ c < d
  <2>1. Len(key) \in Nat
    BY LenProperties
  <2>2. Len(k) = Len(key) - c
    BY <1>3, CutList
  <2>3. shared \in Nat /\ shared # 0 /\ shared <= Len(k)
    BY <1>1
  <2> HIDE DEF c, k
  <2> QED BY <1>3, <2>1, <2>2, <2>3
<1>5. StoreOK(T, C, B) /\ LinksOK(T) /\ id \in DOMAIN T.nodes /\ n.key \in Seq(C)
  <2>1. StoreOK(T, C, B) /\ LinksOK(T) /\ id \in DOMAIN T.nodes
    BY <1>1, <1>2, Zenon DEF TrieOK, NonRoot
  <2> QED BY <2>1, NodeIs
<1>6. SameTo(d, K[id], key)
  <2>1. a \in Seq(C) /\ Joined(key, a, k) /\ Len(a) = c /\ Begins(a, key)
    BY <1>3, CutList, PartsJoined, TakeBegins
  <2>2. K[id] \in Seq(C) /\ K[p] \in Seq(C) /\ Joined(K[id], K[p], n.key)
    BY <1>1, <1>2, <1>5 DEF PathsOK
  <2>3. Len(K[p]) = c
    BY <1>3
  <2> HIDE DEF a, p, c, k, n
  <2>4. SameTo(Len(K[p]), K[p], a) /\ Len(K[p]) = Len(a)
    BY <1>3, <1>4, <2>1 DEF SameTo, Begins
  <2>5. SameTo(Len(K[p]) + shared, K[id], key)
    BY ONLY <1>1, <1>2, <1>4, <1>5, <2>1, <2>2, <2>4, key \in Seq(C), JoinSame
  <2> QED BY <2>3, <2>5
<1>7. /\ x.key = Skip(key, d) /\ x.blocks = Skip(blocks, d)
  <2>1. Skip(Skip(key, c), shared) = Skip(key, d)
    <3> HIDE DEF c
    <3> QED BY ONLY <1>3, <1>4, key \in Seq(C), SkipSkip DEF d
  <2>2. Skip(Skip(blocks, c), shared) = Skip(blocks, d)
    <3> HIDE DEF c
    <3> QED BY ONLY <1>3, <1>4, blocks \in Seq(B), SkipSkip DEF d
  <2> QED BY <1>1, <1>3, <2>1, <2>2
<1>8. \E K2, V2 : /\ PathsOK(x.trie, K2, V2, C, B)
                  /\ Kept(K0, V0, K2, V2)
                  /\ Drawn(K2, V2, K0, V0, key, blocks, Len(key))
                  /\ Gained(N0, x.trie.nodes, <<>>)
                  /\ ~ x.done => Len(K2[x.node]) = d /\ SameTo(d, K2[x.node], key)
  <2>1. d = w.common + shared /\ Len(K[w.node]) = w.common
    BY <1>3
  <2> HIDE DEF d
  <2> QED BY ONLY <1>6, <2>1, GoesPaths, InsertOK(w, S, ext, size, C, B), PathsOK(w.trie, K, V, C, B),
             key \in Seq(C), blocks \in Seq(B), Len(blocks) = Len(key),
             InsertPath(w, K, V, N0, K0, V0, key, blocks, cached),
             InsertGoes(w, x, W, id, shared, C, B, ext)
<1>9. PICK K2, V2 : /\ PathsOK(x.trie, K2, V2, C, B)
                    /\ Kept(K0, V0, K2, V2)
                    /\ Drawn(K2, V2, K0, V0, key, blocks, Len(key))
                    /\ Gained(N0, x.trie.nodes, <<>>)
                    /\ ~ x.done => Len(K2[x.node]) = d /\ SameTo(d, K2[x.node], key)
  BY ONLY <1>8
<1>10. x.done => d = Len(key) /\ Skip(blocks, d) = <<>>
  <2>1. ASSUME x.done PROVE d = Len(key) /\ Skip(blocks, d) = <<>>
    <3>1. shared = Len(k)
      BY <1>1, <2>1
    <3>2. d = Len(key)
      <4> HIDE DEF c, k
      <4> QED BY <1>3, <1>4, <3>1
    <3>3. Len(Skip(blocks, d)) = 0 /\ Skip(blocks, d) \in Seq(B)
      <4> HIDE DEF d
      <4>1. d \in 0..Len(blocks)
        BY <1>4
      <4>2. Len(Skip(blocks, d)) = Len(blocks) - d /\ Skip(blocks, d) \in Seq(B)
        BY <4>1, CutList
      <4> QED BY <1>4, <3>2, <4>2
    <3> HIDE DEF d
    <3> QED BY <3>2, <3>3, EmptySeq
  <2> QED BY <2>1
<1> HIDE DEF d
<1>11. InsertPath(x, K2, V2, N0, K0, V0, key, blocks, cached)
  <2>1. x.common = d
    BY <1>1
  <2>2. CASE x.done
    BY <1>4, <1>9, <1>10, <2>1, <2>2 DEF InsertPath
  <2>3. CASE ~ x.done
    BY <1>4, <1>7, <1>9, <2>1, <2>3 DEF InsertPath
  <2> QED BY <2>2, <2>3
<1> QED BY <1>1, <1>4, <1>9, <1>11

\* insert before and after a call of insert_, with some paths.
SomePath(w, T, K0, V0, key, blocks, cached, C, B) ==
    \E K, V : PathsOK(w.trie, K, V, C, B) /\ InsertPath(w, K, V, T.nodes, K0, V0, key, blocks, cached)

\* Each call of insert_ finishes or goes on along the key.
LEMMA InsertPathStep ==
    ASSUME NEW w, NEW S, NEW ext, NEW size, NEW C, NEW B, InsertOK(w, S, ext, size, C, B),
           NEW key \in Seq(C), NEW blocks \in Seq(B), Len(blocks) = Len(key),
           NEW T, NEW K0, NEW V0, NEW cached \in 0..Len(key), NEW n0 \in DOMAIN K0,
           SameTo(cached, K0[n0], key),
           SomePath(w, T, K0, V0, key, blocks, cached, C, B)
    PROVE  /\ SomePath(InsertStep(w), T, K0, V0, key, blocks, cached, C, B)
           /\ InsertStep(w).done \/ w.common < InsertStep(w).common
<1> DEFINE x == InsertStep(w)
<1>1. PICK K, V : PathsOK(w.trie, K, V, C, B) /\ InsertPath(w, K, V, T.nodes, K0, V0, key, blocks, cached)
  BY Zenon DEF SomePath
<1>2. \/ w.done /\ x = w
      \/ InsertAdds(w, x)
      \/ \E W, id, shared : InsertGoes(w, x, W, id, shared, C, B, ext)
  BY InsertCases
<1> HIDE DEF x
<1>3. CASE w.done /\ x = w
  BY <1>3 DEF x
<1>4. CASE InsertAdds(w, x)
  <2>1. \E K2, V2 : /\ PathsOK(x.trie, K2, V2, C, B)
                    /\ InsertPath(x, K2, V2, T.nodes, K0, V0, key, blocks, cached)
    BY <1>1, <1>4, InsertPathAdds
  <2>2. x.done
    BY <1>4 DEF InsertAdds
  <2> QED BY <2>1, <2>2, Zenon DEF SomePath, x
<1>5. ASSUME NEW W, NEW id, NEW shared, InsertGoes(w, x, W, id, shared, C, B, ext)
      PROVE  SomePath(x, T, K0, V0, key, blocks, cached, C, B) /\ w.common < x.common
  <2>1. /\ \E K2, V2 : /\ PathsOK(x.trie, K2, V2, C, B)
                       /\ InsertPath(x, K2, V2, T.nodes, K0, V0, key, blocks, cached)
        /\ w.common < x.common
    BY <1>1, <1>5, InsertPathGoes
  <2> QED BY <2>1, Zenon DEF SomePath
<1> QED BY <1>2, <1>3, <1>4, <1>5 DEF x

\* What insert does: the paths after it are those before and, unless the key was
\* there, the key with its blocks; those after the common ones are stored.
LEMMA InsertPaths ==
    ASSUME NEW T, NEW ext, NEW C, NEW B, TrieOK(T, ext, C, B),
           NEW K0, NEW V0, PathsOK(T, K0, V0, C, B),
           NEW key \in Seq(C), NEW blocks \in Seq(B), key # <<>>, Len(key) = Len(blocks),
           NEW cached \in 0..Len(key), NEW n0 \in DOMAIN T.nodes, SameTo(cached, K0[n0], key)
    PROVE  /\ SomePath(Insert(T, key, blocks), T, K0, V0, key, blocks, cached, C, B)
           /\ Insert(T, key, blocks).done
<1> DEFINE n == Len(key) + 1
           size == Len(key)
           U == Tick(T)
           start == [trie |-> U, node |-> Root, key |-> key,
                     blocks |-> blocks, common |-> 0, done |-> FALSE]
           e == Insert(T, key, blocks)
<1>1. n \in Nat /\ size \in Nat
  BY LenProperties
<1>2. PICK f : LoopRun("insert", start, n, f) /\ e = f[n]
  BY ONLY <1>1, InsertDef, Zenon DEF Tick, n, start, e, U
<1>3. TrieOK(U, ext, C, B) /\ U.next_id \in Nat /\ U.nodes = T.nodes
  BY TickOK DEF TrieOK, StoreOK
<1>4. InsertOK(start, U, ext, size, C, B)
  <2>1. TrieOK(U, ext, C, B)
    BY <1>3
  <2> HIDE DEF U
  <2>2. Root \in DOMAIN U.nodes
    BY <2>1 DEF TrieOK, StoreOK
  <2>3. Extended(U, U)
    BY <1>3 DEF Extended
  <2>4. 0 \in Nat /\ 0 + Len(key) = size
    BY <1>1
  <2>5. /\ {"trie", "node", "key", "blocks", "common", "done"} \subseteq DOMAIN start
        /\ start.trie = U /\ start.node = Root /\ start.key = key
        /\ start.blocks = blocks /\ start.common = 0
    BY Zenon
  <2> HIDE DEF start, size
  <2> QED BY <2>1, <2>2, <2>3, <2>4, <2>5, Zenon DEF InsertOK
<1>5. SomePath(start, T, K0, V0, key, blocks, cached, C, B) /\ start.common = 0
  <2>1. /\ start.trie = U /\ start.node = Root /\ start.key = key
        /\ start.blocks = blocks /\ start.common = 0 /\ start.done = FALSE
    BY Zenon
  <2>2. PathsOK(U, K0, V0, C, B)
    <3>1. SameNodes(T, U)
      BY <1>3, Zenon DEF SameNodes
    <3> QED BY <3>1, SamePaths
  <2>3. Gained(T.nodes, U.nodes, <<>>)
    <3> DEFINE N == T.nodes
               M == U.nodes
    <3>1. N = M
      BY <1>3
    <3> HIDE DEF N, M
    <3>2. Gained(N, M, <<>>)
      BY <3>1, GainedNone
    <3> QED BY <3>2 DEF N, M
  <2>4. Drawn(K0, V0, K0, V0, key, blocks, Len(key))
    <3>1. ASSUME NEW i \in DOMAIN K0, NEW j \in 1..Len(K0[i])
          PROVE  OldAt(j, K0[i], V0[i][j], K0, V0)
      <4>1. SameTo(j, K0[i], K0[i])
        <5>1. Len(K0[i]) \in Nat
          BY LenProperties DEF PathsOK
        <5> QED BY <5>1 DEF SameTo
      <4> QED BY <4>1 DEF OldAt
    <3> QED BY <3>1 DEF Drawn
  <2>5. Kept(K0, V0, K0, V0)
    BY DEF Kept
  <2>6. 0 \in 0..Len(key) /\ key = Skip(key, 0) /\ blocks = Skip(blocks, 0)
    BY <1>1 DEF Skip
  <2>7. Len(K0[Root]) = 0 /\ SameTo(0, K0[Root], key)
    <3>1. Len(K0[Root]) = 0
      BY DEF PathsOK
    <3> QED BY <1>1, <3>1 DEF SameTo
  <2> HIDE DEF start, U
  <2>8. InsertPath(start, K0, V0, T.nodes, K0, V0, key, blocks, cached)
    BY <2>1, <2>3, <2>4, <2>5, <2>6, <2>7 DEF InsertPath
  <2>9. PathsOK(start.trie, K0, V0, C, B)
    BY <2>1, <2>2
  <2> QED BY <2>1, <2>8, <2>9, Zenon DEF SomePath
<1> DEFINE Good(i) == /\ InsertOK(f[i], U, ext, size, C, B)
                      /\ SomePath(f[i], T, K0, V0, key, blocks, cached, C, B)
                      /\ f[i].done \/ i <= f[i].common
           S == {i \in 0..n : Good(i)}
<1>n. n = size + 1 /\ U = Tick(T) /\ e = Insert(T, key, blocks)
  OBVIOUS
<1> HIDE DEF n, start, e, U, size
<1>6. f[0] = start
  BY <1>1, <1>2 DEF LoopRun
<1>7. 0 \in S
  <2>1. 0 \in 0..n /\ 0 <= 0
    BY <1>1
  <2> QED BY <1>4, <1>5, <1>6, <2>1
<1>8. ASSUME NEW i \in 1..n, i - 1 \in S PROVE i \in S
  <2>1. i \in 0..n /\ i # 0 /\ i \in Nat
    BY <1>1
  <2>2. f[i] = TrieStep("insert", f[i - 1])
    BY <1>2, <2>1 DEF LoopRun
  <2> DEFINE w == f[i - 1]
  <2>3. /\ InsertOK(w, U, ext, size, C, B)
        /\ SomePath(w, T, K0, V0, key, blocks, cached, C, B)
        /\ w.done \/ i - 1 <= w.common
    BY <1>8
  <2>4. f[i] = InsertStep(w)
    BY <2>2 DEF TrieStep
  <2> HIDE DEF w, Good
  <2>5. InsertOK(f[i], U, ext, size, C, B)
    BY <1>3, <2>3, <2>4, InsertStepOK
  <2>6. n0 \in DOMAIN K0
    BY DEF PathsOK
  <2>7. /\ SomePath(f[i], T, K0, V0, key, blocks, cached, C, B)
        /\ f[i].done \/ w.common < f[i].common
    BY <2>3, <2>4, <2>6, InsertPathStep
  <2>8. f[i].done \/ i <= f[i].common
    <3>1. w.common \in Nat /\ f[i].common \in Nat
      BY <2>3, <2>5 DEF InsertOK
    <3>2. CASE w.done
      BY <2>4, <3>2 DEF InsertStep
    <3>3. CASE ~ w.done
      BY <2>1, <2>3, <2>7, <3>1, <3>3
    <3> QED BY <3>2, <3>3
  <2> QED BY <2>1, <2>5, <2>7, <2>8 DEF Good
<1> HIDE DEF S
<1>9. 0..n \subseteq S
  BY <1>1, <1>7, <1>8, IntervalInduction
<1>10. Good(n)
  BY <1>1, <1>9 DEF S
<1>11. f[n].common \in Nat /\ f[n].common <= size
  <2>1. f[n].common \in Nat /\ f[n].common + Len(f[n].key) = size /\ f[n].key \in Seq(C)
    BY <1>10 DEF InsertOK
  <2>2. Len(f[n].key) \in Nat
    BY <2>1, LenProperties
  <2> QED BY <1>1, <2>1, <2>2
<1>12. f[n].done
  BY <1>1, <1>n, <1>10, <1>11
<1> QED BY <1>2, <1>10, <1>12, <1>n
-----------------------------------------------------------------------------
(* Who owns the blocks                                                     *)

\* The blocks of an allocation that did not come from the cache.
Own(a) == Skip(a.blocks, a.cached)

\* The nodes N, the free list f and the allocations of h own every block once.
Ledger(N, f, h) ==
    /\ Owned(N)
    /\ IsInjective(f) /\ Range(f) \cap Stored(N) = {}
    /\ \A r \in HoldingIn(h) :
         /\ IsInjective(Own(h[r]))
         /\ Range(Own(h[r])) \cap Range(f) = {} /\ Range(Own(h[r])) \cap Stored(N) = {}
    /\ \A r, s \in HoldingIn(h) : r # s => Range(Own(h[r])) \cap Range(Own(h[s])) = {}
    /\ \A b \in Blocks :
         b \in Range(f) \/ b \in Stored(N) \/ \E r \in HoldingIn(h) : b \in Range(Own(h[r]))

\* Nodes with the same blocks.
LEMMA LedgerSame ==
    ASSUME NEW N, NEW M, NEW f, NEW h, Ledger(N, f, h), DOMAIN M = DOMAIN N,
           \A i \in DOMAIN N : M[i].blocks = N[i].blocks
    PROVE  Ledger(M, f, h)
<1>1. Owned(M) /\ Stored(M) = Stored(N)
  BY SameMoved DEF Ledger
<1> QED BY <1>1 DEF Ledger

\* Evicted blocks are added to the free list.
LEMMA LedgerEvict ==
    ASSUME NEW N, NEW M, NEW f \in Seq(Blocks), NEW h, Ledger(N, f, h),
           NEW l \in Seq(Blocks), Moved(N, M, l)
    PROVE  Ledger(M, f \o l, h)
<1>1. /\ Owned(M) /\ IsInjective(l) /\ Range(l) \cap Stored(M) = {}
      /\ Stored(N) = Stored(M) \cup Range(l)
  BY DEF Ledger, Moved
<1>2. Range(f \o l) = Range(f) \cup Range(l)
  BY ListJoin
<1>3. IsInjective(f) /\ Range(f) \cap Stored(N) = {}
  BY DEF Ledger
<1>4. IsInjective(f \o l)
  <2>1. Range(f) \cap Range(l) = {}
    BY <1>1, <1>3
  <2> QED BY <1>1, <1>3, <2>1, ListJoin
<1> DEFINE g == f \o l
<1> HIDE DEF g
<1>5. Range(g) = Range(f) \cup Range(l) /\ IsInjective(g)
  BY <1>2, <1>4 DEF g
<1>6. Ledger(M, g, h)
  <2>1. Range(g) \cap Stored(M) = {}
    BY <1>1, <1>3, <1>5
  <2>2. ASSUME NEW r \in HoldingIn(h)
        PROVE  /\ IsInjective(Own(h[r]))
               /\ Range(Own(h[r])) \cap Range(g) = {} /\ Range(Own(h[r])) \cap Stored(M) = {}
    <3>1. /\ IsInjective(Own(h[r]))
          /\ Range(Own(h[r])) \cap Range(f) = {} /\ Range(Own(h[r])) \cap Stored(N) = {}
      BY DEF Ledger
    <3> QED BY <1>1, <1>5, <3>1
  <2>3. \A b \in Blocks :
         b \in Range(g) \/ b \in Stored(M) \/ \E r \in HoldingIn(h) : b \in Range(Own(h[r]))
    BY <1>1, <1>5 DEF Ledger
  <2>4. \A r, s \in HoldingIn(h) : r # s => Range(Own(h[r])) \cap Range(Own(h[s])) = {}
    BY DEF Ledger
  <2> QED BY <1>1, <1>5, <2>1, <2>2, <2>3, <2>4 DEF Ledger
<1> QED BY <1>6 DEF g

\* The last blocks of the free list go to a new allocation.
LEMMA LedgerTake ==
    ASSUME NEW N, NEW f \in Seq(Blocks), NEW h, Ledger(N, f, h), NEW n \in 0..Len(f),
           NEW r \in Requests, DOMAIN h = Requests, h[r] = NoAllocation, NEW a, a # NoAllocation,
           Own(a) = Skip(f, n), NEW g, g = [h EXCEPT ![r] = a]
    PROVE  Ledger(N, Take(f, n), g)
<1> DEFINE t == Take(f, n)
<1>1. /\ Range(f) = Range(t) \cup Range(Own(a)) /\ IsInjective(f)
      /\ IsInjective(t) /\ IsInjective(Own(a)) /\ Range(t) \cap Range(Own(a)) = {}
  <2>1. IsInjective(f)
    BY DEF Ledger
  <2> QED BY <2>1, CutRange
<1>2. /\ HoldingIn(g) = HoldingIn(h) \cup {r} /\ r \notin HoldingIn(h) /\ g[r] = a
      /\ \A s \in HoldingIn(h) : g[s] = h[s]
  <2>1. g[r] = a /\ \A s \in Requests : s # r => g[s] = h[s]
    OBVIOUS
  <2>2. r \notin HoldingIn(h)
    BY DEF HoldingIn
  <2> QED BY <2>1, <2>2 DEF HoldingIn
<1> HIDE DEF t
<1>3. Owned(N) /\ Range(f) \cap Stored(N) = {}
  BY DEF Ledger
<1>4. Range(t) \cap Stored(N) = {} /\ Range(Own(a)) \cap Stored(N) = {}
  BY <1>1, <1>3
<1>5. ASSUME NEW s \in HoldingIn(g)
      PROVE  /\ IsInjective(Own(g[s]))
             /\ Range(Own(g[s])) \cap Range(t) = {} /\ Range(Own(g[s])) \cap Stored(N) = {}
  <2>1. CASE s = r
    <3>1. g[s] = a
      BY <1>2, <2>1
    <3> QED BY <1>1, <1>4, <3>1
  <2>2. CASE s # r
    <3>1. s \in HoldingIn(h) /\ g[s] = h[s]
      BY <1>2, <2>2
    <3>2. /\ IsInjective(Own(h[s]))
          /\ Range(Own(h[s])) \cap Range(f) = {} /\ Range(Own(h[s])) \cap Stored(N) = {}
      BY <3>1 DEF Ledger
    <3> QED BY <1>1, <3>1, <3>2
  <2> QED BY <2>1, <2>2
<1>6. ASSUME NEW s \in HoldingIn(h) PROVE Range(Own(a)) \cap Range(Own(h[s])) = {}
  <2>1. Range(Own(h[s])) \cap Range(f) = {}
    BY DEF Ledger
  <2> QED BY <1>1, <2>1
<1>7. ASSUME NEW s \in HoldingIn(g), NEW u \in HoldingIn(g), s # u
      PROVE  Range(Own(g[s])) \cap Range(Own(g[u])) = {}
  <2>1. CASE s = r
    <3>1. u \in HoldingIn(h) /\ g[u] = h[u] /\ g[s] = a
      BY <1>2, <1>7, <2>1
    <3> QED BY <1>6, <3>1
  <2>2. CASE u = r
    <3>1. s \in HoldingIn(h) /\ g[s] = h[s] /\ g[u] = a
      BY <1>2, <1>7, <2>2
    <3>2. Range(Own(a)) \cap Range(Own(h[s])) = {}
      BY <1>6, <3>1
    <3> QED BY <3>1, <3>2
  <2>3. CASE s # r /\ u # r
    <3>1. s \in HoldingIn(h) /\ g[s] = h[s] /\ u \in HoldingIn(h) /\ g[u] = h[u]
      BY <1>2, <2>3
    <3> QED BY <1>7, <3>1 DEF Ledger
  <2> QED BY <2>1, <2>2, <2>3
<1>8. ASSUME NEW b \in Blocks
      PROVE  b \in Range(t) \/ b \in Stored(N) \/ \E s \in HoldingIn(g) : b \in Range(Own(g[s]))
  <2>1. b \in Range(f) \/ b \in Stored(N) \/ \E s \in HoldingIn(h) : b \in Range(Own(h[s]))
    BY DEF Ledger
  <2>2. CASE b \in Range(f)
    <3>1. b \in Range(t) \/ b \in Range(Own(g[r]))
      BY <1>1, <1>2, <2>2
    <3> QED BY <1>2, <3>1
  <2>3. ASSUME NEW s \in HoldingIn(h), b \in Range(Own(h[s])) PROVE b \in Range(Own(g[s])) /\ s \in HoldingIn(g)
    BY <1>2, <2>3
  <2> QED BY <2>1, <2>2, <2>3
<1>9. Ledger(N, t, g)
  BY <1>1, <1>3, <1>4, <1>5, <1>7, <1>8 DEF Ledger
<1> QED BY <1>9 DEF t

\* Three lists with all elements of u, each once when u has them once.
Parts(u, d, i, s) ==
    /\ Range(u) = Range(d) \cup Range(i) \cup Range(s)
    /\ IsInjective(u) => /\ IsInjective(d) /\ IsInjective(i) /\ IsInjective(s)
                         /\ Range(d) \cap Range(i) = {} /\ Range(d) \cap Range(s) = {}
                         /\ Range(i) \cap Range(s) = {}

\* An allocation ends: some of its blocks go to the nodes and the others are free.
LEMMA LedgerFree ==
    ASSUME NEW N, NEW M, NEW f \in Seq(Blocks), NEW h, Ledger(N, f, h), DOMAIN h = Requests,
           NEW r \in HoldingIn(h), NEW d \in Seq(Blocks), NEW i, NEW s \in Seq(Blocks),
           Parts(Own(h[r]), d, i, s), Gained(N, M, i),
           NEW g, g = [h EXCEPT ![r] = NoAllocation]
    PROVE  Ledger(M, f \o d \o s, g)
<1> DEFINE u == Own(h[r])
           k == f \o d \o s
<1>1. /\ IsInjective(u) /\ Range(u) \cap Range(f) = {} /\ Range(u) \cap Stored(N) = {}
      /\ Owned(N) /\ IsInjective(f) /\ Range(f) \cap Stored(N) = {}
  BY DEF Ledger
<1>2. /\ Range(u) = Range(d) \cup Range(i) \cup Range(s)
      /\ IsInjective(d) /\ IsInjective(i) /\ IsInjective(s)
      /\ Range(d) \cap Range(i) = {} /\ Range(d) \cap Range(s) = {} /\ Range(i) \cap Range(s) = {}
  BY <1>1 DEF Parts
<1> HIDE DEF u
<1>3. Owned(M) /\ Stored(M) = Stored(N) \cup Range(i)
  <2>1. Range(i) \cap Stored(N) = {}
    BY <1>1, <1>2
  <2> QED BY <1>1, <1>2, <2>1 DEF Gained
<1>4. Range(k) = Range(f) \cup Range(d) \cup Range(s) /\ IsInjective(k)
  <2> DEFINE e == f \o d
  <2>1. e \in Seq(Blocks) /\ Range(e) = Range(f) \cup Range(d)
    BY ListJoin
  <2>2. IsInjective(e)
    <3>1. Range(f) \cap Range(d) = {}
      BY <1>1, <1>2
    <3> QED BY <1>1, <1>2, <3>1, ListJoin
  <2> HIDE DEF e
  <2>3. Range(e \o s) = Range(e) \cup Range(s)
    BY <2>1, ListJoin
  <2>4. Range(e) \cap Range(s) = {}
    BY <1>1, <1>2, <2>1
  <2>5. IsInjective(e \o s)
    BY <1>2, <2>1, <2>2, <2>4, ListJoin
  <2> QED BY <2>1, <2>3, <2>5 DEF e
<1>5. /\ HoldingIn(g) = HoldingIn(h) \ {r}
      /\ \A x \in HoldingIn(g) : g[x] = h[x]
  <2>1. r \in Requests /\ g[r] = NoAllocation /\ \A x \in Requests : x # r => g[x] = h[x]
    BY DEF HoldingIn
  <2> QED BY <2>1 DEF HoldingIn
<1> HIDE DEF k
<1>6. Range(k) \cap Stored(M) = {}
  BY <1>1, <1>2, <1>3, <1>4
<1>7. ASSUME NEW x \in HoldingIn(g)
      PROVE  /\ IsInjective(Own(g[x]))
             /\ Range(Own(g[x])) \cap Range(k) = {} /\ Range(Own(g[x])) \cap Stored(M) = {}
  <2>1. x \in HoldingIn(h) /\ x # r /\ g[x] = h[x]
    BY <1>5
  <2>2. /\ IsInjective(Own(h[x])) /\ Range(Own(h[x])) \cap Range(f) = {}
        /\ Range(Own(h[x])) \cap Stored(N) = {} /\ Range(Own(h[x])) \cap Range(u) = {}
    BY <2>1 DEF Ledger, u
  <2> QED BY <1>2, <1>3, <1>4, <2>1, <2>2
<1>8. \A x, y \in HoldingIn(g) : x # y => Range(Own(g[x])) \cap Range(Own(g[y])) = {}
  <2>1. ASSUME NEW x \in HoldingIn(g), NEW y \in HoldingIn(g), x # y
        PROVE  Range(Own(g[x])) \cap Range(Own(g[y])) = {}
    <3>1. x \in HoldingIn(h) /\ y \in HoldingIn(h) /\ g[x] = h[x] /\ g[y] = h[y]
      BY <1>5
    <3> QED BY <2>1, <3>1 DEF Ledger
  <2> QED BY <2>1
<1>9. ASSUME NEW b \in Blocks
      PROVE  b \in Range(k) \/ b \in Stored(M) \/ \E x \in HoldingIn(g) : b \in Range(Own(g[x]))
  <2>1. b \in Range(f) \/ b \in Stored(N) \/ \E x \in HoldingIn(h) : b \in Range(Own(h[x]))
    BY DEF Ledger
  <2>2. CASE b \in Range(f) \/ b \in Stored(N)
    BY <1>3, <1>4, <2>2
  <2>3. ASSUME NEW x \in HoldingIn(h), b \in Range(Own(h[x]))
        PROVE  b \in Range(k) \/ b \in Stored(M) \/ \E y \in HoldingIn(g) : b \in Range(Own(g[y]))
    <3>1. CASE x = r
      <4>1. b \in Range(u)
        BY <2>3, <3>1 DEF u
      <4> QED BY <1>2, <1>3, <1>4, <4>1
    <3>2. CASE x # r
      <4>1. x \in HoldingIn(g) /\ g[x] = h[x]
        BY <1>5, <3>2
      <4> QED BY <2>3, <4>1
    <3> QED BY <3>1, <3>2
  <2> QED BY <2>1, <2>2, <2>3
<1>10. Ledger(M, k, g)
  BY <1>3, <1>4, <1>6, <1>7, <1>8, <1>9 DEF Ledger
<1> QED BY <1>10 DEF k

\* The part of an allocation's own blocks up to common, to the end of the key, and after it.
LEMMA OwnParts ==
    ASSUME NEW B, NEW s \in Seq(B), NEW n \in 0..Len(s), NEW cached \in 0..n, NEW c \in cached..n
    PROVE  LET d == IF c > cached THEN SubSeq(s, cached + 1, c) ELSE <<>>
           IN  /\ d \in Seq(B)
               /\ Parts(Skip(s, cached), d, Skip(Take(s, n), c), Skip(s, n))
<1> DEFINE L == Len(s)
           u == Skip(s, cached)
           m == c - cached
           t == Take(u, m)
           v == Skip(u, m)
           d == IF c > cached THEN SubSeq(s, cached + 1, c) ELSE <<>>
           i == Skip(Take(s, n), c)
           r == Skip(s, n)
<1>1. /\ L \in Nat /\ n \in Nat /\ cached \in Nat /\ c \in Nat /\ m \in Nat
      /\ cached <= c /\ c <= n /\ n <= L /\ cached \in 0..L /\ c \in 0..L /\ c = cached + m
  BY LenProperties
<1>2. u \in Seq(B) /\ Len(u) = L - cached /\ \A j \in 1..(L - cached) : u[j] = s[cached + j]
  BY <1>1, CutElements
<1>3. m \in 0..Len(u)
  <2> HIDE DEF u, L, m
  <2> QED BY <1>1, <1>2
<1>4. t \in Seq(B) /\ Len(t) = m /\ \A j \in 1..m : t[j] = u[j]
  <2> HIDE DEF u, m
  <2> QED BY <1>2, <1>3, CutElements
<1>5. v = Skip(s, c)
  <2>1. m \in 0..(Len(s) - cached) /\ cached \in 0..Len(s)
    <3> HIDE DEF m
    <3> QED BY <1>1 DEF L
  <2>2. cached + m = c
    BY <1>1
  <2> HIDE DEF m
  <2>3. Skip(Skip(s, cached), m) = Skip(s, cached + m)
    BY <2>1, SkipSkip
  <2> QED BY <2>2, <2>3
<1>6. d = t
  <2>1. CASE c > cached
    <3> DEFINE e == SubSeq(s, cached + 1, c)
    <3>1. e \in Seq(B) /\ Len(e) = m /\ \A j \in 1..m : e[j] = s[cached + j]
      <4>1. cached + 1 \in 1..L /\ c \in 1..L /\ cached + 1 \in 1..(L + 1) /\ c - (cached + 1) + 1 = m
        BY <1>1, <2>1
      <4>2. e \in Seq(B)
        BY <1>1, <2>1, <4>1, SubSeqProperties DEF L
      <4>3. Len(e) = m
        BY <1>1, <2>1, <4>1, SubSeqProperties DEF L
      <4>4. \A j \in 1..m : e[j] = s[cached + j]
        <5>1. ASSUME NEW j \in 1..m PROVE e[j] = s[cached + 1 + j - 1] /\ cached + 1 + j - 1 = cached + j
          BY <1>1, <2>1, <4>1, <4>3, SubSeqProperties DEF L
        <5> QED BY <5>1
      <4> QED BY <4>2, <4>3, <4>4
    <3> HIDE DEF e
    <3>2. ASSUME NEW j \in 1..Len(e) PROVE e[j] = t[j]
      <4>1. j \in 1..m /\ j \in 1..(L - cached)
        <5> HIDE DEF m, L
        <5> QED BY <1>1, <3>1
      <4> HIDE DEF t, u, m, L
      <4> QED BY <1>2, <1>4, <3>1, <4>1
    <3>3. e = t
      <4> HIDE DEF t, m
      <4> QED BY <1>4, <3>1, <3>2, SeqEqual
    <3> QED BY <2>1, <3>3 DEF e
  <2>2. CASE ~ (c > cached)
    <3>1. m = 0 /\ d = <<>>
      BY <1>1, <2>2
    <3> HIDE DEF m, t
    <3> QED BY <1>4, <3>1, EmptySeq
  <2> QED BY <2>1, <2>2
<1>7. v \in Seq(B) /\ Len(v) = L - c
  BY <1>1, <1>5, CutList
<1> DEFINE k == n - c
<1>8. k \in Nat /\ k \in 0..Len(v) /\ k \in 0..(Len(s) - c) /\ c + k = n
  <2> HIDE DEF v
  <2> QED BY <1>1, <1>7
<1>9. r = Skip(v, k)
  <2> HIDE DEF k, v
  <2>1. Skip(Skip(s, c), k) = Skip(s, c + k)
    BY <1>1, <1>8, SkipSkip
  <2> QED BY <1>5, <1>8, <2>1
<1>10. i = Take(v, k)
  <2> DEFINE a == Take(s, n)
             e == Skip(s, c)
             z == Take(e, k)
  <2>1. a \in Seq(B) /\ Len(a) = n /\ \A j \in 1..n : a[j] = s[j]
    BY CutElements
  <2>2. e \in Seq(B) /\ Len(e) = L - c /\ \A j \in 1..(L - c) : e[j] = s[c + j]
    BY <1>1, CutElements
  <2>3. c \in 0..Len(a) /\ k \in 0..Len(e)
    <3> HIDE DEF a, e
    <3> QED BY <1>1, <1>8, <2>1, <2>2
  <2>4. i \in Seq(B) /\ Len(i) = Len(a) - c /\ \A j \in 1..(Len(a) - c) : i[j] = a[c + j]
    <3>1. i = Skip(a, c)
      OBVIOUS
    <3> HIDE DEF a, i
    <3> QED BY <2>1, <2>3, <3>1, CutElements
  <2>5. z \in Seq(B) /\ Len(z) = k /\ \A j \in 1..k : z[j] = e[j]
    <3> HIDE DEF e, k
    <3> QED BY <2>2, <2>3, CutElements
  <2> HIDE DEF i, a, e, z
  <2>6. Len(i) = k /\ Len(z) = k
    BY <2>1, <2>4, <2>5
  <2>7. ASSUME NEW j \in 1..k PROVE i[j] = z[j]
    <3>1. j \in 1..(Len(a) - c) /\ c + j \in 1..n /\ j \in 1..(L - c)
      BY <1>1, <2>1
    <3> HIDE DEF k, L
    <3> QED BY <2>1, <2>2, <2>4, <2>5, <3>1
  <2>8. i = z
    <3> HIDE DEF k
    <3> QED BY <2>4, <2>5, <2>6, <2>7, SeqEqual
  <2> QED BY <1>5, <2>8 DEF z, e
<1> HIDE DEF L, u, m, t, v, d, i, r, k
<1>11. /\ Range(u) = Range(t) \cup Range(v)
       /\ IsInjective(u) => /\ IsInjective(t) /\ IsInjective(v) /\ Range(t) \cap Range(v) = {}
  BY ONLY <1>2, <1>3, CutRange DEF t, v
<1>12. /\ Range(v) = Range(i) \cup Range(r)
       /\ IsInjective(v) => /\ IsInjective(i) /\ IsInjective(r) /\ Range(i) \cap Range(r) = {}
  BY ONLY <1>7, <1>8, <1>9, <1>10, CutRange
<1>13. Parts(u, d, i, r)
  BY <1>6, <1>11, <1>12 DEF Parts
<1>14. d \in Seq(B)
  BY <1>4, <1>6
<1> QED BY <1>13, <1>14 DEF u, d, i, r
-----------------------------------------------------------------------------
(* What the cache holds                                                    *)

\* What an allocation references is the beginning of the path to its node.
HeldPath(a, K, V) ==
    LET n == Reach(a.partial, a.cached, a.key, K[a.prefix_node])
    IN  SameTo(n, K[a.prefix_node], a.key) /\ SameTo(n, V[a.prefix_node], a.blocks)

\* With memory m: a block of a path was computed for the path up to it, unless it
\* is in u.
Right(m, u, K, V) ==
    \A i \in DOMAIN K : \A j \in 1..Len(K[i]) : V[i][j] \notin u => m[V[i][j]] = Take(K[i], j)

\* After its prefill the own blocks of an allocation are those of its prompt.
RightHeld(a, m) ==
    a.prefilled => \A j \in (a.cached + 1)..Len(a.key) : m[a.blocks[j]] = Take(a.key, j)

\* The same for the blocks of a key after the first c chunks, unless they are in u.
RightAfter(c, key, blocks, m, u) ==
    \A j \in 1..Len(key) : c < j /\ blocks[j] \notin u => m[blocks[j]] = Take(key, j)

CacheIs(T, h, m, u, K, V) ==
    /\ PathsOK(T, K, V, Chunks, Blocks)
    /\ Right(m, u, K, V)
    /\ \A r \in HoldingIn(h) : HeldPath(h[r], K, V) /\ RightHeld(h[r], m)

\* The invariant with what the blocks are for, and what is kept of it after a
\* lookup strayed.
CacheInv ==
    /\ AllocInv
    /\ Ledger(trie.nodes, free_blocks, held)
    /\ \E K, V : CacheIs(trie, held, kv, uncomputed, K, V)
CacheInvOK == AllocInv /\ (~ strayed => CacheInv)

\* Lists that agree have the same beginning.
LEMMA TakeSame ==
    ASSUME NEW S, NEW s \in Seq(S), NEW t \in Seq(S), NEW j \in Nat, SameTo(j, s, t)
    PROVE  Take(s, j) = Take(t, j)
<1> DEFINE a == Take(s, j)
           b == Take(t, j)
<1>1. j \in 0..Len(s) /\ j \in 0..Len(t)
  BY LenProperties DEF SameTo
<1>2. a \in Seq(S) /\ Len(a) = j /\ \A i \in 1..j : a[i] = s[i]
  BY <1>1, CutElements
<1>3. b \in Seq(S) /\ Len(b) = j /\ \A i \in 1..j : b[i] = t[i]
  BY <1>1, CutElements
<1> HIDE DEF a, b
<1>4. \A i \in 1..j : a[i] = b[i]
  BY <1>2, <1>3 DEF SameTo
<1>5. a = b
  BY <1>2, <1>3, <1>4, SeqEqual
<1> QED BY <1>5 DEF a, b

\* What begins with a list agrees with it.
LEMMA BeginsSame ==
    ASSUME NEW S, NEW s \in Seq(S), NEW t \in Seq(S), Begins(s, t), NEW j \in 0..Len(s)
    PROVE  SameTo(j, s, t)
<1>1. Len(s) \in Nat /\ Len(t) \in Nat
  BY LenProperties
<1> QED BY <1>1 DEF Begins, SameTo

\* Paths that are cut are right.
LEMMA RightCut ==
    ASSUME NEW m, NEW u, NEW S, NEW U, NEW K, NEW V, NEW K2, NEW V2, NEW C, NEW B, NEW ext,
           PathsOK(S, K, V, C, B), PathsOK(U, K2, V2, C, B), DOMAIN U.nodes \subseteq DOMAIN S.nodes,
           PathsCut(U, K, V, K2, V2, ext), Right(m, u, K, V)
    PROVE  Right(m, u, K2, V2)
<1>1. ASSUME NEW i \in DOMAIN K2
      PROVE  /\ i \in DOMAIN K /\ K[i] \in Seq(C) /\ K2[i] \in Seq(C)
             /\ Begins(K2[i], K[i]) /\ Begins(V2[i], V[i])
             /\ Len(K2[i]) \in Nat /\ Len(K[i]) \in Nat /\ Len(V2[i]) = Len(K2[i])
  <2>1. i \in DOMAIN U.nodes /\ i \in DOMAIN S.nodes /\ i \in DOMAIN K
    BY DEF PathsOK
  <2>2. K[i] \in Seq(C) /\ K2[i] \in Seq(C) /\ Len(V2[i]) = Len(K2[i])
    BY <2>1 DEF PathsOK
  <2>3. Begins(K2[i], K[i]) /\ Begins(V2[i], V[i])
    BY <2>1 DEF PathsCut
  <2> QED BY <2>1, <2>2, <2>3, LenProperties
<1>2. ASSUME NEW i \in DOMAIN K2, NEW j \in 1..Len(K2[i])
      PROVE  /\ j \in Nat /\ j \in 1..Len(K[i]) /\ K2[i][j] = K[i][j] /\ V2[i][j] = V[i][j]
             /\ Take(K2[i], j) = Take(K[i], j)
  <2>1. /\ i \in DOMAIN K /\ K[i] \in Seq(C) /\ K2[i] \in Seq(C)
        /\ Begins(K2[i], K[i]) /\ Begins(V2[i], V[i])
        /\ Len(K2[i]) \in Nat /\ Len(K[i]) \in Nat /\ Len(V2[i]) = Len(K2[i])
    BY <1>1
  <2>2. j \in Nat /\ j \in 0..Len(K2[i])
    BY <2>1
  <2>3. SameTo(j, K2[i], K[i])
    BY <2>1, <2>2, BeginsSame
  <2>4. Take(K2[i], j) = Take(K[i], j)
    BY <2>1, <2>2, <2>3, TakeSame
  <2>5. j \in 1..Len(K[i]) /\ K2[i][j] = K[i][j] /\ V2[i][j] = V[i][j]
    BY <2>1 DEF Begins
  <2> QED BY <2>2, <2>4, <2>5
<1>3. Right(m, u, K2, V2)
  <2>1. ASSUME NEW i \in DOMAIN K2, NEW j \in 1..Len(K2[i]), V2[i][j] \notin u
        PROVE  m[V2[i][j]] = Take(K2[i], j)
    <3>1. i \in DOMAIN K /\ j \in 1..Len(K[i]) /\ V2[i][j] = V[i][j] /\ Take(K2[i], j) = Take(K[i], j)
      BY <1>1, <1>2
    <3>2. m[V[i][j]] = Take(K[i], j)
      BY <2>1, <3>1 DEF Right
    <3> QED BY <3>1, <3>2
  <2> QED BY <2>1 DEF Right
<1> QED BY <1>3

\* Paths that are drawn from right ones and from a right key are right.
LEMMA RightDrawn ==
    ASSUME NEW m, NEW u, NEW u2, u \subseteq u2, NEW S, NEW U, NEW K, NEW V, NEW K2, NEW V2,
           NEW C, NEW B, PathsOK(S, K, V, C, B), PathsOK(U, K2, V2, C, B),
           NEW key \in Seq(C), NEW blocks, NEW c, Drawn(K2, V2, K, V, key, blocks, c),
           Right(m, u, K, V), RightAfter(c, key, blocks, m, u2)
    PROVE  Right(m, u2, K2, V2)
<1>1. ASSUME NEW i \in DOMAIN K2, NEW j \in 1..Len(K2[i])
      PROVE  V2[i][j] \notin u2 => m[V2[i][j]] = Take(K2[i], j)
  <2>1. OldAt(j, K2[i], V2[i][j], K, V) \/ NewAt(j, K2[i], V2[i][j], key, blocks, c)
    BY DEF Drawn
  <2>2. K2[i] \in Seq(C) /\ Len(K2[i]) \in Nat /\ j \in Nat /\ j # 0 /\ j \in 1..j
    <3>1. K2[i] \in Seq(C)
      BY DEF PathsOK
    <3>2. Len(K2[i]) \in Nat
      BY <3>1, LenProperties
    <3> QED BY <3>1, <3>2
  <2>3. CASE OldAt(j, K2[i], V2[i][j], K, V)
    <3>1. PICK n \in DOMAIN K : SameTo(j, K2[i], K[n]) /\ V2[i][j] = V[n][j]
      BY <2>3, Zenon DEF OldAt
    <3>2. K[n] \in Seq(C) /\ Len(K[n]) \in Nat
      BY LenProperties DEF PathsOK
    <3>3. Take(K2[i], j) = Take(K[n], j)
      BY <2>2, <3>1, <3>2, TakeSame
    <3>4. j \in 1..Len(K[n]) /\ K2[i][j] = K[n][j]
      BY <2>2, <3>1, <3>2 DEF SameTo
    <3>5. V[n][j] \notin u => m[V[n][j]] = Take(K[n], j)
      BY <3>4 DEF Right
    <3> QED BY <3>1, <3>3, <3>4, <3>5
  <2>4. CASE NewAt(j, K2[i], V2[i][j], key, blocks, c)
    <3>1. c < j /\ SameTo(j, K2[i], key) /\ V2[i][j] = blocks[j]
      BY <2>4 DEF NewAt
    <3>2. Len(key) \in Nat
      BY LenProperties
    <3>3. Take(K2[i], j) = Take(key, j)
      BY <2>2, <3>1, TakeSame
    <3>4. j \in 1..Len(key) /\ K2[i][j] = key[j]
      BY <2>2, <3>1, <3>2 DEF SameTo
    <3>5. blocks[j] \notin u2 => m[blocks[j]] = Take(key, j)
      BY <3>1, <3>4 DEF RightAfter
    <3> QED BY <3>1, <3>3, <3>4, <3>5
  <2> QED BY <2>1, <2>3, <2>4
<1> QED BY <1>1 DEF Right

\* The same trie but for counts and access times.
LEMMA CacheSame ==
    ASSUME NEW T, NEW U, NEW h, NEW m, NEW u, NEW K, NEW V, CacheIs(T, h, m, u, K, V), SameNodes(T, U)
    PROVE  CacheIs(U, h, m, u, K, V)
<1>1. PathsOK(U, K, V, Chunks, Blocks)
  BY SamePaths DEF CacheIs
<1> QED BY <1>1 DEF CacheIs

\* An evicting trie keeps the paths that have users.
LEMMA CacheCut ==
    ASSUME NEW S, NEW U, NEW ext, NEW h, NEW m, NEW u, NEW K, NEW V, CacheIs(S, h, m, u, K, V),
           TrieOK(S, ext, Chunks, Blocks), TrieOK(U, ext, Chunks, Blocks), Shrunk(S, U, ext),
           \A r \in HoldingIn(h) : h[r].prefix_node \in Nat /\ ext[h[r].prefix_node] > 0
    PROVE  \E K2, V2 : /\ CacheIs(U, h, m, u, K2, V2)
                       /\ \A i \in Nat : ext[i] > 0 => K2[i] = K[i] /\ V2[i] = V[i]
<1>1. /\ StoreOK(S, Chunks, Blocks) /\ LinksOK(S) /\ LinksOK(U) /\ Root \in DOMAIN U.nodes
      /\ \A i \in Nat : ext[i] > 0 => i \in DOMAIN U.nodes
  BY DEF TrieOK, StoreOK, CountsOK
<1>2. /\ PathsOK(S, K, V, Chunks, Blocks)
      /\ Right(m, u, K, V)
      /\ \A r \in HoldingIn(h) : HeldPath(h[r], K, V) /\ RightHeld(h[r], m)
  BY DEF CacheIs
<1>3. PICK K2, V2 : PathsOK(U, K2, V2, Chunks, Blocks) /\ PathsCut(U, K, V, K2, V2, ext)
  BY <1>1, <1>2, ShrunkPaths
<1>4. Right(m, u, K2, V2)
  <2>1. DOMAIN U.nodes \subseteq DOMAIN S.nodes
    BY DEF Shrunk
  <2> QED BY <1>2, <1>3, <2>1, RightCut
<1>5. \A i \in Nat : ext[i] > 0 => K2[i] = K[i] /\ V2[i] = V[i]
  BY <1>1, <1>3 DEF PathsCut
<1>6. ASSUME NEW r \in HoldingIn(h) PROVE HeldPath(h[r], K2, V2) /\ RightHeld(h[r], m)
  <2> DEFINE n == h[r].prefix_node
  <2>1. K2[n] = K[n] /\ V2[n] = V[n]
    BY <1>5
  <2> QED BY <1>2, <2>1 DEF HeldPath
<1>7. CacheIs(U, h, m, u, K2, V2)
  BY <1>3, <1>4, <1>6 DEF CacheIs
<1> QED BY <1>5, <1>7

\* What was found for a prompt: as much of the path k, with blocks v, as it may
\* rely on.
Finds(found, p, k, v) ==
    LET n == Reach(p.partial, Len(found.blocks), p.key, k)
    IN  SameTo(n, k, p.key) /\ SameTo(n, v, found.blocks)

\* allocate before it takes blocks: it holds a path that its prompt begins with.
LEMMA RoomCache ==
    ASSUME CacheInv, NEW p \in Prompts, NEW extra \in Extras,
           ~ Find(trie, p.key, p.partial).strayed
    PROVE  LET found == Find(trie, p.key, p.partial)
               needed == Len(p.key) + extra - Len(found.blocks)
               room == Reclaim(Incref(found.trie, found.node), needed)
           IN  /\ Ledger(room.trie.nodes, room.free, held)
               /\ \E K2, V2 : /\ CacheIs(room.trie, held, kv, uncomputed, K2, V2)
                              /\ Finds(found, p, K2[found.node], V2[found.node])
<1> DEFINE found == Find(trie, p.key, p.partial)
           F == found.trie
           node == found.node
           needed == Len(p.key) + extra - Len(found.blocks)
           with == Incref(F, node)
           room == Reclaim(with, needed)
           E == room.trie
           users == UsersIn(held)
           ext == More(users, node)
           key == p.key
<1>1. /\ AllocInv /\ TrieOK(trie, users, Chunks, Blocks) /\ HolderOK(held)
      /\ free_blocks \in Seq(Blocks) /\ Ledger(trie.nodes, free_blocks, held)
  BY DEF CacheInv, AllocInv
<1>2. PICK K, V : CacheIs(trie, held, kv, uncomputed, K, V)
  BY DEF CacheInv
<1>3. /\ FindOK(found, Tick(trie), users, Len(p.key), Chunks, Blocks)
      /\ key \in Seq(Chunks) /\ node \in Nat
      /\ Bumped(F, with, node)
      /\ TrieOK(E, ext, Chunks, Blocks)
      /\ \E l \in Seq(Blocks) : room.free = free_blocks \o l /\ Freed(with, E, ext, l)
  BY <1>1, RoomFor, Zenon
<1>5. FindPath(found, K, V, key, p.partial)
  <2> DEFINE partial == p.partial
  <2>1. found = Find(trie, key, partial) /\ ~ found.strayed
    OBVIOUS
  <2>2. PathsOK(trie, K, V, Chunks, Blocks)
    BY <1>2 DEF CacheIs
  <2> HIDE DEF found, key, partial, users
  <2>3. FindPath(found, K, V, key, partial)
    BY <1>1, <1>3, <2>1, <2>2, FindPaths
  <2> QED BY <2>3 DEF partial
<1>6. Finds(found, p, K[node], V[node])
  BY <1>5, Zenon DEF FindPath, Finds
<1> HIDE DEF found
<1>7. SameNodes(trie, F) /\ TrieOK(F, users, Chunks, Blocks) /\ node \in DOMAIN F.nodes
  <2>1. Touched(Tick(trie), F) /\ TrieOK(F, users, Chunks, Blocks) /\ node \in DOMAIN F.nodes
    BY <1>3, Zenon DEF FindOK
  <2>2. Tick(trie).nodes = trie.nodes
    BY <1>1, TickOK
  <2> HIDE DEF F, node, users
  <2>3. SameNodes(trie, F)
    BY <2>1, <2>2, Zenon DEF Touched, SameNodes
  <2> QED BY <2>1, <2>3
<1> HIDE DEF F, node, users, key
<1>8. SameNodes(F, with) /\ TrieOK(with, ext, Chunks, Blocks)
  <2>1. TrieOK(with, ext, Chunks, Blocks)
    BY <1>7, IncrefOK
  <2>2. SameNodes(F, with)
    <3> HIDE DEF with
    <3> QED BY <1>3, Zenon DEF Bumped, SameNodes
  <2> QED BY <2>1, <2>2
<1> HIDE DEF with, E
<1>9. CacheIs(with, held, kv, uncomputed, K, V)
  <2>1. CacheIs(F, held, kv, uncomputed, K, V)
    BY <1>2, <1>7, CacheSame
  <2> QED BY <1>8, <2>1, CacheSame
<1>10. PICK l \in Seq(Blocks) : room.free = free_blocks \o l /\ Freed(with, E, ext, l)
  BY <1>3
<1>11. Ledger(E.nodes, room.free, held)
  <2>1. Ledger(with.nodes, free_blocks, held)
    <3> DEFINE N == trie.nodes
               M == with.nodes
               G == F.nodes
    <3>1. /\ DOMAIN M = DOMAIN G /\ DOMAIN G = DOMAIN N
          /\ \A i \in DOMAIN N : G[i].blocks = N[i].blocks
          /\ \A i \in DOMAIN G : M[i].blocks = G[i].blocks
      BY <1>7, <1>8, Zenon DEF SameNodes
    <3>2. Ledger(N, free_blocks, held)
      BY <1>1
    <3> HIDE DEF N, M, G
    <3>3. Ledger(G, free_blocks, held)
      BY <3>1, <3>2, LedgerSame
    <3>4. Ledger(M, free_blocks, held)
      BY <3>1, <3>3, LedgerSame
    <3> QED BY <3>4 DEF M
  <2>2. Moved(with.nodes, E.nodes, l)
    BY <1>10 DEF Freed
  <2>3. Ledger(E.nodes, free_blocks \o l, held)
    BY <1>1, <2>1, <2>2, LedgerEvict
  <2> QED BY <1>10, <2>3
<1>12. ext[node] > 0 /\ \A r \in HoldingIn(held) : held[r].prefix_node \in Nat /\ ext[held[r].prefix_node] > 0
  <2>1. users \in [Nat -> Nat] /\ \A r \in HoldingIn(held) : users[held[r].prefix_node] > 0
    BY <1>1, UsersAre DEF users
  <2>2. ASSUME NEW r \in HoldingIn(held) PROVE held[r].prefix_node \in Nat
    BY <1>1 DEF HolderOK, HeldOK
  <2>3. ext[node] > 0 /\ ext[node] = users[node] + 1 /\ \A i \in Nat : i # node => ext[i] = users[i]
    BY <1>3, <2>1, MoreLess
  <2>4. ASSUME NEW r \in HoldingIn(held) PROVE ext[held[r].prefix_node] > 0
    <3> DEFINE n == held[r].prefix_node
    <3>1. n \in Nat /\ users[n] > 0
      BY <2>1, <2>2
    <3> HIDE DEF n, ext
    <3>2. ext[n] > 0
      <4>1. CASE n = node
        BY <2>3, <4>1
      <4>2. CASE n # node
        BY <2>3, <3>1, <4>2
      <4> QED BY <4>1, <4>2
    <3> QED BY <3>2 DEF n
  <2> QED BY <2>2, <2>3, <2>4
<1>13. PICK K2, V2 : /\ CacheIs(E, held, kv, uncomputed, K2, V2)
                     /\ \A i \in Nat : ext[i] > 0 => K2[i] = K[i] /\ V2[i] = V[i]
  <2>1. Shrunk(with, E, ext)
    BY <1>10 DEF Freed
  <2> HIDE DEF ext
  <2> QED BY <1>3, <1>8, <1>9, <1>12, <2>1, CacheCut
<1>14. Finds(found, p, K2[node], V2[node])
  BY <1>3, <1>6, <1>12, <1>13
<1> QED BY <1>11, <1>13, <1>14, Zenon DEF E, with, F, node, found

\* What is skipped of two lists.
LEMMA SkipFirst ==
    ASSUME NEW S, NEW s \in Seq(S), NEW t \in Seq(S)
    PROVE  Skip(s \o t, Len(s)) = t
<1> DEFINE a == s \o t
           L == Len(s)
           e == Skip(a, L)
<1>1. a \in Seq(S) /\ Joined(a, s, t) /\ L \in Nat /\ Len(t) \in Nat
  BY ConcatJoined, LenProperties
<1>2. Len(a) = L + Len(t) /\ \A j \in 1..Len(t) : a[L + j] = t[j]
  BY <1>1 DEF Joined
<1> HIDE DEF a, L
<1>3. L \in 0..Len(a)
  BY <1>1, <1>2
<1>4. e \in Seq(S) /\ Len(e) = Len(a) - L /\ \A j \in 1..(Len(a) - L) : e[j] = a[L + j]
  BY <1>1, <1>3, CutElements
<1> HIDE DEF e
<1>5. Len(e) = Len(t)
  BY <1>1, <1>2, <1>4
<1>6. \A j \in 1..Len(e) : e[j] = t[j]
  BY <1>1, <1>2, <1>4, <1>5
<1>7. e = t
  BY <1>4, <1>5, <1>6, SeqEqual
<1> QED BY <1>7 DEF e, a, L

\* allocate.
LEMMA AllocateCache ==
    ASSUME CacheInv, NEW r \in Requests, NEW p \in Prompts, NEW extra \in Extras,
           Allocate(r, p, extra), ~ strayed'
    PROVE  CacheInv'
<1> DEFINE found == Find(trie, p.key, p.partial)
           cached == Len(found.blocks)
           needed == Len(p.key) + extra - cached
           room == Reclaim(Incref(found.trie, found.node), needed)
           left == Len(room.free) - needed
           node == found.node
           a == [prefix_node |-> found.node, cached |-> cached,
                 key |-> p.key, partial |-> p.partial, prefilled |-> FALSE,
                 blocks |-> found.blocks \o Skip(room.free, left)]
           users == UsersIn(held)
<1>1. AllocInv /\ AllocInv' /\ DOMAIN held = Requests
  <2>1. AllocInv
    BY DEF CacheInv
  <2>2. AllocInv'
    BY <2>1, AllocateKeeps
  <2> QED BY <2>1, <2>2 DEF AllocInv, HolderOK
<1>2. /\ held[r] = NoAllocation
      /\ \/ /\ Len(room.free) >= needed
            /\ trie' = room.trie
            /\ free_blocks' = Take(room.free, left)
            /\ held' = [held EXCEPT ![r] = a]
         \/ /\ Len(room.free) < needed
            /\ trie' = Decref(room.trie, found.node)
            /\ free_blocks' = room.free
            /\ held' = held
      /\ kv' = kv /\ uncomputed' = uncomputed /\ ~ found.strayed
  BY Zenon DEF Allocate
<1>3. /\ FindOK(found, Tick(trie), users, Len(p.key), Chunks, Blocks)
      /\ cached \in Nat /\ needed \in Nat
      /\ TrieOK(room.trie, More(users, node), Chunks, Blocks) /\ room.free \in Seq(Blocks)
      /\ node \in Nat
  BY <1>1, RoomFor, Zenon
<1>4. /\ Ledger(room.trie.nodes, room.free, held)
      /\ \E K2, V2 : /\ CacheIs(room.trie, held, kv, uncomputed, K2, V2)
                     /\ Finds(found, p, K2[node], V2[node])
  BY <1>2, RoomCache, Zenon
<1>5. PICK K, V : /\ CacheIs(room.trie, held, kv, uncomputed, K, V)
                  /\ Finds(found, p, K[node], V[node])
  BY <1>4
<1>6. found.blocks \in Seq(Blocks)
  BY <1>3, Zenon DEF FindOK
<1> DEFINE fb == found.blocks
           key == p.key
           partial == p.partial
           free == room.free
           R == room.trie
           new == Skip(free, left)
           all == fb \o new
           n == Reach(partial, cached, key, K[node])
<1>7. /\ a.prefix_node = node /\ a.cached = cached /\ a.key = key /\ a.partial = partial
      /\ a.prefilled = FALSE /\ a.blocks = all /\ "key" \in DOMAIN a
  BY Zenon
<1>n. /\ cached = Len(fb) /\ left = Len(free) - needed
      /\ SameTo(n, K[node], key) /\ SameTo(n, V[node], fb)
  BY <1>5 DEF Finds
<1>8. CASE Len(room.free) >= needed
  <2>1. trie' = R /\ free_blocks' = Take(free, left) /\ held' = [held EXCEPT ![r] = a]
    <3>1. Len(room.free) \in Nat
      BY <1>3, LenProperties
    <3> HIDE DEF room, needed, found
    <3>2. ~ (Len(room.free) < needed)
      BY <1>3, <1>8, <3>1
    <3> QED BY <1>2, <3>2, Zenon
  <2> HIDE DEF a, room, needed, found, cached, left, new, node
  <2>2. left \in 0..Len(free)
    <3>1. Len(free) \in Nat /\ needed \in Nat /\ Len(free) >= needed
      BY <1>3, <1>8, LenProperties
    <3> HIDE DEF free
    <3> QED BY <1>n, <3>1
  <2>3. new \in Seq(Blocks)
    <3>1. free \in Seq(Blocks)
      BY <1>3
    <3> HIDE DEF free
    <3> QED BY <2>2, <3>1, CutList DEF new
  <2>4. Own(a) = new /\ all \in Seq(Blocks) /\ Joined(all, fb, new)
    <3>1. fb \in Seq(Blocks)
      BY <1>6
    <3> HIDE DEF fb
    <3>2. Skip(all, Len(fb)) = new
      BY <2>3, <3>1, SkipFirst
    <3>3. all \in Seq(Blocks) /\ Joined(all, fb, new)
      BY <2>3, <3>1, ConcatJoined
    <3> QED BY <1>7, <1>n, <3>2, <3>3 DEF Own
  <2>5. a # NoAllocation
    <3>1. "key" \notin DOMAIN NoAllocation
      BY Zenon DEF NoAllocation
    <3> QED BY <1>7, <3>1
  <2>6. Ledger(trie'.nodes, free_blocks', held')
    <3> DEFINE N == R.nodes
    <3>1. Ledger(N, free, held) /\ free \in Seq(Blocks) /\ Own(a) = Skip(free, left)
      BY <1>3, <1>4, <2>4 DEF new
    <3> DEFINE g == [held EXCEPT ![r] = a]
    <3>2. g = [held EXCEPT ![r] = a]
      OBVIOUS
    <3> HIDE DEF N, free, g
    <3>3. Ledger(N, Take(free, left), g)
      BY <1>1, <1>2, <2>2, <2>5, <3>1, <3>2, LedgerTake
    <3> QED BY <2>1, <3>3 DEF N, g
  <2>9. node \in DOMAIN R.nodes
    <3>1. users \in [Nat -> Nat]
      BY <1>1, UsersAre DEF AllocInv, users
    <3>2. More(users, node)[node] > 0
      BY <1>3, <3>1, MoreLess
    <3>3. TrieOK(R, More(users, node), Chunks, Blocks)
      BY <1>3
    <3> HIDE DEF R
    <3> QED BY <1>3, <3>2, <3>3 DEF TrieOK, CountsOK
  <2>7. HeldPath(a, K, V) /\ RightHeld(a, kv)
    <3>1. SameTo(n, V[node], all)
      <4>1. Len(fb) \in Nat /\ Len(new) \in Nat
        BY <1>6, <2>3, LenProperties
      <4>2. Len(fb) <= Len(all) /\ \A j \in 1..Len(fb) : all[j] = fb[j]
        <5>1. Len(all) = Len(fb) + Len(new) /\ \A j \in 1..Len(fb) : all[j] = fb[j]
          BY <2>4 DEF Joined
        <5> HIDE DEF all, fb
        <5> QED BY <4>1, <5>1
      <4>3. SameTo(n, V[node], fb)
        BY <1>n
      <4>4. Len(all) \in Nat
        BY <2>4, LenProperties
      <4>5. n \in Int
        <5>1. K[node] \in Seq(Chunks)
          BY <1>3, <1>5, <2>9 DEF CacheIs, PathsOK
        <5>2. Len(K[node]) \in Nat
          BY <5>1, LenProperties
        <5> QED BY <1>3, <5>2 DEF Reach
      <4> HIDE DEF all, fb, n
      <4> QED BY <4>1, <4>2, <4>3, <4>4, <4>5 DEF SameTo
    <3>2. SameTo(n, K[node], key) /\ n = Reach(partial, cached, key, K[node])
      BY <1>n
    <3> HIDE DEF all, key, partial, n
    <3> QED BY <1>7, <3>1, <3>2 DEF HeldPath, RightHeld
  <2>8. CacheIs(trie', held', kv', uncomputed', K, V)
    <3> DEFINE g == [held EXCEPT ![r] = a]
    <3>1. /\ PathsOK(R, K, V, Chunks, Blocks)
          /\ Right(kv, uncomputed, K, V)
          /\ \A s \in HoldingIn(held) : HeldPath(held[s], K, V) /\ RightHeld(held[s], kv)
      BY <1>5 DEF CacheIs
    <3>2. \A s \in HoldingIn(g) : (s = r /\ g[s] = a) \/ (s \in HoldingIn(held) /\ g[s] = held[s])
      <4>1. g[r] = a /\ \A s \in Requests : s # r => g[s] = held[s]
        BY <1>1
      <4> HIDE DEF g
      <4> QED BY <4>1 DEF HoldingIn
    <3>3. \A s \in HoldingIn(g) : HeldPath(g[s], K, V) /\ RightHeld(g[s], kv)
      <4> HIDE DEF g
      <4> QED BY <2>7, <3>1, <3>2
    <3> HIDE DEF g, R
    <3>4. CacheIs(R, g, kv, uncomputed, K, V)
      BY <3>1, <3>3 DEF CacheIs
    <3> QED BY <1>2, <2>1, <3>4 DEF g
  <2> QED BY <1>1, <2>6, <2>8 DEF CacheInv
<1>9. CASE ~ (Len(room.free) >= needed)
  <2>1. trie' = Decref(R, node) /\ free_blocks' = free /\ held' = held
    BY <1>2, <1>9, Zenon
  <2> HIDE DEF room, needed, found, cached, left, R, node, users
  <2>2. Bumped(R, trie', node)
    <3>1. users \in [Nat -> Nat]
      BY <1>1, UsersAre DEF AllocInv, users
    <3>2. More(users, node)[node] > 0
      BY <1>3, <3>1, MoreLess
    <3>3. TrieOK(R, More(users, node), Chunks, Blocks)
      BY <1>3 DEF R
    <3>4. node \in DOMAIN R.nodes
      BY <1>3, <3>2, <3>3 DEF TrieOK, CountsOK
    <3> QED BY <2>1, <3>3, <3>4, DecrefBumped
  <2>3. SameNodes(R, trie')
    BY <2>2, Zenon DEF Bumped, SameNodes
  <2>4. Ledger(trie'.nodes, free_blocks', held')
    <3> DEFINE N == R.nodes
               M == trie'.nodes
    <3>1. DOMAIN M = DOMAIN N /\ \A i \in DOMAIN N : M[i].blocks = N[i].blocks
      BY <2>3, Zenon DEF SameNodes
    <3>2. Ledger(N, free, held)
      BY <1>4 DEF R
    <3> HIDE DEF N, M, free
    <3>3. Ledger(M, free, held)
      BY <3>1, <3>2, LedgerSame
    <3> QED BY <2>1, <3>3 DEF M
  <2>5. CacheIs(trie', held', kv', uncomputed', K, V)
    <3>1. CacheIs(R, held, kv, uncomputed, K, V)
      BY <1>5 DEF R
    <3>2. CacheIs(trie', held, kv, uncomputed, K, V)
      BY <2>3, <3>1, CacheSame
    <3> QED BY <1>2, <2>1, <3>2
  <2> QED BY <1>1, <2>4, <2>5 DEF CacheInv
<1> QED BY <1>8, <1>9

\* At first all blocks are free.
LEMMA InitCache == Init => CacheInv
<1> SUFFICES ASSUME Init PROVE CacheInv
  OBVIOUS
<1> DEFINE n == TrieNode(<<>>, <<>>, 0, Root)
           N == [id \in {Root} |-> n]
           P == [id \in {Root} |-> <<>>]
<1>1. AllocInv
  BY InitInv
<1>2. held = [r \in Requests |-> NoAllocation] /\ trie = NewTrie /\ free_blocks = [i \in Blocks |-> i]
  BY DEF Init
<1>3. HoldingIn(held) = {}
  BY <1>2 DEF HoldingIn
<1>4. trie.nodes = N
  <2> HIDE DEF n
  <2> QED BY <1>2, Zenon DEF NewTrie, n
<1>5. DOMAIN trie.nodes = {Root} /\ NonRoot(trie) = {}
  <2> HIDE DEF n
  <2> QED BY <1>4 DEF NonRoot
<1>6. Ledger(trie.nodes, free_blocks, held)
  <2>1. Owned(trie.nodes) /\ Stored(trie.nodes) = {}
    BY <1>5 DEF Owned, At, Stored
  <2>2. IsInjective(free_blocks) /\ Range(free_blocks) = Blocks
    BY <1>2 DEF IsInjective, Range
  <2> QED BY <1>3, <2>1, <2>2 DEF Ledger
<1>7. CacheIs(trie, held, kv, uncomputed, P, P)
  <2>1. DOMAIN P = {Root} /\ P[Root] = <<>> /\ <<>> \in Seq(Chunks) /\ <<>> \in Seq(Blocks)
        /\ Len(<<>>) = 0 /\ 1..0 = {}
    OBVIOUS
  <2> HIDE DEF P
  <2>2. PathsOK(trie, P, P, Chunks, Blocks)
    BY <1>5, <2>1 DEF PathsOK
  <2>3. Right(kv, uncomputed, P, P)
    BY <2>1 DEF Right
  <2> QED BY <1>3, <2>2, <2>3 DEF CacheIs
<1> QED BY <1>1, <1>6, <1>7 DEF CacheInv

\* Where an allocation has its own blocks.
LEMMA OwnAt ==
    ASSUME NEW B, NEW s \in Seq(B), NEW n \in 0..Len(s)
    PROVE  /\ \A b : b \in Range(Skip(s, n)) <=> \E i \in (n + 1)..Len(s) : s[i] = b
           /\ IsInjective(Skip(s, n)) =>
                \A i, j \in (n + 1)..Len(s) : s[i] = s[j] => i = j
<1> DEFINE t == Skip(s, n)
           L == Len(s)
<1>1. L \in Nat /\ n \in Nat /\ n <= L
  BY LenProperties
<1>2. /\ t \in Seq(B) /\ DOMAIN t = 1..(L - n) /\ \A i \in 1..(L - n) : t[i] = s[n + i]
  BY CutElements
<1> HIDE DEF t
<1>a. L = Len(s)
  OBVIOUS
<1> HIDE DEF L
<1>3. ASSUME NEW i \in (n + 1)..L PROVE i - n \in 1..(L - n) /\ t[i - n] = s[i] /\ i - n \in DOMAIN t
  <2> DEFINE j == i - n
  <2>1. j \in 1..(L - n) /\ n + j = i
    BY <1>1
  <2> HIDE DEF j
  <2>2. t[j] = s[i]
    BY <1>2, <2>1
  <2> QED BY <1>2, <2>1, <2>2 DEF j
<1>4. ASSUME NEW b, b \in Range(t) PROVE \E i \in (n + 1)..L : s[i] = b
  <2>1. PICK j \in 1..(L - n) : t[j] = b
    BY <1>2, <1>4 DEF Range
  <2>2. n + j \in (n + 1)..L /\ s[n + j] = b
    BY <1>1, <1>2, <2>1
  <2> QED BY <2>2
<1>5. ASSUME NEW b, NEW i \in (n + 1)..L, s[i] = b PROVE b \in Range(t)
  BY <1>3, <1>5 DEF Range
<1>6. ASSUME IsInjective(t), NEW i \in (n + 1)..L, NEW j \in (n + 1)..L, s[i] = s[j] PROVE i = j
  <2> DEFINE x == i - n
             y == j - n
  <2>1. x \in DOMAIN t /\ y \in DOMAIN t /\ t[x] = s[i] /\ t[y] = s[j]
    BY <1>3
  <2>2. x = y
    <3> HIDE DEF x, y
    <3> QED BY <1>6, <2>1 DEF IsInjective
  <2> QED BY <1>1, <2>2
<1> QED BY <1>4, <1>5, <1>6, <1>a DEF t

\* The same for an allocation.
LEMMA HeldOwn ==
    ASSUME NEW a, HeldOK(a)
    PROVE  /\ a.blocks \in Seq(Blocks) /\ a.cached \in 0..Len(a.blocks) /\ a.cached \in 0..Len(a.key)
           /\ Len(a.blocks) \in Nat /\ Len(a.key) \in Nat /\ Len(a.key) \in 0..Len(a.blocks)
           /\ \A b : b \in Range(Own(a)) <=> \E i \in (a.cached + 1)..Len(a.blocks) : a.blocks[i] = b
           /\ IsInjective(Own(a)) =>
                \A i, j \in (a.cached + 1)..Len(a.blocks) : a.blocks[i] = a.blocks[j] => i = j
<1> DEFINE s == a.blocks
           n == a.cached
           k == a.key
<1>1. n \in Nat /\ k \in Seq(Chunks) /\ s \in Seq(Blocks) /\ n <= Len(k) /\ Len(k) <= Len(s)
  BY DEF HeldOK
<1> HIDE DEF s, n, k
<1>2. Len(s) \in Nat /\ Len(k) \in Nat /\ n \in 0..Len(s) /\ n \in 0..Len(k) /\ Len(k) \in 0..Len(s)
  BY <1>1, LenProperties
<1>3. /\ \A b : b \in Range(Skip(s, n)) <=> \E i \in (n + 1)..Len(s) : s[i] = b
      /\ IsInjective(Skip(s, n)) =>
           \A i, j \in (n + 1)..Len(s) : s[i] = s[j] => i = j
  BY <1>1, <1>2, OwnAt
<1> QED BY <1>1, <1>2, <1>3 DEF s, n, k, Own

\* The prefill writes the own blocks of the allocation only, each for the prefix it
\* will be found under.
LEMMA PrefillCache ==
    ASSUME CacheInv, NEW r \in Requests, Prefill(r)
    PROVE  CacheInv'
<1> DEFINE a == held[r]
           s == a.blocks
           n == a.cached
           key == a.key
           written == {i \in DOMAIN s : i > n}
           content(i) == IF i <= Len(key) THEN Take(key, i) ELSE <<>>
           own == Range(Own(a))
<1>1. AllocInv /\ AllocInv' /\ HolderOK(held) /\ Ledger(trie.nodes, free_blocks, held)
      /\ StoreOK(trie, Chunks, Blocks) /\ LinksOK(trie)
  <2>1. AllocInv
    BY DEF CacheInv
  <2>2. AllocInv'
    BY <2>1, PrefillKeeps
  <2> QED BY <2>1, <2>2 DEF AllocInv, CacheInv, TrieOK
<1>2. PICK K, V : CacheIs(trie, held, kv, uncomputed, K, V)
  BY DEF CacheInv
<1>3. /\ r \in HoldingIn(held) /\ held' = [held EXCEPT ![r].prefilled = TRUE]
      /\ trie' = trie /\ free_blocks' = free_blocks
      /\ kv' = [b \in Blocks |-> IF \E i \in written : s[i] = b
                                 THEN content(CHOOSE i \in written : s[i] = b) ELSE kv[b]]
      /\ uncomputed' = uncomputed \ {s[i] : i \in written}
  BY DEF Prefill, Holding, HoldingIn
<1>4. HeldOK(a) /\ DOMAIN held = Requests
  BY <1>1, <1>3 DEF HolderOK
<1>5. /\ s \in Seq(Blocks) /\ n \in 0..Len(s) /\ n \in 0..Len(key)
      /\ Len(s) \in Nat /\ Len(key) \in Nat /\ Len(key) \in 0..Len(s)
      /\ \A b : b \in own <=> \E i \in (n + 1)..Len(s) : s[i] = b
      /\ \A i, j \in (n + 1)..Len(s) : s[i] = s[j] => i = j
  <2>1. IsInjective(Own(a))
    BY <1>1, <1>3 DEF Ledger
  <2> QED BY <1>4, <2>1, HeldOwn
<1> HIDE DEF s, n, key, own
<1>6. written = (n + 1)..Len(s)
  <2>1. DOMAIN s = 1..Len(s) /\ n \in Nat
    BY <1>5, LenProperties
  <2> QED BY <1>5, <2>1
<1> HIDE DEF written
<1>7. ASSUME NEW b \in Blocks, b \notin own PROVE kv'[b] = kv[b]
  <2>1. ~ \E i \in written : s[i] = b
    BY <1>5, <1>6, <1>7
  <2> HIDE DEF content
  <2> QED BY <1>3, <2>1
<1>8. uncomputed' = uncomputed \ own
  <2>1. {s[i] : i \in written} = own
    BY <1>5, <1>6
  <2> QED BY <1>3, <2>1
<1>9. ASSUME NEW j \in (n + 1)..Len(key) PROVE kv'[s[j]] = Take(key, j)
  <2>1. j \in written /\ j \in Nat /\ j <= Len(key) /\ j \in 1..Len(s)
    BY <1>5, <1>6
  <2>2. s[j] \in Blocks
    BY <1>5, <2>1
  <2>3. (CHOOSE i \in written : s[i] = s[j]) = j
    <3> DEFINE c == CHOOSE i \in written : s[i] = s[j]
    <3>1. c \in written /\ s[c] = s[j]
      BY <2>1
    <3> HIDE DEF c
    <3>2. c = j
      BY <1>5, <1>6, <2>1, <3>1
    <3> QED BY <3>2 DEF c
  <2>4. content(j) = Take(key, j)
    BY <2>1
  <2> HIDE DEF content
  <2>5. \E i \in written : s[i] = s[j]
    BY <2>1
  <2>6. kv'[s[j]] = content(CHOOSE i \in written : s[i] = s[j])
    BY <1>3, <2>2, <2>5, Zenon
  <2> QED BY <2>3, <2>4, <2>6
<1> DEFINE g == held'
           m == kv'
<1>10. /\ HoldingIn(g) = HoldingIn(held)
       /\ \A x \in HoldingIn(g) :
            /\ g[x].prefix_node = held[x].prefix_node /\ g[x].cached = held[x].cached
            /\ g[x].key = held[x].key /\ g[x].partial = held[x].partial
            /\ g[x].blocks = held[x].blocks /\ (x # r => g[x] = held[x])
  <2> DEFINE c == [a EXCEPT !.prefilled = TRUE]
  <2>1. AllocFields \subseteq DOMAIN a
    BY <1>4 DEF HeldOK
  <2>2. /\ c.prefix_node = a.prefix_node /\ c.cached = a.cached /\ c.key = a.key
        /\ c.partial = a.partial /\ c.blocks = a.blocks /\ "key" \in DOMAIN c
    BY <2>1, Zenon DEF AllocFields
  <2>3. c # NoAllocation
    <3>1. "key" \notin DOMAIN NoAllocation
      BY Zenon DEF NoAllocation
    <3> HIDE DEF c
    <3> QED BY <2>2, <3>1
  <2>4. g[r] = c /\ \A x \in Requests : x # r => g[x] = held[x]
    BY <1>3, <1>4
  <2> HIDE DEF c, g
  <2>5. HoldingIn(g) = HoldingIn(held)
    BY <1>3, <2>3, <2>4 DEF HoldingIn
  <2>6. \A x \in HoldingIn(g) : x \in Requests
    BY DEF HoldingIn
  <2> HIDE DEF a
  <2>7. held[r] = a
    BY DEF a
  <2> QED BY <2>2, <2>4, <2>5, <2>6, <2>7
<1>11. \A x \in HoldingIn(g) : Own(g[x]) = Own(held[x])
  BY <1>10, Zenon DEF Own
<1>12. Ledger(trie.nodes, free_blocks, g)
  <2> HIDE DEF g
  <2>1. Ledger(trie.nodes, free_blocks, held)
    BY <1>1
  <2> QED BY <1>10, <1>11, <2>1 DEF Ledger
<1>14. /\ PathsOK(trie, K, V, Chunks, Blocks)
       /\ Right(kv, uncomputed, K, V)
       /\ \A x \in HoldingIn(held) : HeldPath(held[x], K, V) /\ RightHeld(held[x], kv)
  BY <1>2 DEF CacheIs
<1>15. Right(m, uncomputed', K, V)
  <2>1. ASSUME NEW i \in DOMAIN K, NEW j \in 1..Len(K[i]), V[i][j] \notin uncomputed'
        PROVE  m[V[i][j]] = Take(K[i], j)
    <3>1. i \in DOMAIN trie.nodes /\ V[i] \in Seq(Blocks) /\ Len(V[i]) = Len(K[i])
      BY <1>14 DEF PathsOK
    <3>2. V[i][j] \in Blocks
      BY <3>1
    <3>3. V[i][j] \in Stored(trie.nodes)
      BY <1>1, <1>14, <3>1, PathStored
    <3>4. V[i][j] \notin own
      BY <1>1, <1>3, <3>3 DEF Ledger, own
    <3>5. V[i][j] \notin uncomputed
      BY <1>8, <2>1, <3>4
    <3>6. kv[V[i][j]] = Take(K[i], j)
      BY <1>14, <3>5 DEF Right
    <3> QED BY <1>7, <3>2, <3>4, <3>6
  <2> HIDE DEF m
  <2> QED BY <2>1 DEF Right
<1>16. ASSUME NEW x \in HoldingIn(g) PROVE HeldPath(g[x], K, V) /\ RightHeld(g[x], m)
  <2>1. /\ x \in HoldingIn(held)
        /\ g[x].prefix_node = held[x].prefix_node /\ g[x].cached = held[x].cached
        /\ g[x].key = held[x].key /\ g[x].partial = held[x].partial
        /\ g[x].blocks = held[x].blocks /\ (x # r => g[x] = held[x])
    BY <1>10
  <2>2. HeldPath(held[x], K, V) /\ RightHeld(held[x], kv)
    BY <1>14, <2>1
  <2> HIDE DEF g, m
  <2>3. HeldPath(g[x], K, V)
    BY <2>1, <2>2 DEF HeldPath
  <2>4. CASE x = r
    <3>1. g[x].cached = n /\ g[x].key = key /\ g[x].blocks = s
      BY <2>1, <2>4 DEF n, key, s
    <3>2. \A j \in (n + 1)..Len(key) : m[s[j]] = Take(key, j)
      BY <1>9 DEF m
    <3>3. RightHeld(g[x], m)
      BY <3>1, <3>2 DEF RightHeld
    <3> QED BY <2>3, <3>3
  <2>5. CASE x # r
    <3> DEFINE c == held[x]
    <3>1. g[x] = c /\ HeldOK(c) /\ Range(Own(c)) \cap own = {}
      BY <1>1, <1>3, <2>1, <2>5 DEF Ledger, own, HolderOK
    <3>2. ASSUME c.prefilled, NEW j \in (c.cached + 1)..Len(c.key)
          PROVE  m[c.blocks[j]] = Take(c.key, j)
      <4>1. kv[c.blocks[j]] = Take(c.key, j)
        BY <2>2, <3>2 DEF RightHeld
      <4>2. /\ c.blocks \in Seq(Blocks) /\ c.cached \in 0..Len(c.blocks)
            /\ Len(c.blocks) \in Nat /\ Len(c.key) \in Nat /\ Len(c.key) \in 0..Len(c.blocks)
        BY <3>1, HeldOwn
      <4>3. j \in (c.cached + 1)..Len(c.blocks) /\ j \in 1..Len(c.blocks)
        <5> DEFINE cc == c.cached
                   lk == Len(c.key)
                   lb == Len(c.blocks)
        <5>1. cc \in 0..lb /\ lb \in Nat /\ lk \in 0..lb /\ j \in (cc + 1)..lk
          BY <3>2, <4>2
        <5> HIDE DEF cc, lk, lb
        <5>2. j \in (cc + 1)..lb /\ j \in 1..lb
          BY <5>1
        <5> QED BY <5>2 DEF cc, lb
      <4>4. c.blocks[j] \in Blocks
        BY <4>2, <4>3
      <4>5. c.blocks[j] \in Range(Own(c))
        BY <3>1, <4>3, HeldOwn
      <4>6. c.blocks[j] \notin own
        BY <3>1, <4>5
      <4> QED BY <1>7, <4>1, <4>4, <4>6 DEF m
    <3> HIDE DEF c
    <3>3. RightHeld(g[x], m)
      BY <3>1, <3>2 DEF RightHeld
    <3> QED BY <2>3, <3>3
  <2> QED BY <2>4, <2>5
<1>17. CacheIs(trie', held', kv', uncomputed', K, V)
  <2>1. trie' = trie
    BY <1>3
  <2> DEFINE u == uncomputed'
  <2>2. Right(m, u, K, V)
    BY <1>15
  <2> HIDE DEF u, m, g
  <2>3. CacheIs(trie, g, m, u, K, V)
    BY <1>14, <1>16, <2>2 DEF CacheIs
  <2> QED BY <2>1, <2>3 DEF g, m, u
<1>18. Ledger(trie'.nodes, free_blocks', held')
  BY <1>3, <1>12
<1> QED BY <1>1, <1>17, <1>18 DEF CacheInv

\* An element of a part of a list.
LEMMA InPart ==
    ASSUME NEW B, NEW s \in Seq(B), NEW n \in 0..Len(s), NEW m \in 0..n, NEW j \in (m + 1)..n
    PROVE  s[j] \in Range(SubSeq(s, m + 1, n))
<1> DEFINE t == SubSeq(s, m + 1, n)
           y == j - m
<1>1. Len(s) \in Nat /\ n \in Nat /\ m \in Nat /\ j \in Nat /\ m < n /\ n <= Len(s)
  BY LenProperties
<1>2. /\ m + 1 \in 1..(Len(s) + 1) /\ m + 1 \in 1..Len(s) /\ n \in 1..Len(s)
      /\ m + 1 \in Int /\ n - (m + 1) + 1 = n - m /\ y \in 1..(n - m) /\ m + 1 + y - 1 = j
  BY <1>1
<1>3. t \in Seq(B) /\ Len(t) = n - m
  BY <1>1, <1>2, SubSeqProperties
<1>4. t[y] = s[m + 1 + y - 1]
  BY <1>1, <1>2, <1>3, SubSeqProperties
<1>5. y \in DOMAIN t
  <2> HIDE DEF t, y
  <2> QED BY <1>1, <1>2, <1>3, LenProperties
<1> HIDE DEF t, y
<1> QED BY <1>2, <1>4, <1>5 DEF Range, t

\* What the cache holds does not depend on an allocation that ends, and more
\* blocks may be uncomputed.
LEMMA CacheEnds ==
    ASSUME NEW T, NEW h, DOMAIN h = Requests, NEW m, NEW u, NEW u2, u \subseteq u2, NEW K, NEW V,
           CacheIs(T, h, m, u, K, V), NEW r, NEW g, g = [h EXCEPT ![r] = NoAllocation]
    PROVE  CacheIs(T, g, m, u2, K, V)
<1>1. \A x \in HoldingIn(g) : x \in HoldingIn(h) /\ g[x] = h[x]
  BY DEF HoldingIn
<1>2. Right(m, u2, K, V)
  BY DEF Right, CacheIs
<1> QED BY <1>1, <1>2 DEF CacheIs

\* The cache after insert.
LEMMA InsertCache ==
    ASSUME NEW T, NEW ext, TrieOK(T, ext, Chunks, Blocks), NEW h, NEW m, NEW u, NEW K, NEW V,
           CacheIs(T, h, m, u, K, V),
           \A x \in HoldingIn(h) : h[x].prefix_node \in DOMAIN T.nodes,
           NEW a, HeldOK(a), HeldPath(a, K, V), RightHeld(a, m), a.key # <<>>,
           a.partial \/ a.cached < Len(a.key),
           a.prefix_node \in DOMAIN T.nodes,
           NEW u2, u \subseteq u2,
           ~ a.prefilled => Range(SubSeq(a.blocks, a.cached + 1, Len(a.key))) \subseteq u2
    PROVE  LET head == Take(a.blocks, Len(a.key))
               ins == Insert(T, a.key, head)
           IN  /\ ins.common \in a.cached..Len(a.key)
               /\ Gained(T.nodes, ins.trie.nodes, Skip(head, ins.common))
               /\ \E K2, V2 : CacheIs(ins.trie, h, m, u2, K2, V2)
<1> DEFINE s == a.blocks
           n == a.cached
           key == a.key
           node == a.prefix_node
           head == Take(s, Len(key))
           ins == Insert(T, key, head)
           c == ins.common
<1>1. /\ s \in Seq(Blocks) /\ n \in 0..Len(s) /\ n \in 0..Len(key)
      /\ Len(s) \in Nat /\ Len(key) \in Nat /\ Len(key) \in 0..Len(s)
      /\ key \in Seq(Chunks)
  BY HeldOwn DEF HeldOK
<1>2. SameTo(n, K[node], key) /\ key # <<>> /\ node \in DOMAIN T.nodes
  BY DEF HeldPath, Reach
<1>3. /\ PathsOK(T, K, V, Chunks, Blocks)
      /\ Right(m, u, K, V)
      /\ \A x \in HoldingIn(h) : HeldPath(h[x], K, V) /\ RightHeld(h[x], m)
  BY DEF CacheIs
<1>4. a.prefilled => \A j \in (n + 1)..Len(key) : m[s[j]] = Take(key, j)
  BY DEF RightHeld
<1>5. ~ a.prefilled => Range(SubSeq(s, n + 1, Len(key))) \subseteq u2
  OBVIOUS
<1> HIDE DEF s, n, key, node
<1>6. head \in Seq(Blocks) /\ Len(head) = Len(key) /\ \A j \in 1..Len(key) : head[j] = s[j]
  BY <1>1, CutElements
<1> HIDE DEF head
<1>7. SomePath(ins, T, K, V, key, head, n, Chunks, Blocks) /\ ins.done
  BY <1>1, <1>2, <1>3, <1>6, InsertPaths
<1> HIDE DEF ins
<1>8. PICK K2, V2 : PathsOK(ins.trie, K2, V2, Chunks, Blocks)
                    /\ InsertPath(ins, K2, V2, T.nodes, K, V, key, head, n)
  BY <1>7, Zenon DEF SomePath
<1>9. /\ Kept(K, V, K2, V2) /\ c \in 0..Len(key) /\ n <= c
      /\ Drawn(K2, V2, K, V, key, head, c)
      /\ Gained(T.nodes, ins.trie.nodes, Skip(head, c))
  BY <1>7, <1>8 DEF InsertPath
<1> HIDE DEF c
<1>10. c \in n..Len(key)
  BY <1>1, <1>9
<1>11. ASSUME NEW j \in 1..Len(key), c < j, head[j] \notin u2 PROVE m[head[j]] = Take(key, j)
  <2>1. j \in (n + 1)..Len(key) /\ head[j] = s[j]
    BY <1>1, <1>6, <1>10, <1>11
  <2>2. CASE a.prefilled
    BY <1>4, <2>1, <2>2
  <2>3. CASE ~ a.prefilled
    <3>1. s[j] \in Range(SubSeq(s, n + 1, Len(key)))
      BY <1>1, <2>1, InPart
    <3>2. s[j] \in u2
      BY <1>5, <2>3, <3>1
    <3> QED BY <1>11, <2>1, <3>2
  <2> QED BY <2>2, <2>3
<1>12. Right(m, u2, K2, V2)
  <2>1. RightAfter(c, key, head, m, u2)
    BY <1>11 DEF RightAfter
  <2> QED BY ONLY <1>1, <1>2, <1>3, <1>8, <1>9, <2>1, u \subseteq u2, RightDrawn
<1>13. ASSUME NEW x \in HoldingIn(h) PROVE HeldPath(h[x], K2, V2) /\ RightHeld(h[x], m)
  <2> DEFINE p == h[x].prefix_node
  <2>1. p \in DOMAIN K
    BY <1>3 DEF PathsOK
  <2>2. K2[p] = K[p] /\ V2[p] = V[p]
    BY <1>9, <2>1 DEF Kept
  <2> QED BY <1>3, <2>2 DEF HeldPath
<1>14. CacheIs(ins.trie, h, m, u2, K2, V2)
  BY <1>8, <1>12, <1>13 DEF CacheIs
<1> QED BY <1>9, <1>10, <1>14 DEF ins, c, head, s, n, key

\* free: what goes to the trie is filed under its own prefix, and what does not is free.
LEMMA FreeCache ==
    ASSUME CacheInv, NEW r \in HoldingIn(held), Free(r)
    PROVE  CacheInv'
<1> DEFINE a == held[r]
           node == a.prefix_node
           D == Decref(trie, node)
           ext == Less(UsersIn(held), node)
           insert == (Len(a.key) > a.cached \/ a.partial) /\ a.key # <<>>
           head == Take(a.blocks, Len(a.key))
           ins == Insert(D, a.key, head)
           duplicates == IF insert /\ ins.common > a.cached
                         THEN SubSeq(a.blocks, a.cached + 1, ins.common) ELSE <<>>
           rest == Skip(a.blocks, Len(a.key))
           part == Range(SubSeq(a.blocks, a.cached + 1, Len(a.key)))
           u2 == uncomputed'
           g == held'
<1>1. /\ AllocInv /\ AllocInv' /\ HolderOK(held) /\ free_blocks \in Seq(Blocks)
      /\ Ledger(trie.nodes, free_blocks, held) /\ DOMAIN held = Requests
  <2>1. AllocInv
    BY DEF CacheInv
  <2>2. AllocInv'
    BY <2>1, FreeKeeps
  <2> QED BY <2>1, <2>2 DEF AllocInv, CacheInv, HolderOK
<1>2. PICK K, V : CacheIs(trie, held, kv, uncomputed, K, V)
  BY DEF CacheInv
<1>3. /\ trie' = IF insert THEN ins.trie ELSE D
      /\ free_blocks' = free_blocks \o duplicates \o rest
      /\ held' = [held EXCEPT ![r] = NoAllocation]
      /\ uncomputed' = IF a.prefilled THEN uncomputed ELSE uncomputed \cup part
      /\ kv' = kv
  BY Zenon DEF Free
<1>4. HeldOK(a) /\ node \in DOMAIN trie.nodes /\ TrieOK(D, ext, Chunks, Blocks) /\ Bumped(trie, D, node)
  BY <1>1, Released, Zenon
<1>5. /\ a.blocks \in Seq(Blocks) /\ a.cached \in 0..Len(a.key)
      /\ Len(a.key) \in 0..Len(a.blocks) /\ a.key \in Seq(Chunks)
  BY <1>4, HeldOwn DEF HeldOK
<1>6. HeldPath(a, K, V) /\ RightHeld(a, kv)
  BY <1>2 DEF CacheIs
<1>7. /\ insert => a.key # <<>> /\ (a.partial \/ a.cached < Len(a.key))
      /\ ~ insert => a.cached = Len(a.key)
  <2>1. Len(a.key) \in Nat /\ a.cached \in 0..Len(a.key) /\ (a.key = <<>> => Len(a.key) = 0)
    BY <1>5, LenProperties
  <2> QED BY <2>1
<1>8. uncomputed \subseteq u2 /\ (~ a.prefilled => part \subseteq u2)
  <2> HIDE DEF part, a
  <2> QED BY <1>3
<1>9. SameNodes(trie, D) /\ CacheIs(D, held, kv, uncomputed, K, V)
  <2> HIDE DEF D
  <2>1. SameNodes(trie, D)
    BY <1>4, Zenon DEF Bumped, SameNodes
  <2> QED BY <1>2, <2>1, CacheSame
<1>10. Ledger(D.nodes, free_blocks, held)
  <2> DEFINE N == trie.nodes
             M == D.nodes
  <2>1. DOMAIN M = DOMAIN N /\ \A i \in DOMAIN N : M[i].blocks = N[i].blocks
    BY <1>9, Zenon DEF SameNodes
  <2>2. Ledger(N, free_blocks, held)
    BY <1>1
  <2> HIDE DEF N, M
  <2>3. Ledger(M, free_blocks, held)
    BY <2>1, <2>2, LedgerSame
  <2> QED BY <2>3 DEF M
<1>11. \A x \in HoldingIn(held) : held[x].prefix_node \in DOMAIN D.nodes
  <2> HIDE DEF D, node, ext
  <2>1. ASSUME NEW x \in HoldingIn(held) PROVE held[x].prefix_node \in DOMAIN trie.nodes
    <3>1. UsersIn(held)[held[x].prefix_node] > 0 /\ held[x].prefix_node \in Nat
      BY <1>1, UsersAre DEF HolderOK, HeldOK
    <3> QED BY <1>1, <3>1 DEF AllocInv, TrieOK, CountsOK
  <2> QED BY <1>9, <2>1 DEF SameNodes
<1>12. CASE insert
  <2>1. trie' = ins.trie /\ a.key # <<>> /\ (a.partial \/ a.cached < Len(a.key))
    BY <1>3, <1>7, <1>12
  <2>2. duplicates = IF ins.common > a.cached THEN SubSeq(a.blocks, a.cached + 1, ins.common) ELSE <<>>
    BY <1>12
  <2>3. /\ ins.common \in a.cached..Len(a.key)
        /\ Gained(D.nodes, ins.trie.nodes, Skip(head, ins.common))
        /\ \E K2, V2 : CacheIs(ins.trie, held, kv, u2, K2, V2)
    <3>1. node = a.prefix_node /\ node \in DOMAIN D.nodes
      BY <1>4, <1>9 DEF SameNodes
    <3>2. ~ a.prefilled => Range(SubSeq(a.blocks, a.cached + 1, Len(a.key))) \subseteq u2
      BY <1>8
    <3> HIDE DEF D, a, u2, ext, node
    <3> QED BY <1>4, <1>6, <1>8, <1>9, <1>11, <2>1, <3>1, <3>2, InsertCache
  <2> DEFINE c == ins.common
             i == Skip(head, c)
             M == ins.trie.nodes
  <2>4. duplicates \in Seq(Blocks) /\ Parts(Own(a), duplicates, i, rest)
    <3> DEFINE s == a.blocks
               n == Len(a.key)
               cached == a.cached
               d == IF c > cached THEN SubSeq(s, cached + 1, c) ELSE <<>>
    <3>1. s \in Seq(Blocks) /\ n \in 0..Len(s) /\ cached \in 0..n /\ c \in cached..n
      BY <1>5, <2>3
    <3>2. duplicates = d
      BY <2>2
    <3> HIDE DEF s, n, cached, c, duplicates
    <3>3. d \in Seq(Blocks) /\ Parts(Skip(s, cached), d, Skip(Take(s, n), c), Skip(s, n))
      BY <3>1, OwnParts
    <3> QED BY <3>2, <3>3 DEF s, n, cached, Own
  <2>5. Ledger(trie'.nodes, free_blocks', held')
    <3> DEFINE N == D.nodes
    <3>1. Ledger(N, free_blocks, held) /\ Gained(N, M, i) /\ rest \in Seq(Blocks)
      <4>1. rest \in Seq(Blocks)
        BY <1>5, CutList
      <4> QED BY <1>10, <2>3, <4>1
    <3>2. Parts(Own(held[r]), duplicates, i, rest) /\ duplicates \in Seq(Blocks)
      BY <2>4
    <3>3. g = [held EXCEPT ![r] = NoAllocation]
      BY <1>3
    <3>4. trie'.nodes = M /\ free_blocks' = free_blocks \o duplicates \o rest /\ held' = g
      BY <1>3, <2>1
    <3> HIDE DEF N, M, i, rest, duplicates, g, a
    <3>5. Ledger(M, free_blocks \o duplicates \o rest, g)
      BY <1>1, <3>1, <3>2, <3>3, LedgerFree
    <3> QED BY <3>4, <3>5
  <2>6. \E K2, V2 : CacheIs(trie', held', kv', uncomputed', K2, V2)
    <3>1. PICK K2, V2 : CacheIs(ins.trie, held, kv, u2, K2, V2)
      BY <2>3
    <3> DEFINE W == ins.trie
    <3> HIDE DEF W, ins
    <3>2. CacheIs(W, g, kv, u2, K2, V2)
      <4>1. g = [held EXCEPT ![r] = NoAllocation] /\ u2 \subseteq u2
        BY <1>3
      <4> HIDE DEF g, u2
      <4> QED BY <1>1, <3>1, <4>1, CacheEnds DEF W
    <3>3. CacheIs(trie', held', kv', uncomputed', K2, V2)
      BY <1>3, <2>1, <3>2 DEF W
    <3> QED BY <3>3
  <2> QED BY <1>1, <2>5, <2>6 DEF CacheInv
<1>13. CASE ~ insert
  <2>1. trie' = D /\ duplicates = <<>>
    BY <1>3, <1>13
  <2>3. rest = Own(a)
    BY <1>7, <1>13 DEF Own
  <2>4. Parts(Own(a), <<>>, <<>>, rest) /\ rest \in Seq(Blocks) /\ <<>> \in Seq(Blocks)
    <3>1. Range(<<>>) = {} /\ IsInjective(<<>>)
      BY DEF Range, IsInjective
    <3>2. rest \in Seq(Blocks)
      BY <1>5, CutList
    <3> HIDE DEF rest, a
    <3> QED BY <2>3, <3>1, <3>2 DEF Parts
  <2>5. Ledger(trie'.nodes, free_blocks', held')
    <3> DEFINE N == D.nodes
               e == <<>>
    <3>1. Gained(N, N, e)
      <4>1. Gained(N, N, <<>>)
        <5> HIDE DEF N
        <5> QED BY GainedNone
      <4> QED BY <4>1
    <3>2. Ledger(N, free_blocks, held)
      BY <1>10
    <3>3. Parts(Own(held[r]), e, e, rest) /\ rest \in Seq(Blocks) /\ e \in Seq(Blocks)
      BY <2>4
    <3>4. g = [held EXCEPT ![r] = NoAllocation]
      BY <1>3
    <3>5. trie'.nodes = N /\ free_blocks' = free_blocks \o e \o rest /\ held' = g
      BY <1>3, <2>1
    <3> HIDE DEF N, e, rest, g, a
    <3>6. Ledger(N, free_blocks \o e \o rest, g)
      BY <1>1, <3>1, <3>2, <3>3, <3>4, LedgerFree
    <3> QED BY <3>5, <3>6
  <2>6. CacheIs(trie', held', kv', uncomputed', K, V)
    <3>1. CacheIs(D, g, kv, u2, K, V)
      <4>1. g = [held EXCEPT ![r] = NoAllocation]
        BY <1>3
      <4> HIDE DEF g, u2, D
      <4> QED BY <1>1, <1>8, <1>9, <4>1, CacheEnds
    <3> QED BY <1>3, <2>1, <3>1
  <2> QED BY <1>1, <2>5, <2>6 DEF CacheInv
<1> QED BY <1>12, <1>13

\* Every step keeps the invariant.
LEMMA NextCache == CacheInv /\ [Next]_vars /\ ~ strayed' => CacheInv'
<1> SUFFICES ASSUME CacheInv, [Next]_vars, ~ strayed' PROVE CacheInv'
  OBVIOUS
<1>1. ASSUME NEW r \in Requests, NEW p \in Prompts, NEW extra \in Extras, Allocate(r, p, extra)
      PROVE  CacheInv'
  BY <1>1, AllocateCache
<1>2. ASSUME NEW r \in Requests, Prefill(r) PROVE CacheInv'
  BY <1>2, PrefillCache
<1>3. ASSUME NEW r \in Requests, DropFinished(r) \/ DropAbandoned(r) PROVE CacheInv'
  <2>1. r \in HoldingIn(held) /\ Free(r)
    BY <1>3, Zenon DEF DropFinished, DropAbandoned, CanFree, Holding, HoldingIn
  <2> QED BY <2>1, FreeCache
<1>4. CASE UNCHANGED vars
  <2>1. AllocInv'
    BY <1>4, NextInv DEF CacheInv
  <2>2. /\ trie' = trie /\ free_blocks' = free_blocks /\ held' = held /\ kv' = kv
        /\ uncomputed' = uncomputed
    BY <1>4 DEF vars
  <2>3. Ledger(trie'.nodes, free_blocks', held')
    BY <2>2 DEF CacheInv
  <2>4. \E K, V : CacheIs(trie', held', kv', uncomputed', K, V)
    BY <2>2 DEF CacheInv
  <2> QED BY <2>1, <2>3, <2>4 DEF CacheInv
<1> QED BY <1>1, <1>2, <1>3, <1>4, Zenon DEF Next

\* Once a lookup has strayed, one has.
LEMMA StaysStrayed == [Next]_vars /\ ~ strayed' => ~ strayed
<1> SUFFICES ASSUME [Next]_vars, ~ strayed' PROVE ~ strayed
  OBVIOUS
<1>1. ASSUME NEW r \in Requests, NEW p \in Prompts, NEW extra \in Extras, Allocate(r, p, extra)
      PROVE  ~ strayed
  <2>1. strayed' = (strayed \/ Find(trie, p.key, p.partial).strayed)
    BY <1>1, Zenon DEF Allocate
  <2> QED BY <2>1, Zenon
<1>2. ASSUME NEW r \in Requests, Prefill(r) PROVE ~ strayed
  BY <1>2, Zenon DEF Prefill
<1>3. ASSUME NEW r \in Requests, DropFinished(r) \/ DropAbandoned(r) PROVE ~ strayed
  BY <1>3, Zenon DEF DropFinished, DropAbandoned, Free
<1>4. CASE UNCHANGED vars
  BY <1>4 DEF vars
<1> QED BY <1>1, <1>2, <1>3, <1>4, Zenon DEF Next

\* What the allocator keeps of the blocks and of what they hold.
THEOREM CacheInvariant == Spec => []CacheInvOK
<1>1. Init => CacheInvOK
  BY InitCache, InitInv DEF CacheInvOK
<1>2. CacheInvOK /\ [Next]_vars => CacheInvOK'
  <2>1. AllocInv /\ [Next]_vars => AllocInv'
    BY NextInv
  <2>2. [Next]_vars /\ ~ strayed' => ~ strayed
    BY StaysStrayed
  <2> QED BY <2>1, <2>2, NextCache DEF CacheInvOK
<1> QED BY <1>1, <1>2, PTL DEF Spec

\* The owners of a block are where it is.
LEMMA OwnerIs ==
    ASSUME NEW b, NEW o
    PROVE  o \in Owners(b) <=>
             \/ \E i \in DOMAIN free_blocks : free_blocks[i] = b /\ o = <<"free", Root, i>>
             \/ \E id \in NonRoot(trie) : \E i \in DOMAIN trie.nodes[id].blocks :
                  trie.nodes[id].blocks[i] = b /\ o = <<"trie", id, i>>
             \/ \E r \in Holding : \E i \in DOMAIN held[r].blocks :
                  held[r].blocks[i] = b /\ i > held[r].cached /\ o = <<"held", r, i>>
<1> DEFINE F == {<<"free", Root, i>> : i \in PlacesIn(b, free_blocks)}
           T(id) == {<<"trie", id, i>> : i \in PlacesIn(b, trie.nodes[id].blocks)}
           H(r) == {<<"held", r, i>> : i \in {j \in PlacesIn(b, held[r].blocks) : j > held[r].cached}}
<1>1. Owners(b) = F \cup (UNION {T(id) : id \in NonRoot(trie)}) \cup (UNION {H(r) : r \in Holding})
  BY Zenon DEF Owners
<1>2. o \in F <=> \E i \in DOMAIN free_blocks : free_blocks[i] = b /\ o = <<"free", Root, i>>
  BY DEF PlacesIn
<1>3. ASSUME NEW id
      PROVE  o \in T(id) <=> \E i \in DOMAIN trie.nodes[id].blocks :
                               trie.nodes[id].blocks[i] = b /\ o = <<"trie", id, i>>
  BY DEF PlacesIn
<1>4. ASSUME NEW r
      PROVE  o \in H(r) <=> \E i \in DOMAIN held[r].blocks :
                              held[r].blocks[i] = b /\ i > held[r].cached /\ o = <<"held", r, i>>
  BY DEF PlacesIn
<1> HIDE DEF F, T, H
<1> DEFINE A == {T(id) : id \in NonRoot(trie)}
           E == {H(r) : r \in Holding}
<1>5. (\E S \in A : o \in S) <=> \E id \in NonRoot(trie) : o \in T(id)
  OBVIOUS
<1>6. (\E S \in E : o \in S) <=> \E r \in Holding : o \in H(r)
  OBVIOUS
<1>7. Owners(b) = F \cup (UNION A) \cup (UNION E)
  BY ONLY <1>1
<1> HIDE DEF A, E
<1>8. (o \in Owners(b)) <=> (o \in F \/ (\E S \in A : o \in S) \/ (\E S \in E : o \in S))
  <2> DEFINE X == UNION A
             Y == UNION E
  <2>1. o \in X <=> \E S \in A : o \in S
    BY ONLY Zenon
  <2>2. o \in Y <=> \E S \in E : o \in S
    BY ONLY Zenon
  <2>3. Owners(b) = F \cup X \cup Y
    BY <1>7, Zenon
  <2> HIDE DEF X, Y
  <2>4. (o \in Owners(b)) <=> (o \in F \/ o \in X \/ o \in Y)
    BY ONLY <2>3
  <2> QED BY ONLY <2>1, <2>2, <2>4, Zenon
<1> QED BY <1>2, <1>3, <1>4, <1>5, <1>6, <1>8, Zenon

\* So every block has one.
LEMMA InvOwner == CacheInvOK => OneOwner
<1> SUFFICES ASSUME CacheInv, NEW b \in Blocks PROVE Cardinality(Owners(b)) = 1
  BY DEF OneOwner, CacheInvOK
<1> DEFINE N == trie.nodes
           InFree(o) == \E i \in DOMAIN free_blocks : free_blocks[i] = b /\ o = <<"free", Root, i>>
           InTrie(o) == \E id \in NonRoot(trie) : \E i \in DOMAIN N[id].blocks :
                          N[id].blocks[i] = b /\ o = <<"trie", id, i>>
           InHeld(o) == \E r \in Holding : \E i \in DOMAIN held[r].blocks :
                          held[r].blocks[i] = b /\ i > held[r].cached /\ o = <<"held", r, i>>
<1>1. /\ Ledger(N, free_blocks, held) /\ Holding = HoldingIn(held) /\ HolderOK(held)
      /\ free_blocks \in Seq(Blocks) /\ StoreOK(trie, Chunks, Blocks)
  BY DEF CacheInv, AllocInv, TrieOK, Holding, HoldingIn
<1>2. \A o : (o \in Owners(b)) <=> (InFree(o) \/ InTrie(o) \/ InHeld(o))
  BY OwnerIs
<1>3. \A i \in DOMAIN N : N[i].blocks \in Seq(Blocks) /\ DOMAIN N[i].blocks = 1..Len(N[i].blocks)
  BY <1>1, NodeIs, LenProperties
<1>4. b \in Stored(N) <=> \E id, x : At(N, b, id, x)
  BY <1>3, StoredIs
<1>5. \A id, x : At(N, b, id, x) <=> id \in NonRoot(trie) /\ x \in DOMAIN N[id].blocks /\ N[id].blocks[x] = b
  BY <1>3 DEF At, NonRoot
<1>6. ASSUME NEW r \in Holding, NEW i
      PROVE  i \in DOMAIN held[r].blocks /\ i > held[r].cached
               <=> i \in (held[r].cached + 1)..Len(held[r].blocks)
  <2> DEFINE s == held[r].blocks
             n == held[r].cached
  <2>1. s \in Seq(Blocks) /\ n \in 0..Len(s) /\ Len(s) \in Nat
    BY <1>1, HeldOwn DEF HolderOK
  <2>2. DOMAIN s = 1..Len(s)
    BY <2>1, LenProperties
  <2> HIDE DEF s, n
  <2>3. i \in DOMAIN s /\ i > n <=> i \in (n + 1)..Len(s)
    BY <2>1, <2>2
  <2> QED BY <2>3 DEF s, n
<1>7. ASSUME NEW r \in Holding
      PROVE  /\ (b \in Range(Own(held[r])))
                  <=> (\E i \in DOMAIN held[r].blocks : held[r].blocks[i] = b /\ i > held[r].cached)
             /\ \A i, j \in DOMAIN held[r].blocks :
                  (/\ held[r].blocks[i] = b /\ i > held[r].cached
                   /\ held[r].blocks[j] = b /\ j > held[r].cached) => i = j
  <2>1. HeldOK(held[r]) /\ IsInjective(Own(held[r]))
    BY <1>1 DEF HolderOK, Ledger
  <2> DEFINE D == DOMAIN held[r].blocks
             R == (held[r].cached + 1)..Len(held[r].blocks)
             s == held[r].blocks
             Late(i) == i > held[r].cached
  <2>2. /\ (b \in Range(Own(held[r]))) <=> (\E i \in R : s[i] = b)
        /\ \A i, j \in R : s[i] = s[j] => i = j
    BY <2>1, HeldOwn
  <2>3. \A i : (i \in D /\ Late(i)) <=> i \in R
    BY <1>6
  <2> HIDE DEF D, R, s, Late
  <2>4. (b \in Range(Own(held[r]))) <=> (\E i \in D : s[i] = b /\ Late(i))
    BY <2>2, <2>3, Zenon
  <2>5. \A i, j \in D : (s[i] = b /\ Late(i) /\ s[j] = b /\ Late(j)) => i = j
    BY <2>2, <2>3
  <2> QED BY <2>4, <2>5 DEF D, s, Late
<1>8. b \in Range(free_blocks) <=> \E i \in DOMAIN free_blocks : free_blocks[i] = b
  BY DEF Range
<1>9. \/ b \in Range(free_blocks) /\ b \notin Stored(N) /\ \A r \in Holding : b \notin Range(Own(held[r]))
      \/ b \notin Range(free_blocks) /\ b \in Stored(N) /\ \A r \in Holding : b \notin Range(Own(held[r]))
      \/ b \notin Range(free_blocks) /\ b \notin Stored(N) /\ \E r \in Holding : b \in Range(Own(held[r]))
  <2> HIDE DEF N
  <2> QED BY <1>1 DEF Ledger
<1>10. \E x : \A o : o \in Owners(b) <=> o = x
  <2>1. CASE b \in Range(free_blocks) /\ b \notin Stored(N) /\ \A r \in Holding : b \notin Range(Own(held[r]))
    <3>1. PICK i \in DOMAIN free_blocks : free_blocks[i] = b
      BY <1>8, <2>1
    <3>2. \A o : ~ InTrie(o) /\ ~ InHeld(o)
      <4>1. \A o : ~ InTrie(o)
        BY <1>4, <1>5, <2>1
      <4>2. \A o : ~ InHeld(o)
        BY <1>7, <2>1
      <4> QED BY <4>1, <4>2
    <3>3. \A o : InFree(o) <=> o = <<"free", Root, i>>
      <4>1. \A j \in DOMAIN free_blocks : free_blocks[j] = b => j = i
        BY <1>1, <3>1 DEF Ledger, IsInjective
      <4> QED BY <3>1, <4>1
    <3> DEFINE x == <<"free", Root, i>>
    <3> HIDE DEF InFree, InTrie, InHeld
    <3>5. \A o : (o \in Owners(b)) <=> o = x
      BY <1>2, <3>2, <3>3, Zenon
    <3> HIDE DEF x
    <3> QED BY <3>5
  <2>2. CASE b \notin Range(free_blocks) /\ b \in Stored(N) /\ \A r \in Holding : b \notin Range(Own(held[r]))
    <3>1. PICK id, i : At(N, b, id, i)
      BY <1>4, <2>2
    <3>2. \A o : ~ InFree(o) /\ ~ InHeld(o)
      <4>1. \A o : ~ InFree(o)
        BY <1>8, <2>2
      <4>2. \A o : ~ InHeld(o)
        BY <1>7, <2>2
      <4> QED BY <4>1, <4>2
    <3>3. \A o : InTrie(o) <=> o = <<"trie", id, i>>
      <4>1. \A k, j : At(N, b, k, j) => k = id /\ j = i
        BY <1>1, <3>1 DEF Ledger, Owned
      <4> HIDE DEF N
      <4> QED BY <1>5, <3>1, <4>1
    <3> DEFINE x == <<"trie", id, i>>
    <3> HIDE DEF InFree, InTrie, InHeld
    <3>5. \A o : (o \in Owners(b)) <=> o = x
      BY <1>2, <3>2, <3>3, Zenon
    <3> HIDE DEF x
    <3> QED BY <3>5
  <2>3. CASE b \notin Range(free_blocks) /\ b \notin Stored(N) /\ \E r \in Holding : b \in Range(Own(held[r]))
    <3>1. PICK r \in Holding : b \in Range(Own(held[r]))
      BY <2>3
    <3>2. \A o : ~ InFree(o) /\ ~ InTrie(o)
      <4>1. \A o : ~ InFree(o)
        BY <1>8, <2>3
      <4>2. \A o : ~ InTrie(o)
        BY <1>4, <1>5, <2>3
      <4> QED BY <4>1, <4>2
    <3>3. PICK i \in DOMAIN held[r].blocks : held[r].blocks[i] = b /\ i > held[r].cached
      BY <1>7, <3>1
    <3>4. \A o : InHeld(o) <=> o = <<"held", r, i>>
      <4>1. ASSUME NEW s \in Holding, NEW j \in DOMAIN held[s].blocks,
                   held[s].blocks[j] = b, j > held[s].cached
            PROVE  s = r /\ j = i
        <5>1. b \in Range(Own(held[s]))
          BY <1>7, <4>1
        <5>2. s = r
          BY <1>1, <3>1, <5>1 DEF Ledger
        <5> QED BY <1>7, <3>3, <4>1, <5>2
      <4> QED BY <3>3, <4>1
    <3> DEFINE x == <<"held", r, i>>
    <3> HIDE DEF InFree, InTrie, InHeld
    <3>5. \A o : (o \in Owners(b)) <=> o = x
      BY <1>2, <3>2, <3>4, Zenon
    <3> HIDE DEF x
    <3> QED BY <3>5
  <2> QED BY <1>9, <2>1, <2>2, <2>3
<1>11. PICK x : \A o : o \in Owners(b) <=> o = x
  BY <1>10
<1>12. Owners(b) = {x}
  BY <1>11
<1> QED BY <1>12, FS_Singleton

\* Lists joined in the same way are the same.
LEMMA JoinedIs ==
    ASSUME NEW S, NEW s \in Seq(S), NEW a \in Seq(S), NEW b \in Seq(S), Joined(s, a, b)
    PROVE  s = a \o b
<1> DEFINE t == a \o b
<1>1. t \in Seq(S) /\ Joined(t, a, b)
  BY ConcatJoined
<1>2. Len(a) \in Nat /\ Len(b) \in Nat
  BY LenProperties
<1> HIDE DEF t
<1>3. Len(s) = Len(t) /\ Len(s) = Len(a) + Len(b)
  BY <1>1 DEF Joined
<1>4. ASSUME NEW j \in 1..Len(s) PROVE s[j] = t[j]
  <2>1. CASE j <= Len(a)
    <3>1. j \in 1..Len(a)
      BY <1>2, <2>1
    <3> QED BY <1>1, <3>1 DEF Joined
  <2>2. CASE ~ (j <= Len(a))
    <3> DEFINE y == j - Len(a)
    <3>1. y \in 1..Len(b) /\ Len(a) + y = j
      BY <1>2, <1>3, <2>2
    <3> HIDE DEF y
    <3> QED BY <1>1, <3>1 DEF Joined
  <2> QED BY <2>1, <2>2
<1> QED BY <1>1, <1>3, <1>4, SeqEqual DEF t

\* Path computes the paths.
LEMMA PathIs ==
    ASSUME NEW T, NEW K, NEW V, NEW C, NEW B, StoreOK(T, C, B), LinksOK(T),
           PathsOK(T, K, V, C, B)
    PROVE  \A i \in DOMAIN T.nodes : Path(T)[i].key = K[i] /\ Path(T)[i].blocks = V[i]
<1> DEFINE N == T.nodes
           D == DOMAIN N
           Up(g, id) == IF id = Root THEN [key |-> <<>>, blocks |-> <<>>]
                        ELSE [key |-> g[N[id].parent].key \o N[id].key,
                              blocks |-> g[N[id].parent].blocks \o N[id].blocks]
           Run(g) == g = [id \in D |-> Up(g, id)]
           f == CHOOSE g : Run(g)
           G == [id \in D |-> [key |-> K[id], blocks |-> V[id]]]
<1>1. Path(T) = f
  BY DEF Path
<1>2. /\ \A i \in D : K[i] \in Seq(C) /\ V[i] \in Seq(B) /\ Len(K[i]) \in Nat /\ Len(V[i]) = Len(K[i])
      /\ Root \in D /\ Len(K[Root]) = 0
  BY LenProperties DEF PathsOK, StoreOK
<1>3. ASSUME NEW i \in D, i # Root
      PROVE  /\ N[i].parent \in D /\ Len(K[N[i].parent]) < Len(K[i])
             /\ K[i] = K[N[i].parent] \o N[i].key /\ V[i] = V[N[i].parent] \o N[i].blocks
  <2>1. i \in NonRoot(T)
    BY <1>3 DEF NonRoot
  <2>2. N[i].parent \in D /\ Len(K[N[i].parent]) < Len(K[i])
    BY <2>1, PathStep
  <2>3. N[i].key \in Seq(C) /\ N[i].blocks \in Seq(B)
    BY NodeIs
  <2>4. Joined(K[i], K[N[i].parent], N[i].key) /\ Joined(V[i], V[N[i].parent], N[i].blocks)
    BY <2>1 DEF PathsOK
  <2>5. K[i] = K[N[i].parent] \o N[i].key
    <3> DEFINE s == K[i]
               a == K[N[i].parent]
               b == N[i].key
    <3>1. s \in Seq(C) /\ a \in Seq(C) /\ b \in Seq(C) /\ Joined(s, a, b)
      BY <1>2, <2>2, <2>3, <2>4
    <3> HIDE DEF s, a, b
    <3>2. s = a \o b
      BY ONLY <3>1, JoinedIs
    <3> QED BY <3>2 DEF s, a, b
  <2>6. V[i] = V[N[i].parent] \o N[i].blocks
    <3> DEFINE s == V[i]
               a == V[N[i].parent]
               b == N[i].blocks
    <3>1. s \in Seq(B) /\ a \in Seq(B) /\ b \in Seq(B) /\ Joined(s, a, b)
      BY <1>2, <2>2, <2>3, <2>4
    <3> HIDE DEF s, a, b
    <3>2. s = a \o b
      BY ONLY <3>1, JoinedIs
    <3> QED BY <3>2 DEF s, a, b
  <2> QED BY <2>2, <2>5, <2>6
<1>4. K[Root] = <<>> /\ V[Root] = <<>>
  BY <1>2, EmptySeq
<1> HIDE DEF D, N
<1>5. ASSUME NEW i \in D PROVE G[i] = Up(G, i)
  <2>1. G[i] = [key |-> K[i], blocks |-> V[i]]
    OBVIOUS
  <2>2. CASE i = Root
    BY <1>4, <2>1, <2>2
  <2>3. CASE i # Root
    <3> DEFINE p == N[i].parent
    <3>1. p \in D /\ K[i] = K[p] \o N[i].key /\ V[i] = V[p] \o N[i].blocks
      BY <1>3, <2>3
    <3>2. G[p].key = K[p] /\ G[p].blocks = V[p]
      BY <3>1
    <3>3. Up(G, i) = [key |-> G[p].key \o N[i].key, blocks |-> G[p].blocks \o N[i].blocks]
      BY <2>3
    <3> QED BY <2>1, <3>1, <3>2, <3>3
  <2> QED BY <2>2, <2>3
<1>6. Run(G)
  <2> HIDE DEF Up
  <2>1. G = [id \in D |-> G[id]]
    OBVIOUS
  <2> QED BY <1>5, <2>1
<1>7. Run(f)
  <2> HIDE DEF Run, G
  <2> QED BY <1>6, Zenon
<1> HIDE DEF f
<1>8. \A i \in D : f[i] = Up(f, i)
  <2> HIDE DEF Up
  <2> QED BY <1>7
<1> DEFINE Ok(i) == f[i].key = K[i] /\ f[i].blocks = V[i]
           S == {n \in Nat : \A i \in D : Len(K[i]) <= n => Ok(i)}
<1>9. ASSUME NEW i \in D, i # Root => Ok(N[i].parent) PROVE Ok(i)
  <2>1. f[i] = Up(f, i)
    BY <1>8
  <2>2. CASE i = Root
    BY <1>4, <2>1, <2>2
  <2>3. CASE i # Root
    <3> DEFINE p == N[i].parent
    <3>1. f[p].key = K[p] /\ f[p].blocks = V[p] /\ K[i] = K[p] \o N[i].key /\ V[i] = V[p] \o N[i].blocks
      BY <1>3, <1>9, <2>3
    <3>2. f[i] = [key |-> f[p].key \o N[i].key, blocks |-> f[p].blocks \o N[i].blocks]
      BY <2>1, <2>3
    <3> DEFINE x == f[p].key \o N[i].key
               y == f[p].blocks \o N[i].blocks
    <3>3. x = K[i] /\ y = V[i]
      BY <3>1
    <3>4. f[i] = [key |-> x, blocks |-> y]
      BY <3>2
    <3> HIDE DEF x, y
    <3>5. f[i].key = x /\ f[i].blocks = y
      BY <3>4
    <3> QED BY <3>3, <3>5
  <2> QED BY <2>2, <2>3
<1> HIDE DEF Ok
<1>10. 0 \in S
  <2>1. ASSUME NEW i \in D, Len(K[i]) <= 0 PROVE Ok(i)
    <3>1. i = Root
      <4>1. SUFFICES ASSUME i # Root PROVE FALSE
        OBVIOUS
      <4>2. N[i].parent \in D /\ Len(K[N[i].parent]) < Len(K[i])
        BY <1>3, <4>1
      <4> QED BY <1>2, <2>1, <4>2
    <3> QED BY <1>9, <3>1
  <2> QED BY <2>1
<1>11. ASSUME NEW n \in Nat, n \in S PROVE n + 1 \in S
  <2>1. ASSUME NEW i \in D, Len(K[i]) <= n + 1 PROVE Ok(i)
    <3>1. i # Root => Ok(N[i].parent)
      <4>1. SUFFICES ASSUME i # Root PROVE Ok(N[i].parent)
        OBVIOUS
      <4>2. N[i].parent \in D /\ Len(K[N[i].parent]) < Len(K[i])
        BY <1>3, <4>1
      <4>3. Len(K[N[i].parent]) <= n
        BY <1>2, <2>1, <4>2
      <4> QED BY <1>11, <4>2, <4>3
    <3> QED BY <1>9, <3>1
  <2> QED BY <2>1
<1> HIDE DEF S
<1>12. ASSUME NEW i \in D PROVE Ok(i)
  <2> DEFINE L == Len(K[i])
  <2>1. L \in Nat
    BY <1>2
  <2> HIDE DEF L
  <2>2. \A k \in 1..L : k - 1 \in S => k \in S
    <3>1. ASSUME NEW k \in 1..L, k - 1 \in S PROVE k \in S
      <4> DEFINE y == k - 1
      <4>1. y \in Nat /\ y + 1 = k
        BY <2>1
      <4>2. y \in S
        BY <3>1
      <4> HIDE DEF y
      <4> QED BY <1>11, <4>1, <4>2
    <3> QED BY <3>1
  <2>3. 0..L \subseteq S
    BY <1>10, <2>1, <2>2, IntervalInduction
  <2>4. L \in S
    BY <2>1, <2>3
  <2> QED BY <2>1, <2>4 DEF S, L
<1> QED BY <1>1, <1>12 DEF Ok, D, N

\* The same beginning means the same chunks so far.
LEMMA SameTake ==
    ASSUME NEW S, NEW s \in Seq(S), NEW t \in Seq(S), NEW i \in 1..Len(s), NEW j \in 1..Len(t),
           Take(s, i) = Take(t, j)
    PROVE  i = j /\ SameTo(j, s, t)
<1>1. i \in 0..Len(s) /\ j \in 0..Len(t)
  BY LenProperties
<1> DEFINE a == Take(s, i)
           b == Take(t, j)
<1>2. Len(a) = i /\ \A y \in 1..i : a[y] = s[y]
  BY <1>1, CutElements
<1>3. Len(b) = j /\ \A y \in 1..j : b[y] = t[y]
  BY <1>1, CutElements
<1>4. a = b
  OBVIOUS
<1> HIDE DEF a, b
<1>5. i = j
  BY <1>2, <1>3, <1>4
<1>6. \A y \in 1..j : s[y] = t[y]
  BY <1>2, <1>3, <1>4, <1>5
<1> QED BY <1>1, <1>5, <1>6 DEF SameTo

\* What the cache has for the beginning of a path is the block of that path.
LEMMA ContentsAt ==
    ASSUME NEW T, NEW K, NEW V, NEW C, NEW B, StoreOK(T, C, B), LinksOK(T),
           PathsOK(T, K, V, C, B), NEW n \in DOMAIN T.nodes, NEW j \in 1..Len(K[n])
    PROVE  Take(K[n], j) \in DOMAIN Contents(T) /\ Contents(T)[Take(K[n], j)] = V[n][j]
<1> DEFINE P == Path(T)
           R == NonRoot(T)
           Up(i) == T.nodes[i].parent
           from(i) == Len(P[i].key) - Len(T.nodes[i].key)
           Part(i) == {<<Take(P[i].key, x), P[i].blocks[x]>> : x \in (from(i) + 1)..Len(P[i].key)}
           E == UNION {Part(i) : i \in R}
           Entry(e, i, x) == /\ i \in R /\ x \in (Len(K[Up(i)]) + 1)..Len(K[i])
                             /\ e = <<Take(K[i], x), V[i][x]>>
<1>1. Contents(T) = [k \in {e[1] : e \in E} |-> (CHOOSE e \in E : e[1] = k)[2]]
  BY DEF Contents
<1>2. ASSUME NEW i \in R
      PROVE  /\ P[i].key = K[i] /\ P[i].blocks = V[i] /\ from(i) = Len(K[Up(i)])
             /\ i \in DOMAIN T.nodes /\ Up(i) \in DOMAIN T.nodes
  <2>1. i \in DOMAIN T.nodes
    BY DEF NonRoot
  <2>2. P[i].key = K[i] /\ P[i].blocks = V[i]
    BY <2>1, PathIs
  <2>3. /\ Len(K[i]) \in Nat /\ Len(K[Up(i)]) \in Nat /\ Len(T.nodes[i].key) \in Nat
        /\ Len(K[i]) = Len(K[Up(i)]) + Len(T.nodes[i].key) /\ Up(i) \in DOMAIN T.nodes
    BY PathStep
  <2>4. from(i) = Len(K[i]) - Len(T.nodes[i].key)
    BY <2>2
  <2> HIDE DEF from, P
  <2>5. from(i) = Len(K[Up(i)])
    BY <2>3, <2>4
  <2> QED BY <2>1, <2>2, <2>3, <2>5
<1>3. ASSUME NEW e, NEW i \in R
      PROVE  e \in Part(i) <=> \E x : Entry(e, i, x)
  <2>1. P[i].key = K[i] /\ P[i].blocks = V[i] /\ from(i) = Len(K[Up(i)])
    BY <1>2
  <2>2. Part(i) = {<<Take(K[i], x), V[i][x]>> : x \in (Len(K[Up(i)]) + 1)..Len(K[i])}
    <3> HIDE DEF from, P
    <3> QED BY <2>1, Zenon
  <2> HIDE DEF Part, R
  <2> QED BY <2>2
<1> HIDE DEF P, from, Part
<1>4. \A e : e \in E <=> \E i \in R : \E x : Entry(e, i, x)
  <2>1. ASSUME NEW e PROVE e \in E <=> \E i \in R : e \in Part(i)
    OBVIOUS
  <2> HIDE DEF E, Entry, R
  <2> QED BY <1>3, <2>1, Zenon
<1> HIDE DEF E
<1>5. \A i \in DOMAIN T.nodes : K[i] \in Seq(C) /\ V[i] \in Seq(B) /\ Len(K[i]) \in Nat
  BY LenProperties DEF PathsOK
<1>6. j \in Nat /\ j > 0 /\ j <= Len(K[n])
  BY <1>5
<1>7. PICK i \in R : Len(K[Up(i)]) < j /\ SameTo(j, K[i], K[n]) /\ SameTo(j, V[i], V[n])
  BY Locate
<1>8. i \in DOMAIN T.nodes /\ Up(i) \in DOMAIN T.nodes
  BY <1>2
<1>9. j \in (Len(K[Up(i)]) + 1)..Len(K[i]) /\ j \in 1..Len(K[i])
  <2>1. j <= Len(K[i]) /\ Len(K[Up(i)]) \in Nat /\ Len(K[i]) \in Nat /\ Len(K[Up(i)]) < j
    BY <1>5, <1>7, <1>8 DEF SameTo
  <2> QED BY <1>6, <2>1
<1> DEFINE k == Take(K[n], j)
           e0 == <<Take(K[i], j), V[i][j]>>
<1>10. Take(K[i], j) = k /\ V[i][j] = V[n][j]
  <2>1. V[i][j] = V[n][j]
    BY <1>6, <1>7 DEF SameTo
  <2> QED BY <1>5, <1>6, <1>7, <1>8, <2>1, TakeSame
<1>11. e0 \in E /\ e0[1] = k
  <2>1. Entry(e0, i, j)
    BY <1>9
  <2>2. e0[1] = Take(K[i], j)
    OBVIOUS
  <2> HIDE DEF e0, Entry
  <2> QED BY <1>4, <1>10, <2>1, <2>2
<1>12. ASSUME NEW e \in E, e[1] = k PROVE e[2] = V[n][j]
  <2>1. PICK m \in R : \E x : Entry(e, m, x)
    BY <1>4
  <2>2. PICK x : Entry(e, m, x)
    BY <2>1
  <2>3. /\ x \in (Len(K[Up(m)]) + 1)..Len(K[m]) /\ e = <<Take(K[m], x), V[m][x]>>
        /\ m \in DOMAIN T.nodes /\ Up(m) \in DOMAIN T.nodes
    BY <1>2, <2>2
  <2>4. e[1] = Take(K[m], x) /\ e[2] = V[m][x]
    BY <2>3
  <2>5. x \in 1..Len(K[m]) /\ Len(K[Up(m)]) < x
    <3>1. Len(K[Up(m)]) \in Nat /\ Len(K[m]) \in Nat
      BY <1>5, <2>3
    <3> QED BY <2>3, <3>1
  <2>6. x = j /\ SameTo(j, K[m], K[i])
    <3>1. Take(K[m], x) = Take(K[i], j)
      BY <1>10, <1>12, <2>4
    <3> QED BY <1>5, <1>8, <1>9, <2>3, <2>5, <3>1, SameTake
  <2>7. SameTo(j, K[i], K[m])
    BY <2>6 DEF SameTo
  <2>8. Begins(K[m], K[i])
    BY <1>6, <1>8, <2>5, <2>6, OnTheWay
  <2>9. Begins(K[i], K[m])
    BY <1>6, <1>7, <2>3, <2>7, OnTheWay
  <2>10. m = i
    BY <1>8, <2>3, <2>8, <2>9, OnePath
  <2> QED BY <1>10, <2>4, <2>6, <2>10
<1> DEFINE W == CHOOSE e \in E : e[1] = k
<1>13. W \in E /\ W[1] = k
  <2> HIDE DEF e0, k
  <2> QED BY <1>11
<1>14. W[2] = V[n][j]
  BY <1>12, <1>13
<1>15. k \in {e[1] : e \in E}
  <2> HIDE DEF e0, k
  <2> QED BY <1>11
<1> HIDE DEF k
<1>16. k \in DOMAIN Contents(T) /\ Contents(T)[k] = W[2]
  BY <1>1, <1>15
<1> QED BY <1>14, <1>16 DEF k

\* What an allocation references is the beginning of the path to its node.
LEMMA ReferencedIs ==
    ASSUME CacheInv, NEW K, NEW V, CacheIs(trie, held, kv, uncomputed, K, V), NEW r \in Holding
    PROVE  LET a == held[r]
               n == a.prefix_node
               c == Referenced(r)
           IN  /\ n \in DOMAIN trie.nodes /\ K[n] \in Seq(Chunks) /\ a.key \in Seq(Chunks)
               /\ c \in Nat /\ SameTo(c, K[n], a.key) /\ SameTo(c, V[n], a.blocks)
<1> DEFINE a == held[r]
           n == a.prefix_node
           c == Referenced(r)
<1>1. r \in HoldingIn(held) /\ HolderOK(held)
  BY DEF Holding, HoldingIn, CacheInv, AllocInv
<1>2. /\ StoreOK(trie, Chunks, Blocks) /\ LinksOK(trie) /\ PathsOK(trie, K, V, Chunks, Blocks)
      /\ HeldPath(a, K, V) /\ HeldOK(a)
  BY <1>1 DEF CacheInv, AllocInv, TrieOK, CacheIs, HolderOK
<1>3. n \in DOMAIN trie.nodes
  <2>1. UsersIn(held)[n] > 0 /\ n \in Nat
    BY <1>1, <1>2, UsersAre DEF HeldOK
  <2> HIDE DEF n
  <2> QED BY <2>1 DEF CacheInv, AllocInv, TrieOK, CountsOK
<1>4. K[n] \in Seq(Chunks) /\ Len(K[n]) \in Nat /\ a.key \in Seq(Chunks) /\ a.cached \in Nat
  <2>1. K[n] \in Seq(Chunks)
    BY <1>2, <1>3 DEF PathsOK
  <2> QED BY <1>2, <2>1, LenProperties DEF HeldOK
<1>5. Path(trie)[n].key = K[n]
  BY <1>2, <1>3, PathIs
<1>6. c = Reach(a.partial, a.cached, a.key, K[n])
  BY <1>5 DEF Referenced, Reach
<1>7. c \in Nat
  BY <1>4, <1>6 DEF Reach
<1>8. SameTo(c, K[n], a.key) /\ SameTo(c, V[n], a.blocks)
  BY <1>2, <1>6 DEF HeldPath
<1> QED BY <1>3, <1>4, <1>7, <1>8

\* So what it references holds what was computed for its prefix.
LEMMA InvComputed == CacheInvOK => ComputedPrefixValid
<1> SUFFICES ASSUME CacheInv,
                    NEW r \in Holding, NEW i \in 1..Referenced(r), held[r].blocks[i] \notin uncomputed
             PROVE  kv[held[r].blocks[i]] = Take(held[r].key, i)
  BY DEF CacheInvOK, ComputedPrefixValid
<1> DEFINE n == held[r].prefix_node
           c == Referenced(r)
           key == held[r].key
           b == held[r].blocks
<1>1. PICK K, V : CacheIs(trie, held, kv, uncomputed, K, V)
  BY DEF CacheInv
<1>2. /\ n \in DOMAIN trie.nodes /\ K[n] \in Seq(Chunks) /\ key \in Seq(Chunks)
      /\ c \in Nat /\ SameTo(c, K[n], key) /\ SameTo(c, V[n], b)
  BY <1>1, ReferencedIs
<1>3. i \in 1..c /\ b[i] \notin uncomputed
  OBVIOUS
<1> HIDE DEF c, key, b, n
<1>4. i \in Nat /\ i \in 1..Len(K[n]) /\ SameTo(i, K[n], key) /\ V[n][i] = b[i]
  BY <1>2, <1>3, LenProperties DEF SameTo
<1>5. Take(K[n], i) = Take(key, i)
  BY <1>2, <1>4, TakeSame
<1>6. V[n][i] \notin uncomputed => kv[V[n][i]] = Take(K[n], i)
  BY <1>1, <1>2, <1>4 DEF CacheIs, Right, PathsOK
<1>7. kv[b[i]] = Take(key, i)
  BY <1>3, <1>4, <1>5, <1>6
<1> QED BY <1>7 DEF b, key

\* And it is still in the cache.
LEMMA InvFound == CacheInvOK => ReferencedPrefixKept
<1> SUFFICES ASSUME CacheInv, NEW r \in Holding, NEW i \in 1..Referenced(r)
             PROVE  /\ Take(held[r].key, i) \in DOMAIN Contents(trie)
                    /\ Contents(trie)[Take(held[r].key, i)] = held[r].blocks[i]
  BY DEF CacheInvOK, ReferencedPrefixKept, StillCached
<1> DEFINE n == held[r].prefix_node
           c == Referenced(r)
           key == held[r].key
           b == held[r].blocks
<1>1. PICK K, V : CacheIs(trie, held, kv, uncomputed, K, V)
  BY DEF CacheInv
<1>2. /\ n \in DOMAIN trie.nodes /\ K[n] \in Seq(Chunks) /\ key \in Seq(Chunks)
      /\ c \in Nat /\ SameTo(c, K[n], key) /\ SameTo(c, V[n], b)
  BY <1>1, ReferencedIs
<1>3. StoreOK(trie, Chunks, Blocks) /\ LinksOK(trie) /\ PathsOK(trie, K, V, Chunks, Blocks)
  BY <1>1 DEF CacheInv, AllocInv, TrieOK, CacheIs
<1>4. i \in 1..c
  OBVIOUS
<1> HIDE DEF c, key, b, n
<1>5. i \in Nat /\ i \in 1..Len(K[n]) /\ SameTo(i, K[n], key) /\ V[n][i] = b[i]
  BY <1>2, <1>4, LenProperties DEF SameTo
<1>6. Take(K[n], i) = Take(key, i)
  BY <1>2, <1>5, TakeSame
<1>7. Take(K[n], i) \in DOMAIN Contents(trie) /\ Contents(trie)[Take(K[n], i)] = V[n][i]
  BY <1>2, <1>3, <1>5, ContentsAt
<1>8. Take(key, i) \in DOMAIN Contents(trie) /\ Contents(trie)[Take(key, i)] = b[i]
  BY <1>5, <1>6, <1>7
<1> QED BY <1>8 DEF key, b

\* Until a lookup strays every block has one owner: allocate, free, insert, split
\* and evict neither lose a block nor hand one out twice.
THEOREM OneOwnerCorrect == Spec => []OneOwner
BY CacheInvariant, InvOwner, PTL

\* Until a lookup strays the blocks an allocation references in the cache stay
\* there, under its prefix, until it is dropped, whatever is evicted or split
\* meanwhile.
THEOREM ReferencedPrefixCorrect == Spec => []ReferencedPrefixKept
BY CacheInvariant, InvFound, PTL

\* Until a lookup strays a block that an allocation references is never one that
\* was computed for another prefix, blocks of prompts dropped before their prefill
\* excepted.
THEOREM ComputedPrefixCorrect == Spec => []ComputedPrefixValid
BY CacheInvariant, InvComputed, PTL
=============================================================================
