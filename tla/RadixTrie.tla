------------------------------ MODULE RadixTrie ------------------------------
(***************************************************************************)
(* The radix trie behind prefix caching, as operators on trie values.      *)
(*                                                                         *)
(* Keys are counted in blocks.  The trie only ever compares and cuts token *)
(* sequences at multiples of the block size (a child is selected by the    *)
(* hash of one block, taken to be injective, and shared_prefix rounds      *)
(* down), so a key is a sequence of chunks, one chunk standing for the     *)
(* block_size tokens of one block.  What find still sees of the tokens     *)
(* after the last full block is whether there are any.                     *)
(*                                                                         *)
(* The asserts and expects of the code set panicked: the task that owns    *)
(* the trie dies there.                                                    *)
(*                                                                         *)
(* find_, insert_ and the loop of evict are functions of the number of     *)
(* calls or iterations done; one after the last is the identity.           *)
(***************************************************************************)
EXTENDS Naturals, Sequences, FiniteSets, SequencesExt

\* Node ids are SlotMap keys: versioned, so an id never comes back.
Root == 0

TrieNode(key, blocks, last_accessed, parent) ==
    [key |-> key, blocks |-> blocks, children |-> <<>>,
     last_accessed |-> last_accessed, parent |-> parent, ref_count |-> 0]

NewTrie ==
    [nodes |-> [id \in {Root} |-> TrieNode(<<>>, <<>>, 0, Root)],
     leaves |-> {}, time |-> 0, next_id |-> 1, panicked |-> FALSE]

Take(s, n) == SubSeq(s, 1, n)
Skip(s, n) == SubSeq(s, n + 1, Len(s))
Without(f, x) == [y \in DOMAIN f \ {x} |-> f[y]]
With(f, x, v) == [y \in DOMAIN f \cup {x} |-> IF y = x THEN v ELSE f[y]]

Panic(T) == [T EXCEPT !.panicked = TRUE]

SharedPrefix(left, right) == Len(LongestCommonPrefix({left, right}))

UpdateAccessTime(T, id) ==
    LET old == <<T.nodes[id].last_accessed, id>>
    IN  [T EXCEPT !.nodes[id].last_accessed = T.time,
                  !.leaves = IF old \in @ THEN (@ \ {old}) \cup {<<T.time, id>>} ELSE @]
-----------------------------------------------------------------------------
(* Reference counts: the children of a node plus the allocations that use  *)
(* its prefix.  The root is not counted.                                   *)

\* Mutant: a referenced node stays in the set of evictable leaves.
IncrefKeepsLeaf(T, id) ==
    IF id = Root THEN T
    ELSE IF id \notin DOMAIN T.nodes THEN Panic(T)
    ELSE [T EXCEPT !.nodes[id].ref_count = @ + 1]

Incref(T, id) ==
    IF id = Root THEN T
    ELSE IF id \notin DOMAIN T.nodes THEN Panic(T)
    ELSE [T EXCEPT
            !.nodes[id].ref_count = @ + 1,
            !.leaves = IF T.nodes[id].ref_count = 0
                       THEN @ \ {<<T.nodes[id].last_accessed, id>>} ELSE @]

\* Mutant: the node does not become evictable again.
DecrefForgetsLeaf(T, id) ==
    IF id = Root THEN T
    ELSE IF id \notin DOMAIN T.nodes \/ T.nodes[id].ref_count = 0 THEN Panic(T)
    ELSE [T EXCEPT !.nodes[id].ref_count = @ - 1]

Decref(T, id) ==
    IF id = Root THEN T
    ELSE IF id \notin DOMAIN T.nodes \/ T.nodes[id].ref_count = 0 THEN Panic(T)
    ELSE IF T.nodes[id].ref_count > 1 THEN [T EXCEPT !.nodes[id].ref_count = @ - 1]
    ELSE IF DOMAIN T.nodes[id].children # {} THEN Panic(T)
    ELSE [T EXCEPT
            !.nodes[id].ref_count = 0,
            !.leaves = @ \cup {<<T.nodes[id].last_accessed, id>>}]
-----------------------------------------------------------------------------
(* find                                                                    *)

\* One call of find_.  When the key ends exactly at the child, the loop stops
\* with the child's parent as its node.  It goes on in the child's children also
\* when only a part of the child's key matched: strayed records that it did and
\* found one.
FindStep(w) ==
    LET node == w.trie.nodes[w.node]
    IN  IF w.done \/ w.key = <<>> \/ Head(w.key) \notin DOMAIN node.children
        THEN [w EXCEPT !.done = TRUE]
        ELSE LET id == node.children[Head(w.key)]
                 child == w.trie.nodes[id]
                 shared == SharedPrefix(child.key, w.key)
                 ends == Len(w.key) = shared /\ ~w.partial
             IN  [w EXCEPT !.trie = UpdateAccessTime(w.trie, id),
                           !.blocks = @ \o Take(child.blocks, shared),
                           !.key = Skip(@, shared),
                           !.node = IF ends THEN @ ELSE id,
                           !.strayed = @ \/ (/\ shared < Len(child.key)
                                             /\ shared < Len(w.key)
                                             /\ w.key[shared + 1] \in DOMAIN child.children),
                           !.done = ends]

\* The blocks of the cached prefix of key, the node to hold while they are in
\* use, and the trie with its access times updated.
Find(T, key, partial) ==
    LET calls == Len(key) + 1
        after[i \in 0..calls] ==
            IF i = 0
            THEN [trie |-> [T EXCEPT !.time = @ + 1], node |-> Root, key |-> key,
                  partial |-> partial, blocks |-> <<>>, strayed |-> FALSE,
                  done |-> FALSE]
            ELSE FindStep(after[i - 1])
    IN  after[calls]
-----------------------------------------------------------------------------
(* insert                                                                  *)

\* Only a child that does not replace another one counts as a reference.
AddNodeToParent(T, parent, chunk, id) ==
    LET new == chunk \notin DOMAIN T.nodes[parent].children
        linked == [T EXCEPT !.nodes[parent].children = With(@, chunk, id)]
    IN  IF new THEN Incref(linked, parent) ELSE linked

AddNode(T, parent, key, blocks) ==
    LET id == T.next_id
        grown == [T EXCEPT
                    !.nodes = With(@, id, TrieNode(key, blocks, T.time, parent)),
                    !.next_id = @ + 1]
        linked == AddNodeToParent(grown, parent, Head(key), id)
    IN  [linked EXCEPT !.leaves = @ \cup {<<T.time, id>>}]

\* Mutant: the old node keeps pointing at its grandparent.
SplitNodeKeepsParent(T, id, n) ==
    LET node == T.nodes[id]
        cut == [T EXCEPT !.nodes[id].key = Skip(@, n),
                         !.nodes[id].blocks = Skip(@, n)]
        split == AddNode(cut, node.parent, Take(node.key, n), Take(node.blocks, n))
    IN  AddNodeToParent(split, T.next_id, node.key[n + 1], id)

\* Mutant: the keys are swapped and the blocks are not.
SplitNodeSwapsKeysOnly(T, id, n) ==
    LET node == T.nodes[id]
        cut == [T EXCEPT !.nodes[id].key = Skip(@, n),
                         !.nodes[id].blocks = Take(@, n)]
        split == AddNode(cut, node.parent, Take(node.key, n), Skip(node.blocks, n))
        linked == AddNodeToParent(split, T.next_id, node.key[n + 1], id)
    IN  [linked EXCEPT !.nodes[id].parent = T.next_id]

\* The old node keeps its id, its children and its references, and becomes the
\* child of a new node (id T.next_id) that takes the first n blocks.
SplitNode(T, id, n) ==
    LET node == T.nodes[id]
        cut == [T EXCEPT !.nodes[id].key = Skip(@, n),
                         !.nodes[id].blocks = Skip(@, n)]
        split == AddNode(cut, node.parent, Take(node.key, n), Take(node.blocks, n))
        linked == AddNodeToParent(split, T.next_id, node.key[n + 1], id)
    IN  [linked EXCEPT !.nodes[id].parent = T.next_id]

\* One call of insert_.
InsertStep(w) ==
    LET node == w.trie.nodes[w.node]
    IN  IF w.done THEN w
        ELSE IF Head(w.key) \notin DOMAIN node.children
        THEN [w EXCEPT !.trie = AddNode(@, w.node, w.key, w.blocks), !.done = TRUE]
        ELSE LET id == node.children[Head(w.key)]
                 child == w.trie.nodes[id]
                 shared == SharedPrefix(child.key, w.key)
                 touched == UpdateAccessTime(w.trie, id)
                 split == shared < Len(w.key) /\ shared < Len(child.key)
             IN  [w EXCEPT !.trie = IF split THEN SplitNode(touched, id, shared)
                                             ELSE touched,
                           !.node = IF split THEN w.trie.next_id ELSE id,
                           !.key = Skip(@, shared),
                           !.blocks = Skip(@, shared),
                           !.common = @ + shared,
                           !.done = shared = Len(w.key)]

\* Adds key with its blocks; common is the length that was there already, for
\* which the blocks are not updated.
Insert(T, key, blocks) ==
    LET calls == Len(key) + 1
        after[i \in 0..calls] ==
            IF i = 0
            THEN [trie |-> [T EXCEPT !.time = @ + 1], node |-> Root, key |-> key,
                  blocks |-> blocks, common |-> 0, done |-> FALSE]
            ELSE InsertStep(after[i - 1])
    IN  after[calls]
-----------------------------------------------------------------------------
(* evict                                                                   *)

RemoveNode(T, id) ==
    LET node == T.nodes[id]
        rest == [Without(T.nodes, id) EXCEPT
                    ![node.parent].children = Without(@, Head(node.key))]
    IN  IF DOMAIN node.children # {} THEN Panic(T)
        ELSE Decref([T EXCEPT !.nodes = rest], node.parent)

\* Mutant: the most recently used leaf goes first.
LastLeaf(leaves) ==
    CHOOSE l \in leaves : \A o \in leaves : l[1] >= o[1]

\* BTreeSet::pop_first: the least recently used leaf, ties by id.
FirstLeaf(leaves) ==
    CHOOSE l \in leaves :
        \A o \in leaves : l[1] < o[1] \/ (l[1] = o[1] /\ l[2] <= o[2])

\* Mutant: nodes are only evicted as a whole.
EvictStepWholeNodes(w) ==
    IF w.done \/ w.trie.leaves = {} THEN [w EXCEPT !.done = TRUE]
    ELSE LET leaf == FirstLeaf(w.trie.leaves)
             popped == [w.trie EXCEPT !.leaves = @ \ {leaf}]
             blocks == popped.nodes[leaf[2]].blocks
         IN  [w EXCEPT !.trie = RemoveNode(popped, leaf[2]),
                       !.evicted = @ \o blocks,
                       !.done = Len(w.evicted) + Len(blocks) >= w.n]

\* One iteration of the loop over the leaves.
EvictStep(w) ==
    IF w.done \/ w.trie.leaves = {} THEN [w EXCEPT !.done = TRUE]
    ELSE LET leaf == FirstLeaf(w.trie.leaves)
             id == leaf[2]
             needed == IF Len(w.evicted) < w.n THEN w.n - Len(w.evicted) ELSE 0
             popped == [w.trie EXCEPT !.leaves = @ \ {leaf}]
             size == Len(popped.nodes[id].blocks)
         IN  IF id \notin DOMAIN popped.nodes \/ popped.nodes[id].ref_count # 0
             THEN [w EXCEPT !.trie = Panic(popped), !.done = TRUE]
             ELSE IF needed >= size
             THEN [w EXCEPT !.trie = RemoveNode(popped, id),
                            !.evicted = @ \o popped.nodes[id].blocks,
                            !.done = Len(w.evicted) + size >= w.n]
             ELSE [w EXCEPT !.trie = [popped EXCEPT
                                        !.nodes[id].key = Take(@, size - needed),
                                        !.nodes[id].blocks = Take(@, size - needed),
                                        !.leaves = @ \cup {leaf}],
                            !.evicted = @ \o Skip(popped.nodes[id].blocks, size - needed),
                            !.done = TRUE]

\* Evicts n blocks from the trie, or as many as can be.
Evict(T, n) ==
    LET turns == Cardinality(DOMAIN T.nodes)
        after[i \in 0..turns] ==
            IF i = 0 THEN [trie |-> T, n |-> n, evicted |-> <<>>, done |-> FALSE]
            ELSE EvictStep(after[i - 1])
    IN  after[turns]
=============================================================================
