--------------------------- MODULE TensorParallel ---------------------------
(***************************************************************************)
(* A sharded model server: W ranks load the same model, each its share of  *)
(* the weights, and run the same program (Layers.tla and the model modules *)
(* above it) on registers of their own.  They meet only in the all-reduce  *)
(* and all-gather of the process group.                                    *)
(*                                                                         *)
(* A tensor is abstracted to where it comes from: a bag of terms           *)
(* <<site, part>>, one for every instruction whose result was added into   *)
(* it.  `part' is Whole, the rank whose partial sum it is, or Scrambled    *)
(* when weight rows, bias rows or heads that do not belong together were   *)
(* combined.  `slice' says that the rank holds only its share of the       *)
(* columns.  Running the same program on one device gives the reference.   *)
(***************************************************************************)
EXTENDS Layers, Bags, FiniteSets

CONSTANTS
    Deployments,  \* set of [arch, program, W, H, K, vocab, token]
    HeadSize      \* columns of one attention head

ASSUME DeploymentsAssumption ==
    /\ HeadSize \in Nat \ {0}
    /\ \A d \in Deployments :
          /\ \A i \in DOMAIN d.program : d.program[i].dst \in STRING
          /\ d.W \in Nat \ {0} /\ d.H \in Nat \ {0} /\ d.K \in 1..d.H
          /\ d.token \in 0..d.vocab - 1

VARIABLES
    deployment,   \* the model, the number of shards, the head counts, the input
    status,       \* rank -> loading, running, refused, raised, done
    pc,           \* rank -> next instruction
    reg,          \* rank -> register -> value
    ideal         \* history: what the registers of one device would hold

vars == <<deployment, status, pc, reg, ideal>>

W == deployment.W
Ranks == 0..W - 1
Program == deployment.program
Instruction(r) == Program[pc[r]]
RunningAt(r, ops) ==
    status[r] = "running" /\ pc[r] \in DOMAIN Program /\ Instruction(r).op \in ops

\* The parts of a term that are not the partial sum of a rank.
Whole == -1
Scrambled == -2
BiasPart == -3

Registers(program) == { program[i].dst : i \in DOMAIN program }
    \cup UNION { {program[i].src[k] : k \in DOMAIN program[i].src} : i \in DOMAIN program }

Full(terms) == [slice |-> FALSE, terms |-> terms]
Zero == Full(EmptyBag)
Term(site, part) == SetToBag({<<site, part>>})

-----------------------------------------------------------------------------
(***************************************************************************)
(* utils/weights.py: which rows of a tensor of `size' rows a rank loads.   *)
(***************************************************************************)
get_sharded(size, w, r) == [i \in 1..(size \div w) |-> r * (size \div w) + i - 1]

get_packed_sharded(blocks, size, w, r) ==
    LET b == (size \div blocks) \div w
    IN  [i \in 1..(blocks * b) |->
            ((i - 1) \div b) * (size \div blocks) + r * b + ((i - 1) % b)]

\* A row of a fused weight of n rows a part, as <<part, index in the part>>.
RowAt(fused, n, position) ==
    CASE fused.order = "blocks" -> <<position \div n, position % n>>
      [] fused.order = "heads"  -> <<position % fused.parts, position \div fused.parts>>
      [] fused.order = "one kv head" ->
            IF position < n THEN <<0, position>> ELSE <<position - n + 1, 0>>

LoadedRows(fused, how, n, w, r) ==
    LET size == fused.parts * n
        positions == CASE how = "packed"  -> get_packed_sharded(fused.parts, size, w, r)
                       [] how = "sharded" -> get_sharded(size, w, r)
                       [] how = "kv appended" -> get_sharded(n, w, r) \o <<n, n + 1>>
    IN  [i \in DOMAIN positions |-> RowAt(fused, n, positions[i])]

\* What forward() takes the columns of the rank's output to be: its rows of
\* every part, part by part or head by head, or its query rows and the key and
\* value of the one head.
ExpectedRows(fused, n, w, r) ==
    LET b == n \div w
        rows == 1..(fused.parts * b)
    IN  CASE fused.order = "blocks" -> [i \in rows |-> <<(i - 1) \div b, r * b + ((i - 1) % b)>>]
          [] fused.order = "heads"  ->
                [i \in rows |-> <<(i - 1) % fused.parts, r * b + ((i - 1) \div fused.parts)>>]
          [] fused.order = "one kv head" ->
                [i \in 1..b |-> <<0, r * b + i - 1>>] \o << <<1, 0>>, <<2, 0>> >>

ColumnPart(fused, w, r) ==
    LET n == 2 * w
    IN  IF \A how \in {fused.weight, fused.bias} :
               LoadedRows(fused, how, n, w, r) = ExpectedRows(fused, n, w, r)
        THEN Whole ELSE Scrambled

-----------------------------------------------------------------------------
(***************************************************************************)
(* Attention heads.  What the classes check when they are built, and what  *)
(* the split or view in forward() then requires.  A column layer asserts   *)
(* that its rows divide among the ranks.                                   *)
(***************************************************************************)
\* A mutated form: as many groups as ranks are too few.
HeadsAcceptedOffByOne(arg, h, k, w) ==
    /\ (h * HeadSize) % w = 0
    /\ arg.heads = "checked" => h % w = 0
    /\ CASE arg.kv = "checked"   -> k % w = 0
         [] arg.kv = "asserted"  -> h = k \/ (k >= w /\ k % w = 0)
         [] arg.kv = "unchecked" -> k >= w /\ (k * HeadSize) % w = 0
         [] arg.kv = "groups"    -> w < k /\ k % w = 0
         [] arg.kv \in {"same", "shared", "undivided"} -> TRUE

HeadsAccepted(arg, h, k, w) ==
    /\ (h * HeadSize) % w = 0
    /\ arg.heads = "checked" => h % w = 0
    /\ CASE arg.kv = "checked"   -> k % w = 0
         [] arg.kv = "asserted"  -> h = k \/ (k >= w /\ k % w = 0)
         [] arg.kv = "unchecked" -> k >= w /\ (k * HeadSize) % w = 0
         [] arg.kv = "groups"    -> w <= k /\ k % w = 0
         [] arg.kv \in {"same", "shared", "undivided"} -> TRUE

HeadsSplit(arg, h, k, w) ==
    CASE arg.kv = "undivided" -> w = 1
      [] arg.kv = "unchecked" -> h % w = 0 /\ k % w = 0
      [] OTHER                -> h % w = 0

\* The key/value head a query head attends with: on the rank, and in the model.
LocalKvHead(arg, h, k, w, r, i) ==
    CASE arg.kv = "shared" -> 0
      [] arg.kv \in {"same", "undivided"} -> r * (h \div w) + i
      [] OTHER -> r * (k \div w) + (i \div ((h \div w) \div (k \div w)))

ModelKvHead(arg, h, k, w, r, i) ==
    CASE arg.kv = "shared" -> 0
      [] arg.kv \in {"same", "undivided"} -> r * (h \div w) + i
      [] OTHER -> (r * (h \div w) + i) \div (h \div k)

HeadsPart(arg, h, k, w, r) ==
    IF \A i \in 0..(h \div w) - 1 : LocalKvHead(arg, h, k, w, r, i) = ModelKvHead(arg, h, k, w, r, i)
    THEN Whole ELSE Scrambled

-----------------------------------------------------------------------------
(***************************************************************************)
(* TensorParallelEmbedding: rank r keeps the ids from min_id to max_id and *)
(* maps every other id to a row of zeros.                                  *)
(***************************************************************************)
BlockSize(vocab, w) == (vocab + w - 1) \div w
MinId(vocab, w, r) == r * BlockSize(vocab, w)
MaxId(vocab, w, r) ==
    LET stop == (r + 1) * BlockSize(vocab, w) IN IF stop < vocab THEN stop ELSE vocab

OwnsId(id, vocab, w, r) == MinId(vocab, w, r) <= id /\ id < MaxId(vocab, w, r)

\* The token to look up, and the other end of the table as the position.
IdOf(table, d) == IF table = "token" THEN d.token ELSE d.vocab - 1 - d.token

\* Mutant: the first rank keeps its slice.
ShouldGatherElsewhere(d, w, r) == w > 1 /\ d.vocab % w = 0 /\ r # 0

\* TensorParallelHead.load: sharded when the vocabulary divides.
ShouldGather(d, w, r) == w > 1 /\ d.vocab % w = 0

-----------------------------------------------------------------------------
(***************************************************************************)
(* The result of one local instruction at `site' on rank r of w.           *)
(***************************************************************************)
RowTerms(site, bias, w, r) ==
    Term(site, IF w = 1 THEN Whole ELSE r)
        (+) IF bias = BiasEverywhere \/ (bias = Bias /\ r = 0) THEN Term(site, BiasPart) ELSE EmptyBag

SumOfTerms(args) == FoldLeft(LAMBDA acc, v : acc (+) v.terms, EmptyBag, args)

Result(d, w, r, site, instr, args) ==
    CASE instr.op = "embed" ->
            Full(IF OwnsId(IdOf(instr.arg, d), d.vocab, w, r) THEN Term(site, Whole) ELSE EmptyBag)
      [] instr.op = "col" -> [slice |-> w > 1, terms |-> Term(site, ColumnPart(instr.arg, w, r))]
      [] instr.op = "heads" ->
            [slice |-> w > 1, terms |-> Term(site, HeadsPart(instr.arg, d.H, d.K, w, r))]
      [] instr.op = "act" -> [slice |-> w > 1, terms |-> Term(site, Whole)]
      [] instr.op = "row" -> Full(RowTerms(site, instr.arg, w, r))
      [] instr.op = "part" -> Full(Term(site, IF w = 1 THEN Whole ELSE r))
      [] instr.op = "mix" -> Full(Term(site, Whole))
      [] instr.op = "head" -> [slice |-> ShouldGather(d, w, r), terms |-> Term(site, Whole)]
      [] instr.op = "slice" -> [slice |-> w > 1, terms |-> args[1].terms]
      [] instr.op = "add" ->
            [slice |-> \E k \in DOMAIN args : args[k].slice, terms |-> SumOfTerms(args)]
      [] instr.op \in {"reduce", "gather"} -> args[1]

-----------------------------------------------------------------------------
ArgsIn(regs, r) == [k \in DOMAIN Instruction(r).src |-> regs[r][Instruction(r).src[k]]]
Args(r) == ArgsIn(reg, r)

\* The one-device server runs the instruction too.
OneDevice(r) == [ideal[r] EXCEPT ![Instruction(r).dst] =
                    Result(deployment, 1, 0, pc[r], Instruction(r), ArgsIn(ideal, r))]

\* Ranks wait for each other only in a process group of more than one; a
\* head that was loaded whole is not gathered.
Collective(r) ==
    /\ W > 1
    /\ \/ Instruction(r).op = "reduce"
       \/ Instruction(r).op = "gather" /\ Args(r)[1].slice

NeedsFull  == {"col", "mix", "slice", "part", "head", "reduce"}
NeedsSlice == {"act", "heads", "row"}

\* A tensor of the wrong width: torch raises.
ShapeError(r) ==
    LET slices == { Args(r)[k].slice : k \in DOMAIN Args(r) }
    IN  /\ W > 1
        /\ \/ Instruction(r).op \in NeedsFull /\ TRUE \in slices
           \/ Instruction(r).op \in NeedsSlice /\ FALSE \in slices
           \/ Instruction(r).op = "add" /\ slices = BOOLEAN

SplitError(r) ==
    Instruction(r).op = "heads"
        /\ ~HeadsSplit(Instruction(r).arg, deployment.H, deployment.K, W)

Loadable ==
    \A i \in DOMAIN Program :
        /\ Program[i].op # "refuse"
        /\ Program[i].op = "heads" => HeadsAccepted(Program[i].arg, deployment.H, deployment.K, W)

-----------------------------------------------------------------------------
Init ==
    /\ deployment \in Deployments
    /\ status = [r \in Ranks |-> "loading"]
    /\ pc = [r \in Ranks |-> 1]
    /\ reg = [r \in Ranks |-> [x \in Registers(Program) |-> Zero]]
    /\ ideal = reg

\* Rank r builds the model, or a check of a constructor or a loader refuses.
Load(r) ==
    /\ status[r] = "loading"
    /\ status' = [status EXCEPT ![r] = IF Loadable THEN "running" ELSE "refused"]
    /\ UNCHANGED <<deployment, pc, reg, ideal>>

\* Rank r runs its next instruction, which needs no other rank.
Compute(r) ==
    /\ status[r] = "running" /\ pc[r] \in DOMAIN Program
    /\ ~Collective(r) /\ ~ShapeError(r) /\ ~SplitError(r)
    /\ reg' = [reg EXCEPT ![r][Instruction(r).dst] =
                  Result(deployment, W, r, pc[r], Instruction(r), Args(r))]
    /\ ideal' = [ideal EXCEPT ![r] = OneDevice(r)]
    /\ pc' = [pc EXCEPT ![r] = @ + 1]
    /\ UNCHANGED <<deployment, status>>

\* A tensor has the wrong shape: the forward pass raises on rank r.
Raise(r) ==
    /\ status[r] = "running" /\ pc[r] \in DOMAIN Program
    /\ ShapeError(r) \/ SplitError(r)
    /\ status' = [status EXCEPT ![r] = "raised"]
    /\ UNCHANGED <<deployment, pc, reg, ideal>>

\* The sum over all ranks, in which the partial sums of a site add up.
Reduced(x) ==
    LET terms == FoldLeft(LAMBDA acc, r : acc (+) reg[r][x].terms, EmptyBag, [i \in 1..W |-> i - 1])
        sites == { t[1] : t \in BagToSet(terms) }
        complete == { s \in sites : \A r \in Ranks : BagIn(<<s, r>>, terms) }
    IN  Full((terms (-) SetToBag(complete \X Ranks)) (+) SetToBag(complete \X {Whole}))

\* The slices of all ranks side by side, when they belong together.
Gathered(x) ==
    Full(IF \A q, r \in Ranks : reg[q][x].terms = reg[r][x].terms
         THEN reg[0][x].terms ELSE Term(0, Scrambled))

Together(op, x) ==
    \A r \in Ranks : RunningAt(r, {op}) /\ Instruction(r).dst = x /\ Collective(r) /\ ~ShapeError(r)

AllReduce(x) ==
    /\ Together("reduce", x)
    /\ reg' = [r \in Ranks |-> [reg[r] EXCEPT ![x] = Reduced(x)]]
    /\ ideal' = [r \in Ranks |-> OneDevice(r)]
    /\ pc' = [r \in Ranks |-> pc[r] + 1]
    /\ UNCHANGED <<deployment, status>>

AllGather(x) ==
    /\ Together("gather", x)
    /\ reg' = [r \in Ranks |-> [reg[r] EXCEPT ![x] = Gathered(x)]]
    /\ ideal' = [r \in Ranks |-> OneDevice(r)]
    /\ pc' = [r \in Ranks |-> pc[r] + 1]
    /\ UNCHANGED <<deployment, status>>

Return(r) ==
    /\ status[r] = "running" /\ pc[r] = Len(Program) + 1
    /\ status' = [status EXCEPT ![r] = "done"]
    /\ UNCHANGED <<deployment, pc, reg, ideal>>

Ended(r) == status[r] \in {"refused", "raised", "done"}

Next ==
    \/ \E r \in Ranks : Load(r) \/ Compute(r) \/ Raise(r) \/ Return(r)
    \/ \E x \in Registers(Program) : AllReduce(x) \/ AllGather(x)

\* The ranks are processes of their own, and the collectives make progress
\* once every rank has joined.
Spec == Init /\ [][Next]_vars /\ WF_vars(Next)

-----------------------------------------------------------------------------
(***************************************************************************)
(* Sharding does not change the model.  What a rank feeds into any layer   *)
(* that is not a plain sum, and the logits it returns, come from exactly   *)
(* the terms they come from on one device: no partial sum is used before   *)
(* it is reduced, none is reduced twice, no bias or residual is added once *)
(* per rank, no rows of a fused weight or bias are mixed up, and every     *)
(* query head meets its own key/value head (layers/tensor_parallel.py and  *)
(* the forward() of every model).                                          *)
(***************************************************************************)
Linear == {"add", "reduce", "gather"}

SameAsOneDevice ==
    \A r \in Ranks :
        /\ status[r] = "running" /\ pc[r] \in DOMAIN Program /\ Instruction(r).op \notin Linear
              => \A k \in DOMAIN Args(r) : Args(r)[k].terms = ArgsIn(ideal, r)[k].terms
        /\ status[r] = "done" => reg[r]["logits"] = ideal[r]["logits"]

(***************************************************************************)
(* A model whose heads and key/value heads divide evenly among the ranks   *)
(* is served: no constructor refuses it and no tensor of its forward pass  *)
(* has a shape the next layer cannot take.                                 *)
(***************************************************************************)
EvenlyDividedIsServed ==
    deployment.H % W = 0 /\ deployment.K % W = 0
        => \A r \in Ranks : status[r] \notin {"refused", "raised"}

(***************************************************************************)
(* Every rank ends: none waits in an all-reduce or all-gather for a rank   *)
(* that refused, raised or took another path through the program.          *)
(***************************************************************************)
NoRankLeftWaiting == <>(\A r \in Ranks : Ended(r))
=============================================================================
