------------------------ MODULE BlockAllocatorProofs ------------------------
(***************************************************************************)
(* Safety of the block allocator for every number of entries and blocks,   *)
(* every block size and every window, and that it implements the pool of   *)
(* BlockPool.                                                              *)
(***************************************************************************)
EXTENDS MCBlockAllocator, SequenceTheorems, FiniteSetTheorems, WellFoundedInduction, TLAPS
-----------------------------------------------------------------------------
(* Induction over the iterations of a loop, without a second-order rule: a *)
(* set of numbers that has 0 and the successor of each of its members below*)
(* n has them all.  A loop is a function of the number of iterations done. *)

\* A set of numbers that is not empty has a least one.
LEMMA LeastNumber ==
    ASSUME NEW T, T \subseteq Nat, T # {}
    PROVE  \E n \in T : \A k \in T : n <= k
<1> DEFINE R == OpToRel(<, Nat)
<1>1. IsWellFoundedOn(R, Nat)
  BY NatLessThanWellFounded
<1>2. PICK n \in T : \A k \in T : ~ (<<k, n>> \in R)
  BY <1>1, WFMin
<1>3. ASSUME NEW k \in T PROVE n <= k
  <2>1. <<k, n>> \notin R
    BY <1>2
  <2>2. k \in Nat /\ n \in Nat
    OBVIOUS
  <2>3. ~ (k < n)
    BY <2>1, <2>2, Zenon DEF OpToRel
  <2> QED BY <2>2, <2>3
<1> QED BY <1>2, <1>3

\* What holds before a loop and is kept by each of its n iterations holds
\* after every one of them.
LEMMA IntervalInduction ==
    ASSUME NEW n \in Nat, NEW S, 0 \in S,
           \A i \in 1..n : i - 1 \in S => i \in S
    PROVE  0..n \subseteq S
<1> DEFINE T == {i \in 0..n : i \notin S}
<1> SUFFICES ASSUME T # {} PROVE FALSE
  OBVIOUS
<1>1. PICK m \in T : \A k \in T : m <= k
  <2>1. T \subseteq Nat
    OBVIOUS
  <2> HIDE DEF T
  <2> QED BY <2>1, LeastNumber
<1>2. m # 0 /\ m \in 1..n
  OBVIOUS
<1>3. m - 1 \in S
  <2> SUFFICES ASSUME m - 1 \notin S PROVE FALSE
    OBVIOUS
  <2>1. m - 1 \in T
    BY <1>2
  <2> QED BY <1>1, <1>2, <2>1
<1> QED BY <1>2, <1>3
-----------------------------------------------------------------------------
\* The demand of a call is a number of blocks.
LEMMA RequiredBlocksNat == \A t \in Nat : RequiredBlocks(t) \in Nat
  BY AllocatorAssumption DEF RequiredBlocks, CeilDiv

\* Vec::split_off cuts a sequence in two pieces of it.
LEMMA SplitOffSeq ==
  ASSUME NEW S, NEW s \in Seq(S), NEW n \in Nat, n <= Len(s)
  PROVE  /\ Keep(s, n) \in Seq(S)
         /\ SplitOff(s, n) \in Seq(S)
         /\ Len(Keep(s, n)) = Len(s) - n
         /\ Len(SplitOff(s, n)) = n
         /\ \A i \in 1..(Len(s) - n) : Keep(s, n)[i] = s[i]
         /\ \A i \in 1..n : SplitOff(s, n)[i] = s[Len(s) - n + i]
  <1>1. Len(s) \in Nat /\ Len(s) - n \in Nat
    OBVIOUS
  <1>2. /\ Keep(s, n) \in Seq(S)
        /\ Len(Keep(s, n)) = Len(s) - n
        /\ \A i \in 1..(Len(s) - n) : Keep(s, n)[i] = s[i]
    BY <1>1 DEF Keep
  <1>3. /\ SplitOff(s, n) \in Seq(S)
        /\ Len(SplitOff(s, n)) = n
        /\ \A i \in 1..n : SplitOff(s, n)[i] = s[Len(s) - n + i]
    BY <1>1 DEF SplitOff
  <1> QED
    BY <1>2, <1>3

\* Both pieces of a split cover the sequence, and share nothing if it has no
\* element twice.
LEMMA SplitOffRange ==
  ASSUME NEW S, NEW s \in Seq(S), NEW n \in Nat, n <= Len(s)
  PROVE  /\ Range(s) = Range(Keep(s, n)) \cup Range(SplitOff(s, n))
         /\ IsInjective(s) =>
              /\ IsInjective(Keep(s, n))
              /\ IsInjective(SplitOff(s, n))
              /\ Disjoint(Keep(s, n), SplitOff(s, n))
  <1> DEFINE k == Keep(s, n)
             t == SplitOff(s, n)
             m == Len(s) - n
  <1>1. /\ k \in Seq(S) /\ t \in Seq(S)
        /\ Len(k) = m /\ Len(t) = n
        /\ \A i \in 1..m : k[i] = s[i]
        /\ \A i \in 1..n : t[i] = s[m + i]
    BY SplitOffSeq
  <1>2. /\ DOMAIN s = 1..Len(s) /\ DOMAIN k = 1..m /\ DOMAIN t = 1..n
        /\ Len(s) \in Nat /\ m \in Nat /\ Len(s) = m + n
    BY <1>1
  <1> HIDE DEF k, t, m
  <1>3. \A i \in 1..Len(s) : i \in 1..m \/ (i - m \in 1..n /\ s[i] = t[i - m])
    BY <1>1, <1>2
  <1>4. \A i \in 1..m : i \in 1..Len(s)
    BY <1>2
  <1>5. \A i \in 1..n : m + i \in 1..Len(s) /\ m + i \notin 1..m
    BY <1>2
  <1>6. Range(s) = Range(k) \cup Range(t)
    <2>1. ASSUME NEW x \in Range(s) PROVE x \in Range(k) \cup Range(t)
      <3>1. PICK i \in 1..Len(s) : x = s[i]
        BY <1>2 DEF Range
      <3> QED
        BY <1>1, <1>2, <1>3, <3>1 DEF Range
    <2>2. ASSUME NEW x \in Range(k) PROVE x \in Range(s)
      BY <1>1, <1>2, <1>4 DEF Range
    <2>3. ASSUME NEW x \in Range(t) PROVE x \in Range(s)
      BY <1>1, <1>2, <1>5 DEF Range
    <2> QED
      BY <2>1, <2>2, <2>3
  <1>7. ASSUME IsInjective(s)
        PROVE  IsInjective(k) /\ IsInjective(t) /\ Disjoint(k, t)
    <2>1. \A a, b \in 1..Len(s) : s[a] = s[b] => a = b
      BY <1>2, <1>7 DEF IsInjective
    <2>2. IsInjective(k)
      BY <1>1, <1>2, <1>4, <2>1 DEF IsInjective
    <2>3. IsInjective(t)
      BY <1>1, <1>2, <1>5, <2>1 DEF IsInjective
    <2>4. ASSUME NEW i \in 1..m, NEW j \in 1..n PROVE k[i] # t[j]
      <3>1. i \in 1..Len(s) /\ m + j \in 1..Len(s) /\ i # m + j
        BY <1>4, <1>5
      <3>2. k[i] = s[i] /\ t[j] = s[m + j]
        BY <1>1
      <3>3. s[i] = s[m + j] => i = m + j
        BY <2>1, <3>1
      <3> QED
        BY <3>1, <3>2, <3>3
    <2>5. Disjoint(k, t)
      BY <1>2, <2>4 DEF Disjoint, Range
    <2> QED
      BY <2>2, <2>3, <2>5
  <1> QED
    BY <1>6, <1>7 DEF k, t

\* Extending the free list adds the elements, and no duplicate if there was
\* none and the two lists share nothing.
LEMMA ConcatRange ==
  ASSUME NEW S, NEW s \in Seq(S), NEW t \in Seq(S)
  PROVE  /\ Range(s \o t) = Range(s) \cup Range(t)
         /\ (IsInjective(s) /\ IsInjective(t) /\ Disjoint(s, t)) => IsInjective(s \o t)
  <1> DEFINE c == s \o t
             m == Len(s)
             n == Len(t)
  <1>1. /\ c \in Seq(S) /\ Len(c) = m + n
        /\ m \in Nat /\ n \in Nat
        /\ \A i \in 1..m : c[i] = s[i]
        /\ \A i \in 1..n : c[m + i] = t[i]
    OBVIOUS
  <1>2. DOMAIN s = 1..m /\ DOMAIN t = 1..n /\ DOMAIN c = 1..(m + n)
    BY <1>1
  <1> HIDE DEF c, m, n
  <1>3. \A i \in 1..(m + n) : i \in 1..m \/ (i - m \in 1..n /\ c[i] = t[i - m])
    BY <1>1
  <1>4. \A i \in 1..m : i \in 1..(m + n)
    BY <1>1
  <1>5. \A i \in 1..n : m + i \in 1..(m + n)
    BY <1>1
  <1>6. Range(c) = Range(s) \cup Range(t)
    <2>1. ASSUME NEW x \in Range(c) PROVE x \in Range(s) \cup Range(t)
      <3>1. PICK i \in 1..(m + n) : x = c[i]
        BY <1>2 DEF Range
      <3> QED
        BY <1>1, <1>2, <1>3, <3>1 DEF Range
    <2>2. ASSUME NEW x \in Range(s) PROVE x \in Range(c)
      BY <1>1, <1>2, <1>4 DEF Range
    <2>3. ASSUME NEW x \in Range(t) PROVE x \in Range(c)
      BY <1>1, <1>2, <1>5 DEF Range
    <2> QED
      BY <2>1, <2>2, <2>3
  <1>7. ASSUME IsInjective(s), IsInjective(t), Disjoint(s, t)
        PROVE  IsInjective(c)
    <2>1. \A i \in 1..m, j \in 1..n : s[i] # t[j]
      BY <1>2, <1>7 DEF Disjoint, Range
    <2> SUFFICES ASSUME NEW a \in 1..(m + n), NEW b \in 1..(m + n), c[a] = c[b]
                 PROVE  a = b
      BY <1>2 DEF IsInjective
    <2>2. CASE a \in 1..m /\ b \in 1..m
      BY <1>1, <1>2, <1>7, <2>2 DEF IsInjective
    <2>3. CASE a \in 1..m /\ b \notin 1..m
      BY <1>1, <1>3, <2>1, <2>3
    <2>4. CASE a \notin 1..m /\ b \in 1..m
      BY <1>1, <1>3, <2>1, <2>4
    <2>5. CASE a \notin 1..m /\ b \notin 1..m
      <3>1. /\ a - m \in 1..n /\ c[a] = t[a - m]
            /\ b - m \in 1..n /\ c[b] = t[b - m]
        BY <1>3, <2>5
      <3>2. a - m = b - m
        BY <1>2, <1>7, <3>1 DEF IsInjective
      <3> QED
        BY <1>1, <3>2
    <2> QED
      BY <2>2, <2>3, <2>4, <2>5
  <1> QED
    BY <1>6, <1>7 DEF c

\* Every variable of the allocator keeps its type.
THEOREM TypeCorrect == Spec => []TypeOK
  <1>1. Init => TypeOK
    BY AllocatorAssumption DEF Init, TypeOK, Blocks, Phases
  <1>2. TypeOK /\ [Next]_vars => TypeOK'
    <2> SUFFICES ASSUME TypeOK, [Next]_vars PROVE TypeOK'
      OBVIOUS
    <2>1. CASE UNCHANGED vars
      BY <2>1 DEF vars, TypeOK
    <2>2. ASSUME NEW r \in Requests, NEW t \in 1..MaxTokens, CallAllocate(r, t)
          PROVE  TypeOK'
      BY <2>2, AllocatorAssumption DEF CallAllocate, TypeOK, Phases, Allocate
    <2>3. ASSUME NEW r \in Requests, TakeAnswer(r) PROVE TypeOK'
      BY <2>3 DEF TakeAnswer, TypeOK, Phases
    <2>4. ASSUME NEW r \in Requests, TakeRefusal(r) PROVE TypeOK'
      BY <2>4, AllocatorAssumption DEF TakeRefusal, TypeOK, Phases
    <2>5. ASSUME NEW r \in Requests, DropAllocation(r) PROVE TypeOK'
      BY <2>5, AllocatorAssumption DEF DropAllocation, TypeOK, Phases, Free
    <2>6. CASE ServeFree
      BY <2>6 DEF ServeFree, TypeOK
    <2>7. ASSUME NEW r \in Requests, ServeAllocate(r) PROVE TypeOK'
      <3> DEFINE required == RequiredBlocks(tokens[r])
      <3>1. required \in Nat
        BY RequiredBlocksNat DEF TypeOK
      <3>2. commands' \in Seq([op : {"Free"}, blocks : Seq(Blocks)]
                          \cup [op : {"Allocate"}, req : Requests])
        BY <2>7 DEF ServeAllocate, TypeOK
      <3>3. CASE required <= Len(free_blocks)
        <4>1. /\ Keep(free_blocks, required) \in Seq(Blocks)
              /\ SplitOff(free_blocks, required) \in Seq(Blocks)
          BY <3>1, <3>3, SplitOffSeq DEF TypeOK
        <4> QED
          BY <2>7, <3>1, <3>2, <3>3, <4>1 DEF ServeAllocate, TypeOK, Phases
      <3>4. CASE required > Len(free_blocks)
        <4>1. ~ (required <= Len(free_blocks))
          BY <3>1, <3>4 DEF TypeOK
        <4>2. /\ phase' = [phase EXCEPT ![r] = "refused"]
              /\ UNCHANGED <<free_blocks, allocation, tokens>>
          BY <2>7, <4>1 DEF ServeAllocate
        <4> QED
          BY <3>2, <4>2 DEF TypeOK, Phases
      <3> QED
        BY <3>1, <3>3, <3>4 DEF TypeOK
    <2> QED
      BY <2>1, <2>2, <2>3, <2>4, <2>5, <2>6, <2>7 DEF Next, Serve
  <1> QED
    BY <1>1, <1>2, PTL DEF Spec
-----------------------------------------------------------------------------
\* What sharing nothing means, and that it has no direction.
LEMMA DisjointFacts ==
  /\ \A s, t : Disjoint(s, t) <=> Range(s) \cap Range(t) = {}
  /\ \A s, t : Disjoint(s, t) <=> Disjoint(t, s)
  /\ \A s : Disjoint(<<>>, s) /\ Disjoint(s, <<>>)
  /\ Range(<<>>) = {} /\ IsInjective(<<>>)
  <1>1. Range(<<>>) = {} /\ IsInjective(<<>>)
    BY DEF Range, IsInjective
  <1> QED
    BY <1>1 DEF Disjoint

\* The commands in the channel.
Command == [op : {"Free"}, blocks : Seq(Blocks)] \cup [op : {"Allocate"}, req : Requests]

\* Sending a command leaves the ones in the channel where they are.
LEMMA Sent ==
  ASSUME NEW C, NEW q \in Seq(C), NEW c \in C
  PROVE  /\ DOMAIN q = 1..Len(q) /\ Len(q) \in Nat
         /\ DOMAIN Append(q, c) = 1..(Len(q) + 1)
         /\ \A i \in DOMAIN q : Append(q, c)[i] = q[i] /\ i # Len(q) + 1
         /\ Append(q, c)[Len(q) + 1] = c
         /\ \A i \in DOMAIN Append(q, c) : i \in DOMAIN q \/ i = Len(q) + 1
  OBVIOUS

\* Receiving a command moves the others up by one.
LEMMA Received ==
  ASSUME NEW C, NEW q \in Seq(C), q # <<>>
  PROVE  /\ 1 \in DOMAIN q /\ Head(q) = q[1]
         /\ \A i \in DOMAIN Tail(q) : i + 1 \in DOMAIN q /\ i + 1 # 1 /\ Tail(q)[i] = q[i + 1]
         /\ \A i, j \in DOMAIN Tail(q) : i + 1 = j + 1 => i = j
         /\ \A j \in DOMAIN q : j # 1 => j - 1 \in DOMAIN Tail(q) /\ Tail(q)[j - 1] = q[j]
  OBVIOUS

\* The blocks on their way back are sequences of blocks.
LEMMA FreedSeq == TypeOK => \A i \in DOMAIN commands : Freed(i) \in Seq(Blocks)
  BY DEF TypeOK, Freed

\* Sending an Allocate command puts no block on its way.
LEMMA FreedAfterCall ==
  ASSUME TypeOK, NEW r \in Requests, commands' = Append(commands, Allocate(r))
  PROVE  \A i \in DOMAIN commands' :
            \/ i \in DOMAIN commands /\ Freed(i)' = Freed(i)
            \/ Freed(i)' = <<>>
  <1>1. Allocate(r) \in Command /\ commands \in Seq(Command) /\ Allocate(r).op # "Free"
    BY DEF TypeOK, Command, Allocate
  <1> QED
    BY <1>1, Sent DEF Freed

\* A drop sends the blocks of the allocation, and leaves the rest of the
\* channel as it is.
LEMMA FreedAfterDrop ==
  ASSUME TypeOK, NEW r \in Requests, commands' = Append(commands, Free(allocation[r]))
  PROVE  /\ \A i \in DOMAIN commands : i \in DOMAIN commands' /\ Freed(i)' = Freed(i)
         /\ \E i \in DOMAIN commands' : Freed(i)' = allocation[r]
         /\ \A i \in DOMAIN commands' :
              i \in DOMAIN commands \/ (i = Len(commands) + 1 /\ Freed(i)' = allocation[r])
  <1>1. /\ commands \in Seq(Command)
        /\ Free(allocation[r]) \in Command
        /\ Free(allocation[r]).op = "Free"
        /\ Free(allocation[r]).blocks = allocation[r]
    BY DEF TypeOK, Command, Free
  <1> QED
    BY <1>1, Sent DEF Freed

\* Receiving a command takes its blocks out of the channel, and no others.
LEMMA FreedAfterRecv ==
  ASSUME TypeOK, commands # <<>>, commands' = Tail(commands)
  PROVE  \A i \in DOMAIN commands' :
            i + 1 \in DOMAIN commands /\ i + 1 # 1 /\ Freed(i)' = Freed(i + 1)
  BY Received DEF TypeOK, Freed
\* Pending calls: an entry without a grant owns nothing, and every Allocate
\* command is the only one of a waiting caller.
THEOREM CallsPendingCorrect == Spec => []CallsPending
  <1>1. Init => CallsPending
    BY DEF Init, CallsPending
  <1>2. TypeOK /\ CallsPending /\ [Next]_vars => CallsPending'
    <2> SUFFICES ASSUME TypeOK, CallsPending, [Next]_vars PROVE CallsPending'
      OBVIOUS
    <2> DEFINE Owns(r) == phase[r] \in {"idle", "waiting", "refused"} => allocation[r] = <<>>
               Single(i) == commands[i].op = "Allocate" =>
                              /\ phase[commands[i].req] = "waiting"
                              /\ \A j \in DOMAIN commands : commands[j] = commands[i] => j = i
    <2>0. /\ commands \in Seq(Command)
          /\ \A i \in DOMAIN commands : commands[i] \in Command
          /\ \A c \in Command : c.op = "Allocate" => c.req \in Requests /\ c = Allocate(c.req)
          /\ \A r \in Requests : /\ Allocate(r) \in Command
                                 /\ Allocate(r).op = "Allocate" /\ Allocate(r).req = r
      BY DEF TypeOK, Command, Allocate
    <2>1. CASE UNCHANGED vars
      BY <2>1 DEF vars, CallsPending
    <2>2. ASSUME NEW r \in Requests, NEW t \in 1..MaxTokens, CallAllocate(r, t)
          PROVE  CallsPending'
      <3>1. \A q \in Requests : Owns(q)'
        BY <2>2 DEF CallAllocate, CallsPending, TypeOK
      <3>2. \A i \in DOMAIN commands : commands[i] # Allocate(r)
        BY <2>0, <2>2 DEF CallAllocate, CallsPending
      <3>3. ASSUME NEW i \in DOMAIN commands', commands'[i].op = "Allocate"
            PROVE  /\ phase'[commands'[i].req] = "waiting"
                   /\ \A j \in DOMAIN commands' : commands'[j] = commands'[i] => j = i
        <4>1. commands' = Append(commands, Allocate(r))
          BY <2>2 DEF CallAllocate
        <4>2. CASE i = Len(commands) + 1
          BY <2>0, <2>2, <3>2, <4>1, <4>2, Sent DEF CallAllocate, TypeOK
        <4>3. CASE i \in DOMAIN commands
          <5>1. commands'[i] = commands[i] /\ commands[i] # Allocate(r)
            BY <2>0, <3>2, <4>1, <4>3, Sent
          <5>2. phase[commands[i].req] = "waiting" /\ commands[i].req \in Requests
            BY <2>0, <3>3, <4>3, <5>1 DEF CallsPending
          <5>3. phase'[commands'[i].req] = "waiting"
            BY <2>2, <5>1, <5>2 DEF CallAllocate, TypeOK
          <5>4. \A j \in DOMAIN commands' : commands'[j] = commands'[i] => j = i
            BY <2>0, <3>3, <4>1, <4>3, <5>1, Sent DEF CallsPending
          <5> QED
            BY <5>3, <5>4
        <4> QED
          BY <2>0, <4>1, <4>2, <4>3, Sent
      <3> QED
        BY <3>1, <3>3 DEF CallsPending
    <2>3. ASSUME NEW r \in Requests, TakeAnswer(r) PROVE CallsPending'
      BY <2>0, <2>3 DEF TakeAnswer, CallsPending, TypeOK
    <2>4. ASSUME NEW r \in Requests, TakeRefusal(r) PROVE CallsPending'
      BY <2>0, <2>4 DEF TakeRefusal, CallsPending, TypeOK
    <2>5. ASSUME NEW r \in Requests, DropAllocation(r) PROVE CallsPending'
      <3>1. \A q \in Requests : Owns(q)'
        BY <2>5 DEF DropAllocation, CallsPending, TypeOK
      <3>2. /\ Free(allocation[r]) \in Command
            /\ Free(allocation[r]).op = "Free"
            /\ commands' = Append(commands, Free(allocation[r]))
        BY <2>5 DEF DropAllocation, TypeOK, Command, Free
      <3>3. ASSUME NEW i \in DOMAIN commands', commands'[i].op = "Allocate"
            PROVE  /\ phase'[commands'[i].req] = "waiting"
                   /\ \A j \in DOMAIN commands' : commands'[j] = commands'[i] => j = i
        <4>1. i \in DOMAIN commands /\ commands'[i] = commands[i]
          BY <2>0, <3>2, <3>3, Sent
        <4>2. phase[commands[i].req] = "waiting" /\ commands[i].req \in Requests
          BY <2>0, <3>3, <4>1 DEF CallsPending
        <4>3. phase'[commands'[i].req] = "waiting"
          BY <2>5, <4>1, <4>2 DEF DropAllocation, TypeOK
        <4>4. \A j \in DOMAIN commands' : commands'[j] = commands'[i] => j = i
          BY <2>0, <3>2, <3>3, <4>1, Sent DEF CallsPending
        <4> QED
          BY <4>3, <4>4
      <3> QED
        BY <3>1, <3>3 DEF CallsPending
    <2>6. CASE ServeFree
      <3>1. \A q \in Requests : Owns(q)'
        BY <2>6 DEF ServeFree, CallsPending
      <3>2. commands # <<>> /\ commands' = Tail(commands) /\ phase' = phase
        BY <2>6 DEF ServeFree
      <3>3. \A i \in DOMAIN commands' : Single(i)'
        BY <2>0, <3>2, Received DEF CallsPending
      <3> QED
        BY <3>1, <3>3 DEF CallsPending
    <2>7. ASSUME NEW r \in Requests, ServeAllocate(r) PROVE CallsPending'
      <3>1. \A q \in Requests : Owns(q)'
        BY <2>0, <2>7, Received DEF ServeAllocate, CallsPending, TypeOK
      <3>2. /\ commands # <<>> /\ commands' = Tail(commands)
            /\ commands[1] = Allocate(r) /\ 1 \in DOMAIN commands
            /\ \A q \in Requests \ {r} : phase'[q] = phase[q]
        BY <2>0, <2>7, Received DEF ServeAllocate, TypeOK
      <3>3. ASSUME NEW i \in DOMAIN commands', commands'[i].op = "Allocate"
            PROVE  /\ phase'[commands'[i].req] = "waiting"
                   /\ \A j \in DOMAIN commands' : commands'[j] = commands'[i] => j = i
        <4>1. /\ i + 1 \in DOMAIN commands /\ i + 1 # 1
              /\ commands'[i] = commands[i + 1]
          BY <2>0, <3>2, Received
        <4>2. /\ phase[commands[i + 1].req] = "waiting"
              /\ commands[i + 1].req \in Requests /\ commands[i + 1] # Allocate(r)
          BY <2>0, <3>2, <3>3, <4>1 DEF CallsPending
        <4>3. phase'[commands'[i].req] = "waiting"
          BY <2>0, <3>2, <3>3, <4>1, <4>2
        <4>4. \A j \in DOMAIN commands' : commands'[j] = commands'[i] => j = i
          BY <2>0, <3>2, <3>3, <4>1, Received DEF CallsPending
        <4> QED
          BY <4>3, <4>4
      <3> QED
        BY <3>1, <3>3 DEF CallsPending
    <2> QED
      BY <2>1, <2>2, <2>3, <2>4, <2>5, <2>6, <2>7 DEF Next, Serve
  <1> QED
    BY <1>1, <1>2, TypeCorrect, PTL DEF Spec
\* No block has two owners, for any number of entries, blocks and commands in
\* the channel.
THEOREM NoDoubleOwnershipCorrect == Spec => []NoDoubleOwnership
  <1>1. Init => NoDoubleOwnership
    BY DisjointFacts DEF Init, NoDoubleOwnership, IsInjective
  <1>2. TypeOK /\ NoDoubleOwnership /\ [Next]_vars => NoDoubleOwnership'
    <2> SUFFICES ASSUME TypeOK, NoDoubleOwnership, [Next]_vars
                 PROVE  NoDoubleOwnership'
      OBVIOUS
    <2>0. /\ free_blocks \in Seq(Blocks)
          /\ allocation \in [Requests -> Seq(Blocks)]
          /\ \A i \in DOMAIN commands : Freed(i) \in Seq(Blocks)
      BY FreedSeq DEF TypeOK
    <2>1. CASE UNCHANGED vars
      BY <2>1 DEF vars, NoDoubleOwnership, Freed
    <2>2. ASSUME NEW r \in Requests, NEW t \in 1..MaxTokens, CallAllocate(r, t)
          PROVE  NoDoubleOwnership'
      <3>1. /\ free_blocks' = free_blocks /\ allocation' = allocation
            /\ \A i \in DOMAIN commands' :
                 \/ i \in DOMAIN commands /\ Freed(i)' = Freed(i)
                 \/ Freed(i)' = <<>>
        BY <2>2, FreedAfterCall DEF CallAllocate
      <3> QED
        BY <3>1, DisjointFacts DEF NoDoubleOwnership
    <2>3. ASSUME NEW r \in Requests, TakeAnswer(r) PROVE NoDoubleOwnership'
      BY <2>3 DEF TakeAnswer, NoDoubleOwnership, Freed
    <2>4. ASSUME NEW r \in Requests, TakeRefusal(r) PROVE NoDoubleOwnership'
      BY <2>4 DEF TakeRefusal, NoDoubleOwnership, Freed
    <2>5. ASSUME NEW r \in Requests, DropAllocation(r) PROVE NoDoubleOwnership'
      <3>1. /\ free_blocks' = free_blocks
            /\ allocation'[r] = <<>>
            /\ \A q \in Requests \ {r} : allocation'[q] = allocation[q]
        BY <2>0, <2>5 DEF DropAllocation
      <3>2. \A i \in DOMAIN commands' :
               \/ i \in DOMAIN commands /\ Freed(i)' = Freed(i)
               \/ i = Len(commands) + 1 /\ Freed(i)' = allocation[r]
        BY <2>5, FreedAfterDrop DEF DropAllocation
      <3> QED
        BY <3>1, <3>2, DisjointFacts DEF NoDoubleOwnership
    <2>6. CASE ServeFree
      <3>1. /\ allocation' = allocation
            /\ 1 \in DOMAIN commands
            /\ free_blocks' = free_blocks \o Freed(1)
        BY <2>6, Received DEF ServeFree, TypeOK, Freed
      <3>2. \A i \in DOMAIN commands' :
               i + 1 \in DOMAIN commands /\ i + 1 # 1 /\ Freed(i)' = Freed(i + 1)
        BY <2>6, FreedAfterRecv DEF ServeFree
      <3>3. \A i, j \in DOMAIN commands' : i # j => i + 1 # j + 1
        BY <2>6, Received DEF ServeFree, TypeOK
      <3>4. /\ IsInjective(free_blocks')
            /\ Range(free_blocks') = Range(free_blocks) \cup Range(Freed(1))
        <4>1. /\ IsInjective(free_blocks) /\ IsInjective(Freed(1))
              /\ Disjoint(free_blocks, Freed(1))
          BY <3>1, DisjointFacts DEF NoDoubleOwnership
        <4> QED
          BY <2>0, <3>1, <4>1, ConcatRange
      <3>5. \A s : Disjoint(s, free_blocks) /\ Disjoint(s, Freed(1))
                     => Disjoint(s, free_blocks')
        BY <3>4 DEF Disjoint
      <3>6. \A q \in Requests :
              /\ IsInjective(allocation'[q])
              /\ Disjoint(allocation'[q], free_blocks')
              /\ \A p \in Requests \ {q} : Disjoint(allocation'[q], allocation'[p])
              /\ \A i \in DOMAIN commands' : Disjoint(allocation'[q], Freed(i)')
        BY <3>1, <3>2, <3>5 DEF NoDoubleOwnership
      <3>7. \A i \in DOMAIN commands' :
              /\ IsInjective(Freed(i)')
              /\ Disjoint(Freed(i)', free_blocks')
              /\ \A j \in DOMAIN commands' \ {i} : Disjoint(Freed(i)', Freed(j)')
        BY <3>1, <3>2, <3>3, <3>5 DEF NoDoubleOwnership
      <3> QED
        BY <3>4, <3>6, <3>7 DEF NoDoubleOwnership
    <2>7. ASSUME NEW r \in Requests, ServeAllocate(r) PROVE NoDoubleOwnership'
      <3> DEFINE required == RequiredBlocks(tokens[r])
      <3>1. required \in Nat
        BY RequiredBlocksNat DEF TypeOK
      <3>2. \A i \in DOMAIN commands' :
               i + 1 \in DOMAIN commands /\ i + 1 # 1 /\ Freed(i)' = Freed(i + 1)
        BY <2>7, FreedAfterRecv DEF ServeAllocate
      <3>3. \A i, j \in DOMAIN commands' : i # j => i + 1 # j + 1
        BY <2>7, Received DEF ServeAllocate, TypeOK
      <3>4. CASE UNCHANGED <<free_blocks, allocation>>
        BY <3>2, <3>3, <3>4 DEF NoDoubleOwnership
      <3>5. CASE required <= Len(free_blocks)
        <4> DEFINE new == SplitOff(free_blocks, required)
        <4>1. /\ free_blocks' = Keep(free_blocks, required)
              /\ allocation'[r] = new
              /\ \A q \in Requests \ {r} : allocation'[q] = allocation[q]
          BY <2>0, <2>7, <3>1, <3>5 DEF ServeAllocate
        <4>2. /\ Range(free_blocks) = Range(free_blocks') \cup Range(new)
              /\ IsInjective(free_blocks') /\ IsInjective(new)
              /\ Disjoint(free_blocks', new)
          BY <2>0, <3>1, <3>5, <4>1, SplitOffRange DEF NoDoubleOwnership
        <4> HIDE DEF new
        <4>3. \A s : Disjoint(s, free_blocks) => Disjoint(s, free_blocks') /\ Disjoint(s, new)
          BY <4>2 DEF Disjoint
        <4>4. \A q \in Requests :
                /\ IsInjective(allocation'[q])
                /\ Disjoint(allocation'[q], free_blocks')
                /\ \A p \in Requests \ {q} : Disjoint(allocation'[q], allocation'[p])
                /\ \A i \in DOMAIN commands' : Disjoint(allocation'[q], Freed(i)')
          BY <3>2, <4>1, <4>2, <4>3, DisjointFacts DEF NoDoubleOwnership
        <4>5. \A i \in DOMAIN commands' :
                /\ IsInjective(Freed(i)')
                /\ Disjoint(Freed(i)', free_blocks')
                /\ \A j \in DOMAIN commands' \ {i} : Disjoint(Freed(i)', Freed(j)')
          BY <3>2, <3>3, <4>3 DEF NoDoubleOwnership
        <4> QED
          BY <4>2, <4>4, <4>5 DEF NoDoubleOwnership
      <3> QED
        BY <2>0, <2>7, <3>1, <3>4, <3>5 DEF ServeAllocate
    <2> QED
      BY <2>1, <2>2, <2>3, <2>4, <2>5, <2>6, <2>7 DEF Next, Serve
  <1> QED
    BY <1>1, <1>2, TypeCorrect, PTL DEF Spec

\* No block is lost: every one is free, owned, or in a Free command that is
\* still to be served.  A grant overwrites nothing because the entry that
\* awaits it owns nothing (CallsPending).
THEOREM NoLeakCorrect == Spec => []NoLeak
  <1>1. Init => NoLeak
    <2> SUFFICES ASSUME Init PROVE Blocks \subseteq Range(free_blocks)
      BY DEF NoLeak
    <2> QED
      BY AllocatorAssumption DEF Init, Blocks, Range
  <1>2. TypeOK /\ CallsPending /\ NoLeak /\ [Next]_vars => NoLeak'
    <2> SUFFICES ASSUME TypeOK, CallsPending, NoLeak, [Next]_vars,
                        NEW b \in Blocks
                 PROVE  \/ b \in Range(free_blocks')
                        \/ \E q \in Requests : b \in Range(allocation'[q])
                        \/ \E i \in DOMAIN commands' : b \in Range(Freed(i)')
      BY DEF NoLeak, Blocks
    <2>0. /\ free_blocks \in Seq(Blocks)
          /\ allocation \in [Requests -> Seq(Blocks)]
          /\ \A i \in DOMAIN commands : Freed(i) \in Seq(Blocks)
          /\ \/ b \in Range(free_blocks)
             \/ \E q \in Requests : b \in Range(allocation[q])
             \/ \E i \in DOMAIN commands : b \in Range(Freed(i))
      BY FreedSeq DEF TypeOK, NoLeak
    <2>1. CASE UNCHANGED vars
      BY <2>0, <2>1 DEF vars, Freed
    <2>2. ASSUME NEW r \in Requests, NEW t \in 1..MaxTokens, CallAllocate(r, t)
          PROVE  \/ b \in Range(free_blocks')
                 \/ \E q \in Requests : b \in Range(allocation'[q])
                 \/ \E i \in DOMAIN commands' : b \in Range(Freed(i)')
      <3>1. \A i \in DOMAIN commands : i \in DOMAIN commands' /\ Freed(i)' = Freed(i)
        BY <2>2, Sent DEF CallAllocate, Freed, TypeOK, Allocate
      <3> QED
        BY <2>0, <2>2, <3>1 DEF CallAllocate
    <2>3. ASSUME NEW r \in Requests, TakeAnswer(r) \/ TakeRefusal(r)
          PROVE  \/ b \in Range(free_blocks')
                 \/ \E q \in Requests : b \in Range(allocation'[q])
                 \/ \E i \in DOMAIN commands' : b \in Range(Freed(i)')
      BY <2>0, <2>3 DEF TakeAnswer, TakeRefusal, Freed
    <2>4. ASSUME NEW r \in Requests, DropAllocation(r)
          PROVE  \/ b \in Range(free_blocks')
                 \/ \E q \in Requests : b \in Range(allocation'[q])
                 \/ \E i \in DOMAIN commands' : b \in Range(Freed(i)')
      <3>1. /\ free_blocks' = free_blocks
            /\ \A q \in Requests \ {r} : allocation'[q] = allocation[q]
        BY <2>0, <2>4 DEF DropAllocation
      <3>2. /\ \A i \in DOMAIN commands : i \in DOMAIN commands' /\ Freed(i)' = Freed(i)
            /\ \E i \in DOMAIN commands' : Freed(i)' = allocation[r]
        BY <2>4, FreedAfterDrop DEF DropAllocation
      <3> QED
        BY <2>0, <3>1, <3>2
    <2>5. CASE ServeFree
      <3>1. /\ allocation' = allocation
            /\ Range(free_blocks') = Range(free_blocks) \cup Range(Freed(1))
        <4>1. 1 \in DOMAIN commands /\ free_blocks' = free_blocks \o Freed(1)
          BY <2>5, Received DEF ServeFree, TypeOK, Freed
        <4> QED
          BY <2>0, <2>5, <4>1, ConcatRange DEF ServeFree
      <3>2. \A i \in DOMAIN commands \ {1} :
               i - 1 \in DOMAIN commands' /\ Freed(i - 1)' = Freed(i)
        BY <2>5, Received DEF ServeFree, TypeOK, Freed
      <3> QED
        BY <2>0, <3>1, <3>2
    <2>6. ASSUME NEW r \in Requests, ServeAllocate(r)
          PROVE  \/ b \in Range(free_blocks')
                 \/ \E q \in Requests : b \in Range(allocation'[q])
                 \/ \E i \in DOMAIN commands' : b \in Range(Freed(i)')
      <3> DEFINE required == RequiredBlocks(tokens[r])
      <3>1. required \in Nat
        BY RequiredBlocksNat DEF TypeOK
      <3>2. \A i \in DOMAIN commands \ {1} :
               i - 1 \in DOMAIN commands' /\ Freed(i - 1)' = Freed(i)
        BY <2>6, Received DEF ServeAllocate, TypeOK, Freed
      <3>3. 1 \in DOMAIN commands /\ commands[1] = Allocate(r) /\ Freed(1) = <<>>
        BY <2>6, Received DEF ServeAllocate, TypeOK, Freed, Allocate
      <3>4. allocation[r] = <<>>
        BY <3>3 DEF CallsPending, Allocate
      <3>5. CASE UNCHANGED <<free_blocks, allocation>>
        BY <2>0, <3>2, <3>3, <3>5, DisjointFacts
      <3>6. CASE required <= Len(free_blocks)
        <4>1. /\ free_blocks' = Keep(free_blocks, required)
              /\ allocation'[r] = SplitOff(free_blocks, required)
              /\ \A q \in Requests \ {r} : allocation'[q] = allocation[q]
          BY <2>0, <2>6, <3>1, <3>6 DEF ServeAllocate
        <4>2. Range(free_blocks) = Range(free_blocks') \cup Range(allocation'[r])
          BY <2>0, <3>1, <3>6, <4>1, SplitOffRange
        <4> QED
          BY <2>0, <3>2, <3>3, <3>4, <4>1, <4>2, DisjointFacts
      <3> QED
        BY <2>0, <2>6, <3>1, <3>5, <3>6 DEF ServeAllocate
    <2> QED
      BY <2>1, <2>2, <2>3, <2>4, <2>5, <2>6 DEF Next, Serve
  <1> QED
    BY <1>1, <1>2, TypeCorrect, CallsPendingCorrect, PTL DEF Spec
-----------------------------------------------------------------------------
(* The slots of an allocation.                                              *)

\* Quotient and remainder.
LEMMA DivMod ==
  ASSUME NEW a \in Nat, NEW b \in Nat \ {0}
  PROVE  /\ a \div b \in Nat /\ a % b \in 0..(b - 1)
         /\ a = b * (a \div b) + (a % b)
  OBVIOUS

\* A number has one quotient and one remainder.
LEMMA SameQuotient ==
  ASSUME NEW b \in Nat \ {0}, NEW x \in Nat, NEW y \in Nat,
         NEW u \in 0..(b - 1), NEW v \in 0..(b - 1), (x * b) + u = (y * b) + v
  PROVE  x = y /\ u = v
  OBVIOUS

\* Rounding up covers the dividend.
LEMMA CeilDivCovers ==
  ASSUME NEW a \in Nat, NEW b \in Nat \ {0}
  PROVE  CeilDiv(a, b) \in Nat /\ CeilDiv(a, b) * b >= a
<1> DEFINE n == a + b - 1
           d == n \div b
<1>1. n \in Nat
  OBVIOUS
<1>2. d \in Nat /\ n % b \in 0..(b - 1) /\ n = b * d + (n % b)
  BY <1>1, DivMod
<1> QED BY <1>2 DEF CeilDiv

\* The blocks of a request, repeated as often as allocate repeats them, have a slot
\* for each of its tokens, and without repetition for each within the window.
LEMMA WindowCovered ==
  ASSUME NEW t \in Nat \ {0}
  PROVE  /\ RequiredBlocks(t) \in Nat \ {0}
         /\ Repeats(t) \in Nat
         /\ RequiredBlocks(t) * BlockSize * Repeats(t) >= t
         /\ \A d \in Nat : d < t /\ (WindowSize = 0 \/ d < WindowSize)
              => d < RequiredBlocks(t) * BlockSize
<1> USE AllocatorAssumption
<1> DEFINE m == IF WindowSize = 0 \/ t < WindowSize THEN t ELSE WindowSize
           k == RequiredBlocks(t)
           n == Repeats(t)
<1>1. m \in Nat \ {0} /\ k = CeilDiv(m, BlockSize)
  BY DEF RequiredBlocks
<1>2. k \in Nat /\ k * BlockSize >= m
  BY <1>1, CeilDivCovers
<1>3. k # 0
  BY <1>1, <1>2
<1>4. \A d \in Nat : d < t /\ (WindowSize = 0 \/ d < WindowSize) => d < k * BlockSize
  <2> SUFFICES ASSUME NEW d \in Nat, d < t, WindowSize = 0 \/ d < WindowSize
               PROVE  d < k * BlockSize
    OBVIOUS
  <2>1. d < m
    OBVIOUS
  <2> HIDE DEF m, k
  <2> QED BY <1>1, <1>2, <2>1
<1>5. n \in Nat /\ k * BlockSize * n >= t
  <2>1. CASE WindowSize = 0
    <3>1. n = 1 /\ m = t
      BY <2>1 DEF Repeats
    <3> HIDE DEF m, k, n
    <3> QED BY <1>2, <3>1
  <2>2. CASE WindowSize # 0
    <3>1. n = CeilDiv(t, WindowSize)
      BY <2>2 DEF Repeats
    <3>2. n \in Nat /\ n * WindowSize >= t
      BY <2>2, <3>1, CeilDivCovers
    <3>3. n # 0
      BY <3>2
    <3>4. m = t \/ m = WindowSize
      BY <2>2
    <3> HIDE DEF m, k, n
    <3>5. CASE m = t
      <4> DEFINE x == k * BlockSize
      <4>1. x \in Nat /\ x >= t
        BY <1>2, <3>5
      <4> HIDE DEF x
      <4>2. x * n >= t
        BY <3>2, <3>3, <4>1
      <4> QED BY <3>2, <4>2 DEF x
    <3>6. CASE m = WindowSize
      <4> DEFINE x == k * BlockSize
      <4>1. x \in Nat /\ x >= WindowSize
        BY <1>2, <3>6
      <4> HIDE DEF x
      <4>2. x * n >= n * WindowSize
        BY <3>2, <4>1
      <4>3. x * n >= t
        BY <3>2, <4>1, <4>2
      <4> QED BY <3>2, <4>3 DEF x
    <3> QED BY <3>4, <3>5, <3>6
  <2> QED BY <2>1, <2>2
<1> HIDE DEF m, k, n
<1> QED BY <1>2, <1>3, <1>4, <1>5 DEF k, n

\* The block of the p-th token among k, and its slot in that block.
Place(p, k) == (((p - 1) \div BlockSize) % k) + 1
Offset(p) == (p - 1) % BlockSize

\* Block 0 is never handed out.
LEMMA BlockNumbers == \A x \in Blocks : x \in Nat \ {0} /\ x <= NBlocks - 1
  BY AllocatorAssumption DEF Blocks

\* The p-th slot allocate computes: the blocks are repeated, each gives BlockSize
\* slots, and the list is cut to the number of tokens.
LEMMA SlotsAre ==
  ASSUME NEW t \in Nat \ {0}, NEW blocks \in Seq(Blocks), Len(blocks) = RequiredBlocks(t)
  PROVE  /\ Slots(blocks, t) \in Seq(Nat) /\ Len(Slots(blocks, t)) = t
         /\ \A p \in 1..t :
              /\ Place(p, Len(blocks)) \in 1..Len(blocks)
              /\ Offset(p) \in 0..(BlockSize - 1)
              /\ Slots(blocks, t)[p] =
                   (blocks[Place(p, Len(blocks))] * BlockSize) + Offset(p)
<1> USE AllocatorAssumption
<1> DEFINE k == Len(blocks)
           room == k * BlockSize * Repeats(t)
           f == [p \in 1..t |-> (blocks[Place(p, k)] * BlockSize) + Offset(p)]
<1>1. k \in Nat \ {0} /\ Repeats(t) \in Nat /\ room >= t
  BY WindowCovered
<1>2. Slots(blocks, t) = f
  <2>1. (IF t < room THEN t ELSE room) = t
    <3> HIDE DEF k
    <3>1. room \in Nat
      BY <1>1
    <3> HIDE DEF room
    <3> QED BY <1>1, <3>1
  <2> QED BY <2>1 DEF Slots, Place, Offset
<1>3. ASSUME NEW p \in 1..t
      PROVE  Place(p, k) \in 1..k /\ Offset(p) \in 0..(BlockSize - 1)
  <2> DEFINE a == p - 1
             d == a \div BlockSize
  <2>1. a \in Nat
    OBVIOUS
  <2>2. d \in Nat /\ a % BlockSize \in 0..(BlockSize - 1)
    BY <2>1, DivMod
  <2> HIDE DEF k
  <2>3. d % k \in 0..(k - 1)
    BY <1>1, <2>2, DivMod
  <2> QED BY <1>1, <2>2, <2>3 DEF Place, Offset
<1>4. ASSUME NEW p \in 1..t
      PROVE  (blocks[Place(p, k)] * BlockSize) + Offset(p) \in Nat
  <2>1. blocks[Place(p, k)] \in Blocks /\ Offset(p) \in 0..(BlockSize - 1)
    BY <1>3
  <2>2. blocks[Place(p, k)] \in Nat /\ Offset(p) \in Nat
    BY <2>1, BlockNumbers
  <2> QED BY <2>2
<1>5. f \in Seq(Nat) /\ Len(f) = t
  <2> DEFINE e(p) == (blocks[Place(p, k)] * BlockSize) + Offset(p)
  <2>1. \A p \in 1..t : e(p) \in Nat
    BY <1>4
  <2> HIDE DEF e
  <2>2. [p \in 1..t |-> e(p)] \in Seq(Nat) /\ Len([p \in 1..t |-> e(p)]) = t
    BY <2>1
  <2> QED BY <2>2 DEF e
<1> QED BY <1>2, <1>3, <1>5

\* Two tokens at the same place in their blocks, less than k blocks apart, are in
\* different ones of k blocks that repeat.
LEMMA Wrapped ==
  ASSUME NEW k \in Nat \ {0}, NEW b \in Nat \ {0}, NEW a \in Nat, NEW c \in Nat,
         a < c, c - a < k * b, a % b = c % b
  PROVE  (a \div b) % k # (c \div b) % k
<1> DEFINE x == a \div b
           y == c \div b
           w == a % b
<1> SUFFICES ASSUME x % k = y % k PROVE FALSE
  OBVIOUS
<1>1. /\ x \in Nat /\ a = b * x + w /\ w \in Nat
      /\ y \in Nat /\ c = b * y + w
  <2>1. x \in Nat /\ w \in 0..(b - 1) /\ a = b * x + w
    BY DivMod
  <2>2. y \in Nat /\ c = b * y + (c % b)
    BY DivMod
  <2>3. c % b = w
    OBVIOUS
  <2> HIDE DEF x, y, w
  <2> QED BY <2>1, <2>2, <2>3
<1> HIDE DEF x, y, w
<1> DEFINE m == x \div k
           n == y \div k
           u == x % k
<1>2. /\ m \in Nat /\ x = k * m + u /\ u \in Nat
      /\ n \in Nat /\ y = k * n + u
  <2>1. m \in Nat /\ u \in 0..(k - 1) /\ x = k * m + u
    BY <1>1, DivMod
  <2>2. n \in Nat /\ y = k * n + (y % k)
    BY <1>1, DivMod
  <2>3. y % k = u
    OBVIOUS
  <2> HIDE DEF m, n, u
  <2> QED BY <2>1, <2>2, <2>3
<1> HIDE DEF m, n, u
<1>3. y > x
  <2> SUFFICES ASSUME y <= x PROVE FALSE
    BY <1>1
  <2>1. b * y <= b * x
    BY <1>1
  <2> QED BY <1>1, <2>1
<1>4. n >= m + 1
  <2> SUFFICES ASSUME n <= m PROVE FALSE
    BY <1>2
  <2>1. k * n <= k * m
    BY <1>2
  <2> QED BY <1>1, <1>2, <1>3, <2>1
<1>5. k * n >= k * m + k
  BY <1>2, <1>4
<1>6. y >= x + k
  BY <1>1, <1>2, <1>5
<1>7. b * y >= b * x + b * k
  BY <1>1, <1>6
<1>8. c - a >= b * k
  BY <1>1, <1>7
<1> QED BY <1>8

\* Two tokens of a request within the attention window never share a slot, though
\* the blocks repeat when the window is shorter than the request.
LEMMA SlotsApart ==
  ASSUME NEW t \in Nat \ {0}, NEW blocks \in Seq(Blocks), Len(blocks) = RequiredBlocks(t),
         IsInjective(blocks),
         NEW p \in 1..t, NEW q \in 1..t, p < q, WindowSize = 0 \/ q - p < WindowSize
  PROVE  Slots(blocks, t)[p] # Slots(blocks, t)[q]
<1> USE AllocatorAssumption
<1> DEFINE k == Len(blocks)
           b == BlockSize
           i == Place(p, k)
           j == Place(q, k)
<1> SUFFICES ASSUME Slots(blocks, t)[p] = Slots(blocks, t)[q] PROVE FALSE
  OBVIOUS
<1>1. k \in Nat \ {0} /\ q - p < k * b
  <2>1. q - p \in Nat /\ q - p < t
    OBVIOUS
  <2> QED BY <2>1, WindowCovered
<1>2. /\ i \in 1..k /\ Offset(p) \in 0..(b - 1)
      /\ Slots(blocks, t)[p] = (blocks[i] * b) + Offset(p)
  BY SlotsAre
<1>3. /\ j \in 1..k /\ Offset(q) \in 0..(b - 1)
      /\ Slots(blocks, t)[q] = (blocks[j] * b) + Offset(q)
  BY SlotsAre
<1>4. blocks[i] \in Blocks /\ blocks[j] \in Blocks /\ DOMAIN blocks = 1..k
  BY <1>2, <1>3
<1> HIDE DEF i, j
<1>5. blocks[i] = blocks[j] /\ Offset(p) = Offset(q)
  <2> DEFINE x == blocks[i]
             y == blocks[j]
             u == Offset(p)
             v == Offset(q)
  <2>1. x \in Nat /\ y \in Nat
    BY <1>4, BlockNumbers
  <2>2. (x * b) + u = (y * b) + v /\ u \in 0..(b - 1) /\ v \in 0..(b - 1)
    BY <1>2, <1>3
  <2> HIDE DEF x, y, u, v
  <2>3. x = y /\ u = v
    BY <2>1, <2>2, SameQuotient
  <2> QED BY <2>3 DEF x, y, u, v
<1>6. i = j
  BY <1>2, <1>3, <1>4, <1>5 DEF IsInjective
<1> DEFINE a == p - 1
           c == q - 1
<1>7. /\ a \in Nat /\ c \in Nat /\ a < c /\ c - a < k * b
      /\ a % b = c % b
  <2> HIDE DEF k
  <2> QED BY <1>1, <1>5 DEF Offset
<1> HIDE DEF k
<1>8. (a \div b) % k # (c \div b) % k
  <2> HIDE DEF a, c
  <2> QED BY <1>1, <1>7, Wrapped
<1>9. (a \div b) % k \in Nat /\ (c \div b) % k \in Nat
  <2> HIDE DEF a, c
  <2> DEFINE x == a \div b
             y == c \div b
  <2>1. x \in Nat /\ y \in Nat
    BY <1>7, DivMod
  <2> HIDE DEF x, y
  <2>2. x % k \in 0..(k - 1) /\ y % k \in 0..(k - 1)
    BY <1>1, <2>1, DivMod
  <2>3. x % k \in Nat /\ y % k \in Nat
    BY <1>1, <2>2
  <2> QED BY <2>3 DEF x, y
<1> QED BY <1>6, <1>8, <1>9 DEF i, j, Place

\* No token is in a slot of the health check or outside the KV cache.
LEMMA SlotsOutside ==
  ASSUME NEW t \in Nat \ {0}, NEW blocks \in Seq(Blocks), Len(blocks) = RequiredBlocks(t),
         HealthTokens <= BlockSize, NEW p \in 1..t
  PROVE  Slots(blocks, t)[p] \in (0..(NBlocks * BlockSize - 1)) \ HealthSlots
<1> USE AllocatorAssumption
<1> DEFINE x == blocks[Place(p, Len(blocks))]
           u == Offset(p)
           b == BlockSize
           n == NBlocks
<1>1. /\ x \in Blocks /\ u \in 0..(b - 1)
      /\ Slots(blocks, t)[p] = (x * b) + u
  BY SlotsAre
<1>2. x \in Nat \ {0} /\ x <= n - 1
  BY <1>1, BlockNumbers
<1> HIDE DEF x, u
<1>3. (x * b) + u >= b
  <2>1. x * b >= b
    BY <1>2
  <2> QED BY <1>1, <1>2, <2>1
<1>4. (x * b) + u <= n * b - 1
  <2>1. x * b <= (n - 1) * b
    BY <1>2
  <2>2. (n - 1) * b = n * b - b
    OBVIOUS
  <2> QED BY <1>1, <1>2, <2>1, <2>2
<1>5. (x * b) + u \in Nat
  BY <1>1, <1>2
<1> DEFINE s == (x * b) + u
           e == n * b
<1>6. s \in Nat /\ s >= b /\ s <= e - 1 /\ e \in Nat
  BY <1>3, <1>4, <1>5
<1> HIDE DEF s, e
<1>7. s \in 0..(e - 1) /\ s \notin HealthSlots
  BY <1>6 DEF HealthSlots
<1> QED BY <1>1, <1>7 DEF s, e

\* Two requests that share no block share no slot.
LEMMA SlotsDisjoint ==
  ASSUME NEW t \in Nat \ {0}, NEW v \in Nat \ {0},
         NEW blocks \in Seq(Blocks), Len(blocks) = RequiredBlocks(t),
         NEW others \in Seq(Blocks), Len(others) = RequiredBlocks(v),
         Disjoint(blocks, others)
  PROVE  Disjoint(Slots(blocks, t), Slots(others, v))
<1> USE AllocatorAssumption
<1> DEFINE S == Slots(blocks, t)
           T == Slots(others, v)
<1>1. DOMAIN S = 1..t /\ DOMAIN T = 1..v
  BY SlotsAre
<1> SUFFICES ASSUME NEW p \in 1..t, NEW q \in 1..v, S[p] = T[q] PROVE FALSE
  BY <1>1 DEF Disjoint, Range
<1> DEFINE i == Place(p, Len(blocks))
           j == Place(q, Len(others))
           x == blocks[i]
           y == others[j]
<1>2. i \in 1..Len(blocks) /\ Offset(p) \in 0..(BlockSize - 1) /\ S[p] = (x * BlockSize) + Offset(p)
  BY SlotsAre
<1>3. j \in 1..Len(others) /\ Offset(q) \in 0..(BlockSize - 1) /\ T[q] = (y * BlockSize) + Offset(q)
  BY SlotsAre
<1>4. x \in Blocks /\ x \in Range(blocks) /\ y \in Blocks /\ y \in Range(others)
  <2>1. i \in DOMAIN blocks /\ j \in DOMAIN others
    BY <1>2, <1>3
  <2> HIDE DEF i, j
  <2> QED BY <2>1 DEF Range
<1> HIDE DEF S, T, x, y
<1>5. x = y
  <2>1. x \in Nat /\ y \in Nat
    BY <1>4, BlockNumbers
  <2> DEFINE u == Offset(p)
             w == Offset(q)
  <2>2. /\ (x * BlockSize) + u = (y * BlockSize) + w
        /\ u \in 0..(BlockSize - 1) /\ w \in 0..(BlockSize - 1)
    BY <1>2, <1>3
  <2> HIDE DEF u, w
  <2> QED BY <2>1, <2>2, SameQuotient
<1> QED BY <1>4, <1>5 DEF Disjoint

\* A request that holds blocks holds as many as its tokens need.
LiveSized ==
  \A r \in Requests :
    /\ phase[r] # "idle" => tokens[r] # 0
    /\ Live(r) => Len(allocation[r]) = RequiredBlocks(tokens[r])

\* LiveSized is an invariant: allocate hands out exactly the blocks it computed.
LEMMA LiveSizedCorrect == Spec => []LiveSized
<1>1. Init => LiveSized
  BY DEF Init, LiveSized, Live
<1>2. TypeOK /\ CallsPending /\ LiveSized /\ [Next]_vars => LiveSized'
  <2> SUFFICES ASSUME TypeOK, CallsPending, LiveSized, [Next]_vars PROVE LiveSized'
    OBVIOUS
  <2>1. CASE UNCHANGED vars
    BY <2>1 DEF vars, LiveSized, Live
  <2>2. ASSUME NEW r \in Requests, NEW t \in 1..MaxTokens, CallAllocate(r, t)
        PROVE  LiveSized'
    BY <2>2 DEF CallAllocate, TypeOK, LiveSized, Live
  <2>3. ASSUME NEW r \in Requests, TakeAnswer(r) PROVE LiveSized'
    BY <2>3 DEF TakeAnswer, TypeOK, LiveSized, Live
  <2>4. ASSUME NEW r \in Requests, TakeRefusal(r) PROVE LiveSized'
    BY <2>4 DEF TakeRefusal, TypeOK, LiveSized, Live
  <2>5. ASSUME NEW r \in Requests, DropAllocation(r) PROVE LiveSized'
    BY <2>5 DEF DropAllocation, TypeOK, LiveSized, Live
  <2>6. CASE ServeFree
    BY <2>6 DEF ServeFree, TypeOK, LiveSized, Live
  <2>7. ASSUME NEW r \in Requests, ServeAllocate(r) PROVE LiveSized'
    <3> DEFINE required == RequiredBlocks(tokens[r])
    <3>1. required \in Nat
      BY RequiredBlocksNat DEF TypeOK
    <3>2. phase[r] = "waiting"
      <4>1. commands \in Seq(Command) /\ commands # <<>> /\ Head(commands) = Allocate(r)
        BY <2>7 DEF ServeAllocate, TypeOK, Command
      <4>2. 1 \in DOMAIN commands /\ commands[1] = Allocate(r)
        BY <4>1, Received
      <4> QED BY <4>2 DEF CallsPending, Allocate
    <3>3. CASE phase' = [phase EXCEPT ![r] = "refused"] /\ UNCHANGED <<tokens, allocation>>
      BY <3>2, <3>3 DEF TypeOK, LiveSized, Live
    <3>4. CASE /\ required <= Len(free_blocks)
               /\ allocation' = [allocation EXCEPT ![r] = SplitOff(free_blocks, required)]
               /\ phase' = [phase EXCEPT ![r] = "answered"] /\ UNCHANGED tokens
      <4>1. Len(SplitOff(free_blocks, required)) = required
        BY <3>1, <3>4, SplitOffSeq DEF TypeOK
      <4> DEFINE new == SplitOff(free_blocks, required)
      <4> HIDE DEF new, required
      <4>2. allocation' = [allocation EXCEPT ![r] = new] /\ Len(new) = required
        BY <3>4, <4>1 DEF new
      <4> QED BY <3>2, <3>4, <4>2 DEF TypeOK, LiveSized, Live, required
    <3> QED BY <2>7, <3>3, <3>4 DEF ServeAllocate
  <2> QED
    BY <2>1, <2>2, <2>3, <2>4, <2>5, <2>6, <2>7 DEF Next, Serve
<1> QED BY <1>1, <1>2, TypeCorrect, CallsPendingCorrect, PTL DEF Spec

\* SlotsSafe: a token is written where no other request, no other token within the
\* window and no health check writes, if a health check needs at most one block.
THEOREM SlotsSafeCorrect ==
  ASSUME HealthTokens <= BlockSize
  PROVE  Spec => []SlotsSafe
<1>1. TypeOK /\ NoDoubleOwnership /\ LiveSized => SlotsSafe
  <2> SUFFICES ASSUME TypeOK, NoDoubleOwnership, LiveSized, NEW r \in Requests, Live(r)
               PROVE  /\ Len(SlotsOf(r)) = tokens[r]
                      /\ \A p \in 1..tokens[r] :
                           SlotsOf(r)[p] \in (0..(NBlocks * BlockSize - 1)) \ HealthSlots
                      /\ \A q \in Requests \ {r} : Live(q) => Disjoint(SlotsOf(r), SlotsOf(q))
                      /\ \A p, q \in 1..tokens[r] :
                           (p < q /\ (WindowSize = 0 \/ q - p < WindowSize))
                              => SlotsOf(r)[p] # SlotsOf(r)[q]
    BY DEF SlotsSafe
  <2>1. \A q \in Requests : Live(q) =>
          /\ tokens[q] \in Nat \ {0} /\ allocation[q] \in Seq(Blocks)
          /\ Len(allocation[q]) = RequiredBlocks(tokens[q])
    BY AllocatorAssumption DEF TypeOK, LiveSized, Live
  <2>2. IsInjective(allocation[r])
    BY DEF NoDoubleOwnership
  <2>3. Len(SlotsOf(r)) = tokens[r]
    BY <2>1, SlotsAre DEF SlotsOf
  <2>4. \A p \in 1..tokens[r] :
          SlotsOf(r)[p] \in (0..(NBlocks * BlockSize - 1)) \ HealthSlots
    BY <2>1, SlotsOutside DEF SlotsOf
  <2>5. \A q \in Requests \ {r} : Live(q) => Disjoint(SlotsOf(r), SlotsOf(q))
    <3> SUFFICES ASSUME NEW q \in Requests \ {r}, Live(q)
                 PROVE  Disjoint(SlotsOf(r), SlotsOf(q))
      OBVIOUS
    <3>1. Disjoint(allocation[r], allocation[q])
      BY DEF NoDoubleOwnership
    <3> QED BY <2>1, <3>1, SlotsDisjoint DEF SlotsOf
  <2>6. \A p, q \in 1..tokens[r] :
          (p < q /\ (WindowSize = 0 \/ q - p < WindowSize))
             => SlotsOf(r)[p] # SlotsOf(r)[q]
    BY <2>1, <2>2, SlotsApart DEF SlotsOf
  <2> QED BY <2>3, <2>4, <2>5, <2>6
<1> QED BY <1>1, TypeCorrect, NoDoubleOwnershipCorrect, LiveSizedCorrect, PTL

-----------------------------------------------------------------------------
(***************************************************************************)
(* The block allocator behind its command channel implements the atomic    *)
(* pool of BlockPool, for every number of entries and blocks, every block  *)
(* size, window and demand, and however many Free commands are under way.  *)
(*                                                                         *)
(* The mapping answers a call when it is made: by the free list the task   *)
(* will have when it reaches the call.  So the proof rests on what that    *)
(* list is (FreeAfterRange), and on how it looks from the next state: a    *)
(* command sent later does not change it (FreeAfterSent), a command served *)
(* ahead of the call has already been counted (FreeAfterServed).           *)
(***************************************************************************)

\* The blocks a command brings back are usable blocks.
LEMMA BlocksInSeq == \A c \in Command : BlocksIn(c) \in Seq(Blocks)
  BY DEF Command, BlocksIn

\* Serving a command leaves a list of usable blocks.
LEMMA ExtendedSeq ==
  \A l \in Seq(Blocks), c \in Command : Extended(l, c) \in Seq(Blocks)
  <1> TAKE l \in Seq(Blocks), c \in Command
  <1>1. BlocksIn(c) \in Seq(Blocks)
    BY BlocksInSeq
  <1> DEFINE b == BlocksIn(c)
  <1> HIDE DEF b
  <1>2. l \o b \in Seq(Blocks)
    BY <1>1 DEF b
  <1> QED BY <1>2 DEF Extended, b

\* The lists FreeAfter goes through: it starts with the free list and extends it
\* by one command at a time, as block_allocator_task does.
LEMMA FreeAfterRun ==
  ASSUME NEW free, NEW q, Len(q) \in Nat
  PROVE  /\ FreeAfter(free, q)[0] = free
         /\ \A i \in 1..Len(q) :
              FreeAfter(free, q)[i] = Extended(FreeAfter(free, q)[i - 1], q[i])
<1> DEFINE n == Len(q)
           Step(g, i) == IF i = 0 THEN free ELSE Extended(g[i - 1], q[i])
           Run(m, g) == g = [i \in 0..m |-> Step(g, i)]
           S == {m \in 0..n : \E g : Run(m, g)}
<1>1. 0 \in S
  <2> DEFINE g == [i \in 0..0 |-> free]
  <2>1. Run(0, g)
    BY SMT
  <2>2. \E f : Run(0, f)
    BY <2>1, Zenon
  <2>3. 0 \in 0..n
    OBVIOUS
  <2> QED BY <2>2, <2>3, Zenon
<1>2. ASSUME NEW m \in 1..n, m - 1 \in S PROVE m \in S
  <2>1. PICK g : Run(m - 1, g)
    BY <1>2
  <2> DEFINE k == [i \in 0..m |-> IF i = m THEN Step(g, m) ELSE g[i]]
  <2>2. ASSUME NEW i \in 0..m PROVE k[i] = Step(k, i)
    <3>1. CASE i = 0
      <4>1. g[0] = free
        BY <2>1
      <4> QED BY <3>1, <4>1
    <3>2. CASE i # 0
      <4>1. k[i - 1] = g[i - 1]
        BY <3>2
      <4>2. CASE i = m
        BY <3>2, <4>1, <4>2
      <4>3. CASE i # m
        <5>1. i \in 0..(m - 1) /\ k[i] = g[i]
          BY <4>3
        <5>2. g[i] = Step(g, i)
          BY <2>1, <5>1
        <5> QED BY <3>2, <4>1, <5>1, <5>2
      <4> QED BY <4>2, <4>3
    <3> QED BY <3>1, <3>2
  <2>3. Run(m, k)
    BY <2>2
  <2>4. \E f : Run(m, f)
    BY <2>3, Zenon
  <2>5. m \in 0..n
    OBVIOUS
  <2> QED BY <2>4, <2>5, Zenon
<1>3. \E g : Run(n, g)
  <2>1. 0..n \subseteq S
    <3> HIDE DEF S
    <3>1. \A m \in 1..n : m - 1 \in S => m \in S
      BY <1>2
    <3> QED BY <1>1, <3>1, IntervalInduction
  <2>2. n \in S
    BY <2>1
  <2> QED BY <2>2
<1> DEFINE w == FreeAfter(free, q)
<1>4. w = CHOOSE g : Run(n, g)
  BY DEF FreeAfter
<1>5. Run(n, w)
  BY <1>3, <1>4, Zenon
<1> HIDE DEF w
<1> QED BY <1>5 DEF w

\* The same for lists of blocks, which all stay lists of blocks.
LEMMA FreeAfterDef ==
  ASSUME NEW free \in Seq(Blocks), NEW q \in Seq(Command)
  PROVE  /\ FreeAfter(free, q)[0] = free
         /\ \A i \in 0..Len(q) : FreeAfter(free, q)[i] \in Seq(Blocks)
         /\ \A i \in 1..Len(q) :
              FreeAfter(free, q)[i] = Extended(FreeAfter(free, q)[i - 1], q[i])
<1> DEFINE n == Len(q)
           f == FreeAfter(free, q)
           S == {i \in 0..n : f[i] \in Seq(Blocks)}
<1>1. n \in Nat /\ \A i \in 1..n : q[i] \in Command
  OBVIOUS
<1>2. f[0] = free /\ \A i \in 1..n : f[i] = Extended(f[i - 1], q[i])
  BY <1>1, FreeAfterRun
<1> HIDE DEF f, n
<1>3. 0 \in S
  BY <1>1, <1>2
<1>4. ASSUME NEW i \in 1..n, i - 1 \in S PROVE i \in S
  <2>1. f[i - 1] \in Seq(Blocks) /\ q[i] \in Command /\ i \in 0..n
    BY <1>1, <1>4
  <2> QED BY <1>2, <2>1, ExtendedSeq
<1>5. 0..n \subseteq S
  <2> HIDE DEF S
  <2>1. \A i \in 1..n : i - 1 \in S => i \in S
    BY <1>4
  <2> QED BY <1>1, <1>3, <2>1, IntervalInduction
<1> QED BY <1>2, <1>5 DEF f, n

\* Two runs of the task, the second d commands ahead of the first.
Aligned(m, d, f, g, p, q) ==
    /\ m \in Nat /\ d \in Nat /\ g[0] = f[d]
    /\ \A i \in 1..m : p[i] = q[d + i]
    /\ \A i \in 1..m : g[i] = Extended(g[i - 1], p[i])
    /\ \A i \in 1..m : f[d + i] = Extended(f[d + i - 1], q[d + i])
SameRun(m, d, f, g) == \A i \in 0..m : g[i] = f[d + i]

\* Two runs that start with the same list and serve the same commands go
\* through the same lists.
LEMMA SameLists ==
  \A m, d, f, g, p, q : Aligned(m, d, f, g, p, q) => SameRun(m, d, f, g)
<1> SUFFICES ASSUME NEW m, NEW d, NEW f, NEW g, NEW p, NEW q,
                    Aligned(m, d, f, g, p, q)
             PROVE  \A i \in 0..m : g[i] = f[d + i]
  BY DEF SameRun
<1>0. /\ m \in Nat /\ d \in Nat /\ g[0] = f[d]
      /\ \A i \in 1..m : p[i] = q[d + i]
      /\ \A i \in 1..m : g[i] = Extended(g[i - 1], p[i])
      /\ \A i \in 1..m : f[d + i] = Extended(f[d + i - 1], q[d + i])
  BY DEF Aligned
<1> DEFINE S == {i \in 0..m : g[i] = f[d + i]}
<1>1. 0 \in S
  BY <1>0
<1>2. ASSUME NEW i \in 1..m, i - 1 \in S PROVE i \in S
  <2>1. g[i - 1] = f[d + (i - 1)] /\ d + (i - 1) = d + i - 1 /\ i \in 0..m
    BY <1>0, <1>2
  <2> QED BY <1>0, <2>1
<1>3. 0..m \subseteq S
  <2> HIDE DEF S
  <2>1. \A i \in 1..m : i - 1 \in S => i \in S
    BY <1>2
  <2> QED BY <1>0, <1>1, <2>1, IntervalInduction
<1> QED BY <1>3

\* A command sent now changes nothing for the ones already in the channel.
LEMMA FreeAfterSent ==
  ASSUME NEW free \in Seq(Blocks), NEW q \in Seq(Command), NEW c \in Command
  PROVE  \A i \in 0..Len(q) : FreeAfter(free, Append(q, c))[i] = FreeAfter(free, q)[i]
<1> DEFINE n == Len(q)
           p == Append(q, c)
           f == FreeAfter(free, q)
           g == FreeAfter(free, p)
<1>1. /\ p \in Seq(Command) /\ n \in Nat /\ Len(p) = n + 1
      /\ \A i \in 1..n : p[i] = q[i] /\ i \in 1..(n + 1)
  OBVIOUS
<1> HIDE DEF p
<1>2. f[0] = free /\ \A i \in 1..n : f[i] = Extended(f[i - 1], q[i])
  BY FreeAfterDef
<1>3. g[0] = free /\ \A i \in 1..(n + 1) : g[i] = Extended(g[i - 1], p[i])
  BY <1>1, FreeAfterDef
<1> HIDE DEF f, g, n
<1>4. /\ g[0] = f[0]
      /\ \A i \in 1..n : p[i] = q[0 + i]
      /\ \A i \in 1..n : g[i] = Extended(g[i - 1], p[i])
      /\ \A i \in 1..n : f[0 + i] = Extended(f[0 + i - 1], q[0 + i])
  BY <1>1, <1>2, <1>3
<1>5. \A i \in 0..n : g[i] = f[i]
  <2> DEFINE d == 0
  <2>1. Aligned(n, d, f, g, p, q)
    BY <1>1, <1>4 DEF Aligned
  <2>2. SameRun(n, d, f, g)
    BY <2>1, SameLists
  <2> QED BY <1>1, <2>2 DEF SameRun
<1>6. \A i \in 0..n : g[i] = f[i]
  BY <1>5
<1> QED BY <1>6 DEF f, g, n, p

\* Serving the first command brings the others one step closer, to the same
\* lists.
LEMMA FreeAfterServed ==
  ASSUME NEW free \in Seq(Blocks), NEW q \in Seq(Command), q # <<>>
  PROVE  \A i \in 0..(Len(q) - 1) :
            FreeAfter(Extended(free, q[1]), Tail(q))[i] = FreeAfter(free, q)[i + 1]
<1> DEFINE n == Len(q)
           p == Tail(q)
           start == Extended(free, q[1])
           f == FreeAfter(free, q)
           g == FreeAfter(start, p)
<1>1. /\ p \in Seq(Command) /\ n \in Nat \ {0} /\ Len(p) = n - 1
      /\ \A i \in 1..(n - 1) : p[i] = q[1 + i] /\ 1 + i \in 1..n
      /\ q[1] \in Command
  OBVIOUS
<1> HIDE DEF p
<1>2. start \in Seq(Blocks)
  BY <1>1, ExtendedSeq
<1>3. f[0] = free /\ \A i \in 1..n : f[i] = Extended(f[i - 1], q[i])
  BY FreeAfterDef
<1> HIDE DEF start
<1>4. g[0] = start /\ \A i \in 1..Len(p) : g[i] = Extended(g[i - 1], p[i])
  BY <1>1, <1>2, FreeAfterDef
<1> HIDE DEF f, g, n
<1>5. f[1] = start
  BY <1>1, <1>3 DEF start
<1>6. /\ g[0] = f[1]
      /\ \A i \in 1..(n - 1) : p[i] = q[1 + i]
      /\ \A i \in 1..(n - 1) : g[i] = Extended(g[i - 1], p[i])
      /\ \A i \in 1..(n - 1) : f[1 + i] = Extended(f[1 + i - 1], q[1 + i])
  BY <1>1, <1>3, <1>4, <1>5
<1>7. \A i \in 0..(n - 1) : g[i] = f[i + 1]
  <2> DEFINE d == 1
             m == n - 1
  <2>1. Aligned(m, d, f, g, p, q)
    BY <1>1, <1>6 DEF Aligned
  <2>2. SameRun(m, d, f, g)
    BY <2>1, SameLists
  <2>3. \A i \in 0..m : d + i = i + 1
    BY <1>1
  <2> QED BY <2>2, <2>3 DEF SameRun
<1>8. \A i \in 0..(n - 1) : g[i] = f[i + 1]
  BY <1>7
<1> QED BY <1>8 DEF f, g, n, p, start

\* If no block is twice in the free list and the channel, none is twice in a
\* list the task will have, and each such list holds the free blocks and the ones
\* returned so far, no others.
LEMMA FreeAfterRange ==
  ASSUME NEW free \in Seq(Blocks), NEW q \in Seq(Command), IsInjective(free),
         \A i \in 1..Len(q) :
            /\ IsInjective(BlocksIn(q[i])) /\ Disjoint(BlocksIn(q[i]), free)
            /\ \A j \in 1..Len(q) : j # i => Disjoint(BlocksIn(q[i]), BlocksIn(q[j]))
  PROVE  \A i \in 0..Len(q) :
            /\ IsInjective(FreeAfter(free, q)[i])
            /\ \A x : x \in Range(FreeAfter(free, q)[i]) <=>
                 x \in Range(free) \/ \E j \in 1..i : x \in Range(BlocksIn(q[j]))
<1> DEFINE n == Len(q)
           f == FreeAfter(free, q)
           B(i) == BlocksIn(q[i])
           Good(l, i) == /\ IsInjective(l)
                         /\ \A x : x \in Range(l) <=>
                              x \in Range(free) \/ \E j \in 1..i : x \in Range(B(j))
           S == {i \in 0..n : Good(f[i], i)}
<1>1. /\ f[0] = free /\ \A i \in 0..n : f[i] \in Seq(Blocks)
      /\ \A i \in 1..n : f[i] = f[i - 1] \o B(i)
  BY FreeAfterDef DEF Extended
<1>2. n \in Nat /\ \A i \in 1..n : B(i) \in Seq(Blocks)
  BY BlocksInSeq
<1>3. \A i \in 1..n :
            /\ IsInjective(B(i)) /\ Disjoint(B(i), free)
            /\ \A j \in 1..n : j # i => Disjoint(B(i), B(j))
  OBVIOUS
<1> HIDE DEF f, B, n
<1>4. 0 \in S
  <2>1. Good(free, 0)
    OBVIOUS
  <2>2. 0 \in 0..n
    BY <1>2
  <2> HIDE DEF Good
  <2> QED BY <1>1, <2>1, <2>2
<1>5. ASSUME NEW i \in 1..n, i - 1 \in S PROVE i \in S
  <2> DEFINE l == f[i - 1]
  <2>1. Good(l, i - 1) /\ i - 1 \in 0..n /\ i \in 0..n
    BY <1>5
  <2>2. l \in Seq(Blocks) /\ B(i) \in Seq(Blocks) /\ f[i] = l \o B(i)
    BY <1>1, <1>2, <2>1
  <2> HIDE DEF l
  <2>3. Disjoint(l, B(i))
    <3>1. ASSUME NEW x \in Range(l), x \in Range(B(i)) PROVE FALSE
      <4>1. x \in Range(free) \/ \E j \in 1..(i - 1) : x \in Range(B(j))
        BY <2>1, <3>1
      <4>2. CASE x \in Range(free)
        BY <1>3, <3>1, <4>2 DEF Disjoint
      <4>3. ASSUME NEW j \in 1..(i - 1), x \in Range(B(j)) PROVE FALSE
        <5>1. j \in 1..n /\ j # i
          BY <1>2
        <5> QED BY <1>3, <3>1, <4>3, <5>1 DEF Disjoint
      <4> QED BY <4>1, <4>2, <4>3
    <3> QED BY <3>1 DEF Disjoint
  <2>4. Range(l \o B(i)) = Range(l) \cup Range(B(i)) /\ IsInjective(l \o B(i))
    BY <1>3, <2>1, <2>2, <2>3, ConcatRange
  <2>5. \A j : j \in 1..i <=> j \in 1..(i - 1) \/ j = i
    BY <1>2
  <2>6. Good(l \o B(i), i)
    <3>1. \A x : x \in Range(l) <=>
             x \in Range(free) \/ \E j \in 1..(i - 1) : x \in Range(B(j))
      BY <2>1
    <3>2. ASSUME NEW x
          PROVE  x \in Range(l \o B(i)) <=>
                   x \in Range(free) \/ \E j \in 1..i : x \in Range(B(j))
      <4>1. x \in Range(l \o B(i)) <=> x \in Range(l) \/ x \in Range(B(i))
        BY <2>4
      <4> QED BY <2>5, <3>1, <4>1, Zenon
    <3> QED BY <2>4, <3>2
  <2> HIDE DEF Good
  <2>7. Good(f[i], i)
    BY <2>2, <2>6
  <2> QED BY <2>1, <2>7
<1>6. 0..n \subseteq S
  <2> HIDE DEF S
  <2>1. \A i \in 1..n : i - 1 \in S => i \in S
    BY <1>5
  <2> QED BY <1>2, <1>4, <2>1, IntervalInduction
<1>7. \A i \in 0..n : Good(f[i], i)
  <2> HIDE DEF Good
  <2> QED BY <1>6
<1> QED BY <1>7 DEF f, n, B

\* At most one call is in flight, it is in the channel until it is served, and
\* an entry has a demand exactly while it uses the allocator.
OneCall ==
    /\ \A r, q \in Requests :
         phase[r] \notin {"idle", "holding"} /\ phase[q] \notin {"idle", "holding"} => r = q
    /\ \A r \in Requests :
         phase[r] = "waiting" => \E i \in DOMAIN commands : commands[i] = Allocate(r)
    /\ \A r \in Requests : phase[r] = "idle" <=> tokens[r] = 0

\* The two kinds of BlockAllocatorCommand.
LEMMA CommandKinds ==
  /\ \A r \in Requests : Allocate(r) \in Command /\ Allocate(r).op = "Allocate"
                          /\ Allocate(r).req = r /\ BlocksIn(Allocate(r)) = <<>>
  /\ \A c \in Command : c.op = "Allocate" => c.req \in Requests /\ c = Allocate(c.req)
  /\ \A s \in Seq(Blocks) : Free(s) \in Command /\ Free(s).op = "Free" /\ BlocksIn(Free(s)) = s
  BY DEF Command, Allocate, Free, BlocksIn

\* The queue awaits each answer before it calls again: at most one call is in
\* flight, and it is in the channel until the task serves it.
LEMMA OneCallCorrect == Spec => []OneCall
<1>1. Init => OneCall
  BY DEF Init, OneCall
<1>2. TypeOK /\ CallsPending /\ OneCall /\ [Next]_vars => OneCall'
  <2> SUFFICES ASSUME TypeOK, CallsPending, OneCall, [Next]_vars PROVE OneCall'
    OBVIOUS
  <2>0. /\ commands \in Seq(Command) /\ phase \in [Requests -> Phases]
        /\ tokens \in [Requests -> 0..MaxTokens]
    BY DEF TypeOK, Command
  <2>1. CASE UNCHANGED vars
    BY <2>1 DEF vars, OneCall
  <2>2. ASSUME NEW r \in Requests, NEW t \in 1..MaxTokens, CallAllocate(r, t)
        PROVE  OneCall'
    <3>1. /\ commands' = Append(commands, Allocate(r)) /\ QueueIdle
          /\ phase' = [phase EXCEPT ![r] = "waiting"] /\ tokens' = [tokens EXCEPT ![r] = t]
      BY <2>2 DEF CallAllocate
    <3>2. \E i \in DOMAIN commands' : commands'[i] = Allocate(r)
      BY <2>0, <3>1, Sent, CommandKinds
    <3>3. \A q \in Requests : phase'[q] # "idle" /\ phase'[q] # "holding" => q = r
      BY <2>0, <3>1 DEF QueueIdle
    <3>4. \A q \in Requests : phase'[q] = "idle" <=> tokens'[q] = 0
      BY <2>0, <3>1, AllocatorAssumption DEF OneCall
    <3> QED BY <3>2, <3>3, <3>4 DEF OneCall
  <2>3. ASSUME NEW r \in Requests, TakeAnswer(r) PROVE OneCall'
    BY <2>0, <2>3 DEF TakeAnswer, OneCall
  <2>4. ASSUME NEW r \in Requests, TakeRefusal(r) PROVE OneCall'
    BY <2>0, <2>4 DEF TakeRefusal, OneCall
  <2>5. ASSUME NEW r \in Requests, DropAllocation(r) PROVE OneCall'
    <3>1. /\ commands' = Append(commands, Free(allocation[r]))
          /\ phase' = [phase EXCEPT ![r] = "idle"] /\ tokens' = [tokens EXCEPT ![r] = 0]
      BY <2>5 DEF DropAllocation
    <3>2. \A q \in Requests :
             (\E i \in DOMAIN commands : commands[i] = Allocate(q))
               => \E i \in DOMAIN commands' : commands'[i] = Allocate(q)
      <4>1. Free(allocation[r]) \in Command
        BY CommandKinds DEF TypeOK
      <4> QED BY <2>0, <3>1, <4>1, Sent
    <3> QED BY <2>0, <3>1, <3>2 DEF OneCall
  <2>6. CASE ServeFree
    <3>1. /\ commands # <<>> /\ commands' = Tail(commands) /\ Head(commands).op = "Free"
          /\ phase' = phase /\ tokens' = tokens
      BY <2>6 DEF ServeFree
    <3>2. \A q \in Requests :
             (\E i \in DOMAIN commands : commands[i] = Allocate(q))
               => \E i \in DOMAIN commands' : commands'[i] = Allocate(q)
      <4> SUFFICES ASSUME NEW q \in Requests, NEW i \in DOMAIN commands,
                          commands[i] = Allocate(q)
                   PROVE  \E j \in DOMAIN commands' : commands'[j] = Allocate(q)
        OBVIOUS
      <4>1. commands[1].op = "Free"
        BY <2>0, <3>1, Received
      <4>2. i # 1
        BY <4>1, CommandKinds
      <4>3. i - 1 \in DOMAIN Tail(commands) /\ Tail(commands)[i - 1] = commands[i]
        BY <2>0, <3>1, <4>2, Received
      <4> QED BY <3>1, <4>3
    <3> QED BY <3>1, <3>2 DEF OneCall
  <2>7. ASSUME NEW r \in Requests, ServeAllocate(r) PROVE OneCall'
    <3>1. /\ tokens' = tokens
          /\ \E p \in {"answered", "refused"} : phase' = [phase EXCEPT ![r] = p]
          /\ commands # <<>> /\ Head(commands) = Allocate(r)
      BY <2>7 DEF ServeAllocate
    <3>2. phase[r] = "waiting"
      BY <2>0, <3>1, Received, CommandKinds DEF CallsPending
    <3> QED BY <2>0, <3>1, <3>2 DEF OneCall
  <2> QED
    BY <2>1, <2>2, <2>3, <2>4, <2>5, <2>6, <2>7 DEF Next, Serve
<1> QED
  BY <1>1, <1>2, TypeCorrect, CallsPendingCorrect, PTL DEF Spec

\* What the refinement needs of a state.
PoolInv == TypeOK /\ CallsPending /\ NoDoubleOwnership /\ NoLeak /\ OneCall

\* The place of a call that is in the channel once.
LEMMA PositionIs ==
  ASSUME NEW q, NEW r, NEW i \in DOMAIN q, q[i] = Allocate(r),
         \A j \in DOMAIN q : q[j] = Allocate(r) => j = i
  PROVE  Position(q, r) = i
  BY DEF Position

\* A waiting caller has exactly one command in the channel.
LEMMA Waiting ==
  ASSUME PoolInv, NEW r \in Requests, phase[r] = "waiting"
  PROVE  \E i \in 1..Len(commands) :
            /\ commands[i] = Allocate(r) /\ Position(commands, r) = i
            /\ \A j \in DOMAIN commands : commands[j] = Allocate(r) => j = i
<1>1. PICK i \in DOMAIN commands : commands[i] = Allocate(r)
  BY DEF PoolInv, OneCall
<1>2. \A j \in DOMAIN commands : commands[j] = Allocate(r) => j = i
  BY <1>1, CommandKinds DEF PoolInv, CallsPending
<1>3. Position(commands, r) = i
  BY <1>1, <1>2, PositionIs
<1>4. DOMAIN commands = 1..Len(commands)
  BY DEF PoolInv, TypeOK
<1> QED BY <1>1, <1>2, <1>3, <1>4

\* What each list the task will have consists of, in a reachable state.
LEMMA ListsAhead ==
  ASSUME PoolInv
  PROVE  \A i \in 0..Len(commands) :
            /\ FreeAfter(free_blocks, commands)[i] \in Seq(Blocks)
            /\ IsInjective(FreeAfter(free_blocks, commands)[i])
            /\ \A x : x \in Range(FreeAfter(free_blocks, commands)[i]) <=>
                 x \in Range(free_blocks) \/ \E j \in 1..i : x \in Range(Freed(j))
<1>1. /\ free_blocks \in Seq(Blocks) /\ commands \in Seq(Command)
      /\ DOMAIN commands = 1..Len(commands)
  BY DEF PoolInv, TypeOK, Command
<1>2. \A i : Freed(i) = BlocksIn(commands[i])
  BY DEF Freed, BlocksIn
<1>3. /\ IsInjective(free_blocks)
      /\ \A i \in 1..Len(commands) :
            /\ IsInjective(BlocksIn(commands[i])) /\ Disjoint(BlocksIn(commands[i]), free_blocks)
            /\ \A j \in 1..Len(commands) :
                 j # i => Disjoint(BlocksIn(commands[i]), BlocksIn(commands[j]))
  BY <1>1, <1>2 DEF PoolInv, NoDoubleOwnership
<1>4. \A i \in 0..Len(commands) : FreeAfter(free_blocks, commands)[i] \in Seq(Blocks)
  BY <1>1, FreeAfterDef
<1>5. \A i \in 0..Len(commands) :
            /\ IsInjective(FreeAfter(free_blocks, commands)[i])
            /\ \A x : x \in Range(FreeAfter(free_blocks, commands)[i]) <=>
                 x \in Range(free_blocks) \/ \E j \in 1..i : x \in Range(BlocksIn(commands[j]))
  BY <1>1, <1>3, FreeAfterRange
<1> QED BY <1>2, <1>4, <1>5

\* A pending call is promised only blocks that are free or on their way back.
LEMMA OwnedWaiting ==
  ASSUME PoolInv, NEW r \in Requests, phase[r] = "waiting"
  PROVE  \A x \in OwnedBy(r) : \/ x \in Range(free_blocks)
                               \/ \E j \in DOMAIN commands : x \in Range(Freed(j))
<1>1. PICK i \in 1..Len(commands) : Position(commands, r) = i
  BY Waiting
<1> DEFINE f == FreeAfter(free_blocks, commands)[i - 1]
           n == RequiredBlocks(tokens[r])
<1>2. Len(commands) \in Nat /\ DOMAIN commands = 1..Len(commands) /\ i - 1 \in 0..Len(commands)
  BY DEF PoolInv, TypeOK
<1>3. /\ f \in Seq(Blocks)
      /\ \A x : x \in Range(f) =>
            x \in Range(free_blocks) \/ \E j \in 1..(i - 1) : x \in Range(Freed(j))
  BY <1>2, ListsAhead
<1>4. n \in Nat
  BY RequiredBlocksNat DEF PoolInv, TypeOK
<1>5. FreeWhenServed(r) = f
  BY <1>1 DEF FreeWhenServed
<1>6. OwnedBy(r) = IF n <= Len(f) THEN Range(SplitOff(f, n)) ELSE {}
  BY <1>5 DEF OwnedBy, WillBeGranted
<1> HIDE DEF f, n
<1>7. OwnedBy(r) \subseteq Range(f)
  <2>1. CASE n <= Len(f)
    BY <1>3, <1>4, <1>6, <2>1, SplitOffRange
  <2> QED BY <1>6, <2>1
<1>8. \A j \in 1..(i - 1) : j \in DOMAIN commands
  BY <1>2
<1> QED BY <1>3, <1>7, <1>8

\* Without a pending call, an entry owns what its allocation says.
LEMMA OwnedElse ==
  ASSUME NEW r \in Requests, phase[r] # "waiting"
  PROVE  OwnedBy(r) = Range(allocation[r])
  BY DEF OwnedBy

\* Two entries own no block in common, a promised one included.
LEMMA OwnedApart ==
  ASSUME PoolInv, NEW r \in Requests, NEW q \in Requests, r # q,
         phase[r] # "waiting"
  PROVE  OwnedBy(r) \cap OwnedBy(q) = {}
<1>1. OwnedBy(r) = Range(allocation[r])
  BY OwnedElse
<1>2. CASE phase[q] = "waiting"
  BY <1>1, <1>2, OwnedWaiting DEF PoolInv, NoDoubleOwnership, Disjoint
<1>3. CASE phase[q] # "waiting"
  BY <1>1, <1>3, OwnedElse DEF PoolInv, NoDoubleOwnership, Disjoint
<1> QED BY <1>2, <1>3

\* A step that changes no entry's share changes nothing of the pool.
LEMMA Stutter ==
  ASSUME \A q \in Requests : OwnedBy(q)' = OwnedBy(q),
         \A q \in Requests : StatusOf(q)' = StatusOf(q),
         \A q \in Requests : WantOf(q)' = WantOf(q)
  PROVE  UNCHANGED Pool!poolVars
<1>1. Owned' = Owned
  BY DEF Owned
<1>2. Status' = Status
  BY DEF Status
<1>3. Wanted' = Wanted
  BY DEF Wanted
<1>4. Available' = Available
  <2>1. {OwnedBy(q) : q \in Requests}' = {OwnedBy(q) : q \in Requests}
    OBVIOUS
  <2> QED BY <2>1 DEF Available, Blocks
<1> QED BY <1>1, <1>2, <1>3, <1>4 DEF Pool!poolVars

\* SimpleAllocator starts as the full pool.
LEMMA PoolInit == Init => Pool!PoolInit
<1> SUFFICES ASSUME Init PROVE Pool!PoolInit
  OBVIOUS
<1>1. \A r \in Requests : phase[r] = "idle" /\ tokens[r] = 0 /\ allocation[r] = <<>>
  BY DEF Init
<1>2. \A r \in Requests : OwnedBy(r) = {}
  BY <1>1, DisjointFacts DEF OwnedBy
<1>3. \A r \in Requests : StatusOf(r) = "none"
  BY <1>1 DEF StatusOf
<1>4. \A r \in Requests : WantOf(r) = 0
  BY <1>1 DEF WantOf
<1> QED BY <1>2, <1>3, <1>4 DEF Pool!PoolInit, Available, Owned, Status, Wanted

\* The elements of a sequence over S are in S.
LEMMA RangeIn == \A S : \A s \in Seq(S) : Range(s) \subseteq S
  BY DEF Range

\* An entry's share depends on its phase, its demand, its allocation and, while its
\* call is in flight, on the list the call will see.
LEMMA SameView ==
  ASSUME NEW q \in Requests,
         phase'[q] = phase[q], tokens'[q] = tokens[q], allocation'[q] = allocation[q],
         phase[q] = "waiting" => FreeWhenServed(q)' = FreeWhenServed(q)
  PROVE  OwnedBy(q)' = OwnedBy(q) /\ StatusOf(q)' = StatusOf(q) /\ WantOf(q)' = WantOf(q)
<1>1. CASE phase[q] = "waiting"
  <2>1. WillBeGranted(q)' <=> WillBeGranted(q)
    BY <1>1 DEF WillBeGranted
  <2>2. OwnedBy(q)' = OwnedBy(q)
    BY <1>1, <2>1 DEF OwnedBy
  <2>3. StatusOf(q)' = StatusOf(q)
    BY <1>1, <2>1 DEF StatusOf
  <2>4. WantOf(q)' = WantOf(q)
    BY DEF WantOf
  <2> QED BY <2>2, <2>3, <2>4
<1>2. CASE phase[q] # "waiting"
  BY <1>2 DEF OwnedBy, StatusOf, WantOf
<1> QED BY <1>1, <1>2

\* Receiving a granted allocation is no step of the pool: the grant was when the
\* call was made.
LEMMA TakeAnswerStutters ==
  ASSUME PoolInv, NEW r \in Requests, TakeAnswer(r)
  PROVE  UNCHANGED Pool!poolVars
<1>0. phase \in [Requests -> Phases]
  BY DEF PoolInv, TypeOK
<1>1. /\ phase[r] = "answered" /\ phase' = [phase EXCEPT ![r] = "holding"]
      /\ UNCHANGED <<free_blocks, commands, tokens, allocation>>
  BY DEF TakeAnswer
<1>2. ASSUME NEW q \in Requests
      PROVE  OwnedBy(q)' = OwnedBy(q) /\ StatusOf(q)' = StatusOf(q) /\ WantOf(q)' = WantOf(q)
  <2>1. CASE q = r
    <3>1. phase[q] = "answered" /\ phase'[q] = "holding" /\ tokens'[q] = tokens[q]
          /\ allocation'[q] = allocation[q]
      BY <1>0, <1>1, <2>1
    <3> QED BY <3>1 DEF OwnedBy, StatusOf, WantOf
  <2>2. CASE q # r
    <3>1. phase'[q] = phase[q] /\ tokens'[q] = tokens[q] /\ allocation'[q] = allocation[q]
      BY <1>0, <1>1, <2>2
    <3>2. FreeWhenServed(q)' = FreeWhenServed(q)
      BY <1>1 DEF FreeWhenServed
    <3> QED BY <3>1, <3>2, SameView
  <2> QED BY <2>1, <2>2
<1> QED BY <1>2, Stutter

\* Receiving None is the pool's Requeue.
LEMMA TakeRefusalRequeues ==
  ASSUME PoolInv, NEW r \in Requests, TakeRefusal(r)
  PROVE  Pool!Requeue(r)
<1>0. phase \in [Requests -> Phases] /\ tokens \in [Requests -> 0..MaxTokens]
  BY DEF PoolInv, TypeOK
<1>1. /\ phase[r] = "refused" /\ phase' = [phase EXCEPT ![r] = "idle"]
      /\ tokens' = [tokens EXCEPT ![r] = 0]
      /\ UNCHANGED <<free_blocks, commands, allocation>>
  BY DEF TakeRefusal
<1>2. phase'[r] = "idle" /\ tokens'[r] = 0 /\ allocation'[r] = allocation[r]
  BY <1>0, <1>1
<1>3. StatusOf(r) = "refused" /\ StatusOf(r)' = "none" /\ WantOf(r)' = 0
      /\ OwnedBy(r)' = OwnedBy(r)
  BY <1>1, <1>2 DEF OwnedBy, StatusOf, WantOf
<1>4. ASSUME NEW q \in Requests, q # r
      PROVE  OwnedBy(q)' = OwnedBy(q) /\ StatusOf(q)' = StatusOf(q) /\ WantOf(q)' = WantOf(q)
  <2>1. phase'[q] = phase[q] /\ tokens'[q] = tokens[q] /\ allocation'[q] = allocation[q]
    BY <1>0, <1>1, <1>4
  <2>2. FreeWhenServed(q)' = FreeWhenServed(q)
    BY <1>1 DEF FreeWhenServed
  <2> QED BY <2>1, <2>2, SameView
<1>5. Status[r] = "refused" /\ Status' = [Status EXCEPT ![r] = "none"]
  BY <1>3, <1>4 DEF Status
<1>6. Wanted' = [Wanted EXCEPT ![r] = 0]
  BY <1>3, <1>4 DEF Wanted
<1>7. \A q \in Requests : OwnedBy(q)' = OwnedBy(q)
  BY <1>3, <1>4
<1>8. Owned' = Owned /\ Available' = Available
  BY <1>7 DEF Owned, Available, Blocks
<1> QED BY <1>5, <1>6, <1>8 DEF Pool!Requeue

\* Dropping an allocation is the pool's Release, at once, although the Free
\* command is only served later.
LEMMA DropReleases ==
  ASSUME PoolInv, NEW r \in Requests, DropAllocation(r)
  PROVE  Pool!Release(r)
<1>0. /\ phase \in [Requests -> Phases] /\ tokens \in [Requests -> 0..MaxTokens]
      /\ allocation \in [Requests -> Seq(Blocks)]
      /\ commands \in Seq(Command) /\ free_blocks \in Seq(Blocks)
  BY DEF PoolInv, TypeOK, Command
<1>1. /\ phase[r] = "holding" /\ phase' = [phase EXCEPT ![r] = "idle"]
      /\ tokens' = [tokens EXCEPT ![r] = 0]
      /\ allocation' = [allocation EXCEPT ![r] = <<>>]
      /\ commands' = Append(commands, Free(allocation[r]))
      /\ free_blocks' = free_blocks
  BY DEF DropAllocation
<1>2. phase'[r] = "idle" /\ tokens'[r] = 0 /\ allocation'[r] = <<>>
  BY <1>0, <1>1
<1>3. StatusOf(r) = "granted" /\ StatusOf(r)' = "none" /\ WantOf(r)' = 0
      /\ OwnedBy(r)' = {}
  BY <1>1, <1>2, DisjointFacts DEF OwnedBy, StatusOf, WantOf
<1>4. ASSUME NEW q \in Requests, q # r
      PROVE  OwnedBy(q)' = OwnedBy(q) /\ StatusOf(q)' = StatusOf(q) /\ WantOf(q)' = WantOf(q)
  <2>1. phase'[q] = phase[q] /\ tokens'[q] = tokens[q] /\ allocation'[q] = allocation[q]
    BY <1>0, <1>1, <1>4
  <2>2. ASSUME phase[q] = "waiting" PROVE FreeWhenServed(q)' = FreeWhenServed(q)
    <3> DEFINE c == Free(allocation[r])
    <3>1. PICK i \in 1..Len(commands) :
             /\ commands[i] = Allocate(q) /\ Position(commands, q) = i
             /\ \A j \in DOMAIN commands : commands[j] = Allocate(q) => j = i
      BY <2>2, Waiting
    <3>2. c \in Command /\ c # Allocate(q)
      BY <1>0, CommandKinds
    <3> HIDE DEF c
    <3>3. /\ i \in DOMAIN Append(commands, c) /\ Append(commands, c)[i] = Allocate(q)
          /\ \A j \in DOMAIN Append(commands, c) : Append(commands, c)[j] = Allocate(q) => j = i
      BY <1>0, <3>1, <3>2, Sent
    <3>4. Position(Append(commands, c), q) = i
      BY <3>3, PositionIs
    <3>5. i - 1 \in 0..Len(commands)
      BY <1>0
    <3>6. FreeAfter(free_blocks, Append(commands, c))[i - 1] = FreeAfter(free_blocks, commands)[i - 1]
      BY <1>0, <3>2, <3>5, FreeAfterSent
    <3>7. commands' = Append(commands, c)
      BY <1>1 DEF c
    <3> QED BY <1>1, <3>1, <3>4, <3>6, <3>7 DEF FreeWhenServed
  <2> QED BY <2>1, <2>2, SameView
<1>5. Status[r] = "granted" /\ Status' = [Status EXCEPT ![r] = "none"]
  BY <1>3, <1>4 DEF Status
<1>6. Wanted' = [Wanted EXCEPT ![r] = 0]
  BY <1>3, <1>4 DEF Wanted
<1>7. Owned' = [Owned EXCEPT ![r] = {}] /\ Owned[r] = OwnedBy(r)
  BY <1>3, <1>4 DEF Owned
<1>8. OwnedBy(r) \subseteq Blocks
  <2>1. allocation[r] \in Seq(Blocks) /\ OwnedBy(r) = Range(allocation[r])
    BY <1>0, <1>1, OwnedElse
  <2> QED BY <2>1, RangeIn
<1>9. Available' = Available \cup OwnedBy(r)
  <2>1. ASSUME NEW x \in Blocks
        PROVE  x \in Available' <=> x \in Available \/ x \in OwnedBy(r)
    <3>1. x \in Available <=> \A q \in Requests : x \notin OwnedBy(q)
      BY <2>1 DEF Available
    <3>2. x \in Available' <=> \A q \in Requests : x \notin OwnedBy(q)'
      BY <2>1 DEF Available, Blocks
    <3>3. x \in OwnedBy(r) => \A q \in Requests : q # r => x \notin OwnedBy(q)
      BY <1>1, OwnedApart
    <3> QED BY <1>3, <1>4, <3>1, <3>2, <3>3
  <2>2. Available \subseteq Blocks /\ Available' \subseteq Blocks
    BY DEF Available, Blocks
  <2> QED BY <1>8, <2>1, <2>2
<1> QED BY <1>5, <1>6, <1>7, <1>9 DEF Pool!Release

\* Serving a Free command is no step of the pool.
LEMMA ServeFreeStutters ==
  ASSUME PoolInv, ServeFree
  PROVE  UNCHANGED Pool!poolVars
<1>0. commands \in Seq(Command) /\ free_blocks \in Seq(Blocks)
  BY DEF PoolInv, TypeOK, Command
<1>1. /\ commands # <<>> /\ Head(commands).op = "Free"
      /\ free_blocks' = free_blocks \o Head(commands).blocks
      /\ commands' = Tail(commands)
      /\ UNCHANGED <<phase, tokens, allocation>>
  BY DEF ServeFree
<1>2. Head(commands) = commands[1] /\ commands[1].op = "Free"
  BY <1>0, <1>1, Received
<1>3. free_blocks' = Extended(free_blocks, commands[1])
  BY <1>1, <1>2 DEF Extended, BlocksIn
<1>4. ASSUME NEW q \in Requests
      PROVE  OwnedBy(q)' = OwnedBy(q) /\ StatusOf(q)' = StatusOf(q) /\ WantOf(q)' = WantOf(q)
  <2>1. phase'[q] = phase[q] /\ tokens'[q] = tokens[q] /\ allocation'[q] = allocation[q]
    BY <1>1
  <2>2. ASSUME phase[q] = "waiting" PROVE FreeWhenServed(q)' = FreeWhenServed(q)
    <3>1. PICK i \in 1..Len(commands) :
             /\ commands[i] = Allocate(q) /\ Position(commands, q) = i
             /\ \A j \in DOMAIN commands : commands[j] = Allocate(q) => j = i
      BY <2>2, Waiting
    <3>2. i # 1
      BY <1>2, <3>1, CommandKinds
    <3>3. /\ i \in DOMAIN commands /\ Len(commands) \in Nat
          /\ i - 1 \in DOMAIN Tail(commands) /\ Tail(commands)[i - 1] = Allocate(q)
      BY <1>0, <1>1, <3>1, <3>2, Received
    <3>4. ASSUME NEW j \in DOMAIN Tail(commands), Tail(commands)[j] = Allocate(q)
          PROVE  j = i - 1
      <4>1. j + 1 \in DOMAIN commands /\ commands[j + 1] = Allocate(q) /\ j \in Nat
        BY <1>0, <1>1, <3>4, Received
      <4>2. j + 1 = i
        BY <3>1, <4>1
      <4> QED BY <4>1, <4>2
    <3>5. Position(Tail(commands), q) = i - 1
      BY <3>3, <3>4, PositionIs
    <3>6. i - 2 \in 0..(Len(commands) - 1) /\ i - 2 + 1 = i - 1 /\ i - 1 - 1 = i - 2
      BY <3>2, <3>3
    <3>7. FreeAfter(Extended(free_blocks, commands[1]), Tail(commands))[i - 2]
            = FreeAfter(free_blocks, commands)[i - 1]
      BY <1>0, <1>1, <3>6, FreeAfterServed
    <3>8. FreeWhenServed(q)' = FreeAfter(free_blocks', commands')[i - 2]
      BY <1>1, <3>5, <3>6 DEF FreeWhenServed
    <3> QED BY <1>1, <1>3, <3>1, <3>7, <3>8 DEF FreeWhenServed
  <2> QED BY <2>1, <2>2, SameView
<1> QED BY <1>4, Stutter

\* Serving a call is no step of the pool: it gives what was promised.
LEMMA ServeAllocateStutters ==
  ASSUME PoolInv, NEW r \in Requests, ServeAllocate(r)
  PROVE  UNCHANGED Pool!poolVars
<1>0. /\ phase \in [Requests -> Phases] /\ allocation \in [Requests -> Seq(Blocks)]
      /\ commands \in Seq(Command) /\ free_blocks \in Seq(Blocks)
      /\ tokens \in [Requests -> 0..MaxTokens]
  BY DEF PoolInv, TypeOK, Command
<1> DEFINE n == RequiredBlocks(tokens[r])
<1>1. /\ commands # <<>> /\ Head(commands) = Allocate(r) /\ tokens' = tokens
      /\ \/ /\ n > Len(free_blocks) /\ allocation' = allocation
            /\ phase' = [phase EXCEPT ![r] = "refused"]
         \/ /\ n <= Len(free_blocks)
            /\ allocation' = [allocation EXCEPT ![r] = SplitOff(free_blocks, n)]
            /\ phase' = [phase EXCEPT ![r] = "answered"]
  BY DEF ServeAllocate
<1>2. n \in Nat /\ Len(free_blocks) \in Nat
  BY <1>0, RequiredBlocksNat
<1>3. 1 \in DOMAIN commands /\ commands[1] = Allocate(r)
  BY <1>0, <1>1, Received
<1>4. phase[r] = "waiting" /\ allocation[r] = <<>>
  BY <1>3, CommandKinds DEF PoolInv, CallsPending
<1>5. FreeWhenServed(r) = free_blocks
  <2>1. PICK i \in 1..Len(commands) :
             /\ Position(commands, r) = i
             /\ \A j \in DOMAIN commands : commands[j] = Allocate(r) => j = i
    BY <1>4, Waiting
  <2>2. i = 1
    BY <1>3, <2>1
  <2>3. FreeAfter(free_blocks, commands)[0] = free_blocks
    BY <1>0, FreeAfterDef
  <2> QED BY <2>1, <2>2, <2>3 DEF FreeWhenServed
<1>6. /\ OwnedBy(r) = IF n <= Len(free_blocks) THEN Range(SplitOff(free_blocks, n)) ELSE {}
      /\ StatusOf(r) = IF n <= Len(free_blocks) THEN "granted" ELSE "refused"
  <2>1. WillBeGranted(r) <=> n <= Len(free_blocks)
    BY <1>5 DEF WillBeGranted
  <2> QED BY <1>4, <1>5, <2>1 DEF OwnedBy, StatusOf
<1> HIDE DEF n
<1>7. OwnedBy(r)' = OwnedBy(r) /\ StatusOf(r)' = StatusOf(r) /\ WantOf(r)' = WantOf(r)
  <2>1. WantOf(r)' = WantOf(r)
    BY <1>1 DEF WantOf
  <2>2. CASE n <= Len(free_blocks)
    <3>1. phase'[r] = "answered" /\ allocation'[r] = SplitOff(free_blocks, n)
      BY <1>0, <1>1, <1>2, <2>2
    <3>2. OwnedBy(r)' = Range(SplitOff(free_blocks, n)) /\ StatusOf(r)' = "granted"
      BY <3>1 DEF OwnedBy, StatusOf
    <3> QED BY <1>6, <2>1, <2>2, <3>2
  <2>3. CASE ~ (n <= Len(free_blocks))
    <3>1. phase'[r] = "refused" /\ allocation'[r] = <<>>
      BY <1>0, <1>1, <1>2, <1>4, <2>3
    <3>2. OwnedBy(r)' = {} /\ StatusOf(r)' = "refused"
      BY <3>1, DisjointFacts DEF OwnedBy, StatusOf
    <3> QED BY <1>6, <2>1, <2>3, <3>2
  <2> QED BY <2>2, <2>3
<1>8. ASSUME NEW q \in Requests, q # r
      PROVE  OwnedBy(q)' = OwnedBy(q) /\ StatusOf(q)' = StatusOf(q) /\ WantOf(q)' = WantOf(q)
  <2>1. phase'[q] = phase[q] /\ tokens'[q] = tokens[q] /\ allocation'[q] = allocation[q]
    BY <1>0, <1>1, <1>8
  <2>2. phase[q] # "waiting"
    BY <1>4, <1>8 DEF PoolInv, OneCall
  <2> QED BY <2>1, <2>2, SameView
<1>9. \A q \in Requests :
         OwnedBy(q)' = OwnedBy(q) /\ StatusOf(q)' = StatusOf(q) /\ WantOf(q)' = WantOf(q)
  BY <1>7, <1>8
<1> QED BY <1>9, Stutter

\* A list without duplicates has as many elements as entries.
LEMMA CardinalityOf ==
  ASSUME NEW S, NEW s \in Seq(S), IsInjective(s)
  PROVE  IsFiniteSet(Range(s)) /\ Cardinality(Range(s)) = Len(s)
<1>1. Len(s) \in Nat /\ DOMAIN s = 1..Len(s)
  OBVIOUS
<1>2. s \in Bijection(1..Len(s), Range(s))
  <2>1. s \in [1..Len(s) -> Range(s)]
    BY <1>1 DEF Range
  <2>2. \A a, b \in 1..Len(s) : s[a] = s[b] => a = b
    BY <1>1 DEF IsInjective
  <2>3. \A t \in Range(s) : \E a \in 1..Len(s) : s[a] = t
    BY <1>1 DEF Range
  <2> QED BY <2>1, <2>2, <2>3 DEF Bijection, Injection, Surjection, IsInjective
<1>3. ExistsBijection(1..Len(s), Range(s))
  BY <1>2 DEF ExistsBijection
<1> QED BY <1>1, <1>3, FS_CountingElements, FS_NatBijection, FS_Bijection

\* The pool counts blocks as this module does.
LEMMA SameCardinality == \A S : Pool!Cardinality(S) = Cardinality(S)
  BY Zenon DEF Pool!Cardinality, Cardinality

\* Calling allocate is the pool's Grant or Refuse, decided by the blocks nobody
\* owns at that moment (NoLeak: those are exactly the ones the task will find).
LEMMA CallTakes ==
  ASSUME PoolInv, NEW r \in Requests, NEW t \in 1..MaxTokens, CallAllocate(r, t)
  PROVE  \E n \in Demands : Pool!Grant(r, n) \/ Pool!Refuse(r, n)
<1>0. /\ phase \in [Requests -> Phases] /\ tokens \in [Requests -> 0..MaxTokens]
      /\ allocation \in [Requests -> Seq(Blocks)]
      /\ commands \in Seq(Command) /\ free_blocks \in Seq(Blocks)
      /\ MaxTokens \in Nat /\ Len(commands) \in Nat /\ DOMAIN commands = 1..Len(commands)
  BY AllocatorAssumption DEF PoolInv, TypeOK, Command
<1>1. /\ phase[r] = "idle" /\ QueueIdle
      /\ tokens' = [tokens EXCEPT ![r] = t]
      /\ commands' = Append(commands, Allocate(r))
      /\ phase' = [phase EXCEPT ![r] = "waiting"]
      /\ free_blocks' = free_blocks /\ allocation' = allocation
  BY DEF CallAllocate
<1>2. phase'[r] = "waiting" /\ tokens'[r] = t /\ t # 0
  BY <1>0, <1>1
<1> DEFINE n == RequiredBlocks(t)
           l == FreeAfter(free_blocks, commands)[Len(commands)]
<1>3. n \in Nat /\ n \in Demands
  BY <1>0, RequiredBlocksNat DEF Demands
<1>4. \A q \in Requests : phase[q] # "waiting"
  BY <1>1 DEF QueueIdle
<1>5. \A q \in Requests : OwnedBy(q) = Range(allocation[q])
  BY <1>4, OwnedElse
<1>6. /\ l \in Seq(Blocks) /\ IsInjective(l)
      /\ \A x : x \in Range(l) <=>
            x \in Range(free_blocks) \/ \E j \in 1..Len(commands) : x \in Range(Freed(j))
  <2> DEFINE m == Len(commands)
  <2>1. m \in 0..Len(commands) /\ m = Len(commands)
    BY <1>0
  <2> HIDE DEF m
  <2>2. /\ FreeAfter(free_blocks, commands)[m] \in Seq(Blocks)
        /\ IsInjective(FreeAfter(free_blocks, commands)[m])
        /\ \A x : x \in Range(FreeAfter(free_blocks, commands)[m]) <=>
             x \in Range(free_blocks) \/ \E j \in 1..m : x \in Range(Freed(j))
    BY <2>1, ListsAhead
  <2>3. l = FreeAfter(free_blocks, commands)[m]
    BY <2>1
  <2> HIDE DEF l
  <2> QED BY <2>1, <2>2, <2>3, Zenon
<1>7. FreeWhenServed(r)' = l
  <2> DEFINE c == Allocate(r)
  <2>1. c \in Command
    BY CommandKinds
  <2>2. \A j \in DOMAIN commands : commands[j] # c
    BY <1>1, CommandKinds DEF PoolInv, CallsPending
  <2>3. commands' = Append(commands, c)
    BY <1>1
  <2>4. c = Allocate(r)
    OBVIOUS
  <2> HIDE DEF c
  <2>5. /\ Len(commands) + 1 \in DOMAIN Append(commands, c)
        /\ Append(commands, c)[Len(commands) + 1] = c
        /\ \A j \in DOMAIN Append(commands, c) : Append(commands, c)[j] = c => j = Len(commands) + 1
    BY <1>0, <2>1, <2>2, Sent
  <2>6. Position(Append(commands, c), r) = Len(commands) + 1
    BY <2>4, <2>5, PositionIs
  <2>7. FreeAfter(free_blocks, Append(commands, c))[Len(commands)] = l
    BY <1>0, <2>1, FreeAfterSent
  <2>8. Len(commands) + 1 - 1 = Len(commands)
    BY <1>0
  <2>9. FreeWhenServed(r)' = FreeAfter(free_blocks, Append(commands, c))[Len(commands) + 1 - 1]
    BY <1>1, <2>3, <2>6 DEF FreeWhenServed
  <2> HIDE DEF l
  <2> QED BY <2>7, <2>8, <2>9
<1> HIDE DEF l
<1>8. Available = Range(l)
  <2>1. ASSUME NEW x \in Blocks PROVE x \in Available <=> x \in Range(l)
    <3>1. x \in Available <=> \A q \in Requests : x \notin Range(allocation[q])
      BY <1>5 DEF Available
    <3>2. x \in Range(l) => \A q \in Requests : x \notin Range(allocation[q])
      BY <1>0, <1>6 DEF PoolInv, NoDoubleOwnership, Disjoint
    <3>3. x \in Range(l) \/ \E q \in Requests : x \in Range(allocation[q])
      BY <1>0, <1>6 DEF PoolInv, NoLeak
    <3> QED BY <3>1, <3>2, <3>3
  <2>2. Available \subseteq Blocks
    BY DEF Available
  <2>3. Range(l) \subseteq Blocks
    BY <1>6, RangeIn
  <2> QED BY <2>1, <2>2, <2>3
<1>9. IsFiniteSet(Available) /\ Cardinality(Available) = Len(l) /\ Len(l) \in Nat
  BY <1>6, <1>8, CardinalityOf
<1>10. ASSUME NEW q \in Requests, q # r
       PROVE  OwnedBy(q)' = OwnedBy(q) /\ StatusOf(q)' = StatusOf(q) /\ WantOf(q)' = WantOf(q)
  <2>1. phase'[q] = phase[q] /\ tokens'[q] = tokens[q] /\ allocation'[q] = allocation[q]
    BY <1>0, <1>1, <1>10
  <2> QED BY <1>4, <2>1, SameView
<1>11. StatusOf(r) = "none" /\ WantOf(r)' = n
  <2>1. WantOf(r)' = n
    BY <1>2 DEF WantOf
  <2> QED BY <1>1, <2>1 DEF StatusOf
<1>12. WillBeGranted(r)' <=> n <= Len(l)
  BY <1>2, <1>7 DEF WillBeGranted
<1>13. Wanted' = [Wanted EXCEPT ![r] = n] /\ Status[r] = "none"
  BY <1>10, <1>11 DEF Wanted, Status
<1>14. CASE n <= Len(l)
  <2> DEFINE S == Range(SplitOff(l, n))
  <2>1. OwnedBy(r)' = S /\ StatusOf(r)' = "granted"
    BY <1>2, <1>7, <1>12, <1>14 DEF OwnedBy, StatusOf
  <2>2. /\ S \subseteq Range(l) /\ IsInjective(SplitOff(l, n))
        /\ SplitOff(l, n) \in Seq(Blocks) /\ Len(SplitOff(l, n)) = n
    BY <1>3, <1>6, <1>14, SplitOffRange, SplitOffSeq
  <2>3. Cardinality(S) = n
    BY <2>2, CardinalityOf
  <2> HIDE DEF S, n
  <2>4. Owned' = [Owned EXCEPT ![r] = S] /\ Status' = [Status EXCEPT ![r] = "granted"]
    BY <1>10, <2>1 DEF Owned, Status
  <2>5. Available' = Available \ S
    <3>1. OwnedBy(r) = {}
      <4>1. allocation[r] = <<>>
        BY <1>1 DEF PoolInv, CallsPending
      <4> QED BY <1>5, <4>1, DisjointFacts
    <3>2. ASSUME NEW x \in Blocks PROVE x \in Available' <=> x \in Available /\ x \notin S
      <4>1. x \in Available <=> \A q \in Requests : x \notin OwnedBy(q)
        BY DEF Available
      <4>2. x \in Available' <=> \A q \in Requests : x \notin OwnedBy(q)'
        BY DEF Available, Blocks
      <4> QED BY <1>10, <2>1, <3>1, <4>1, <4>2
    <3>3. Available \subseteq Blocks /\ Available' \subseteq Blocks
      BY DEF Available, Blocks
    <3> QED BY <3>2, <3>3
  <2>6. S \in SUBSET Available
    BY <1>8, <2>2 DEF S
  <2>7. Pool!Grant(r, n)
    BY <1>13, <2>3, <2>4, <2>5, <2>6, SameCardinality DEF Pool!Grant
  <2> QED BY <1>3, <2>7
<1>15. CASE ~ (n <= Len(l))
  <2>1. OwnedBy(r)' = {} /\ StatusOf(r)' = "refused"
    BY <1>2, <1>12, <1>15 DEF OwnedBy, StatusOf
  <2>2. Cardinality(Available) < n
    BY <1>3, <1>9, <1>15
  <2>3. OwnedBy(r) = {}
    <3>1. allocation[r] = <<>>
      BY <1>1 DEF PoolInv, CallsPending
    <3> QED BY <1>5, <3>1, DisjointFacts
  <2>4. \A q \in Requests : OwnedBy(q)' = OwnedBy(q)
    BY <1>10, <2>1, <2>3
  <2>5. Owned' = Owned /\ Available' = Available
    BY <2>4 DEF Owned, Available, Blocks
  <2>6. Status' = [Status EXCEPT ![r] = "refused"]
    BY <1>10, <2>1 DEF Status
  <2> HIDE DEF n
  <2>7. Pool!Refuse(r, n)
    BY <1>13, <2>2, <2>5, <2>6, SameCardinality DEF Pool!Refuse
  <2> QED BY <1>3, <2>7
<1> QED BY <1>14, <1>15

\* The allocator behind its channel and its task implements the atomic pool: a
\* drop is effective at once for every later call, and a call is refused only
\* when the blocks nobody owns at that moment do not cover it.
THEOREM ImplementsPoolCorrect == Spec => ImplementsPool
<1>1. PoolInv /\ [Next]_vars => [Pool!PoolNext]_(Pool!poolVars)
  <2> SUFFICES ASSUME PoolInv, [Next]_vars
               PROVE  Pool!PoolNext \/ UNCHANGED Pool!poolVars
    OBVIOUS
  <2>1. CASE UNCHANGED vars
    <3>1. ASSUME NEW q \in Requests
          PROVE  OwnedBy(q)' = OwnedBy(q) /\ StatusOf(q)' = StatusOf(q) /\ WantOf(q)' = WantOf(q)
      <4>1. FreeWhenServed(q)' = FreeWhenServed(q)
        BY <2>1 DEF vars, FreeWhenServed
      <4>2. phase'[q] = phase[q] /\ tokens'[q] = tokens[q] /\ allocation'[q] = allocation[q]
        BY <2>1 DEF vars
      <4> QED BY <4>1, <4>2, SameView
    <3> QED BY <3>1, Stutter
  <2>2. ASSUME NEW r \in Requests, NEW t \in 1..MaxTokens, CallAllocate(r, t)
        PROVE  Pool!PoolNext
    BY <2>2, CallTakes, Zenon DEF Pool!PoolNext
  <2>3. ASSUME NEW r \in Requests, TakeRefusal(r) PROVE Pool!PoolNext
    BY <2>3, TakeRefusalRequeues, Zenon DEF Pool!PoolNext
  <2>4. ASSUME NEW r \in Requests, DropAllocation(r) PROVE Pool!PoolNext
    BY <2>4, DropReleases, Zenon DEF Pool!PoolNext
  <2>5. ASSUME NEW r \in Requests, TakeAnswer(r) \/ ServeAllocate(r)
        PROVE  UNCHANGED Pool!poolVars
    BY <2>5, TakeAnswerStutters, ServeAllocateStutters
  <2>6. ASSUME ServeFree PROVE UNCHANGED Pool!poolVars
    BY <2>6, ServeFreeStutters
  <2> QED
    BY <2>1, <2>2, <2>3, <2>4, <2>5, <2>6 DEF Next, Serve
<1>2. Spec => []PoolInv
  BY TypeCorrect, CallsPendingCorrect, NoDoubleOwnershipCorrect, NoLeakCorrect,
     OneCallCorrect, PTL DEF PoolInv
<1> QED
  BY <1>1, <1>2, PoolInit, PTL DEF Spec, ImplementsPool, Pool!PoolSpec
=============================================================================
