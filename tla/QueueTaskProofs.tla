-------------------------- MODULE QueueTaskProofs ---------------------------
(***************************************************************************)
(* What the queue task promises whatever the requests, the calls and the   *)
(* kind of model.  NothingLost rests on NextBatchKeeps.  LongestRun        *)
(* compares the loop with the reference: LoopInv says after each entry     *)
(* that what the loop has counted is what the batch needs, and, once it    *)
(* has stopped, why no longer run fits; as a run that does not fit does    *)
(* not fit with more entries either (FitsShrinks), that is the longest.    *)
(***************************************************************************)
EXTENDS QueueTask, RequestQueueProofs

\* The queue is a list of requests, and the last call lost none.
QueueInv == queue \in Seq(Requests) /\ NothingLost

\* What next_batch leaves is a queue again.
LEMMA NextBatchType ==
    ASSUME NEW R, NEW q \in Seq(R), NEW C, NEW nb, Ordered(nb, q, C, R)
    PROVE  nb.queue \in Seq(R)
  BY DEF Ordered

\* NothingLost: next_batch neither loses, nor duplicates, nor reorders an entry
\* whose client is there, for every queue, budget and kind of model.
THEOREM NothingLostCorrect == Spec => []NothingLost
<1>1. Init => QueueInv
  BY DEF Init, QueueInv, NothingLost, Called
<1>2. QueueInv /\ [Next]_vars => QueueInv'
  <2> SUFFICES ASSUME QueueInv, [Next]_vars PROVE QueueInv'
    OBVIOUS
  <2>1. ASSUME NEW r \in Requests, AppendEntry(r) PROVE QueueInv'
    BY <2>1, AppendProperties DEF AppendEntry, QueueInv, NothingLost, Called
  <2>2. ASSUME NEW r \in Requests, Disconnect(r) PROVE QueueInv'
    BY <2>2 DEF Disconnect, QueueInv, NothingLost, Called, NoCall
  <2>3. ASSUME NEW c \in Calls, ServeNextBatch(c) PROVE QueueInv'
    <3> DEFINE nb == NextBatch(queue, closed, c.min, c.max, c.prefill, c.tokens, c.room)
    <3>1. queue \in Seq(Requests)
      BY DEF QueueInv
    <3>2. /\ Returned(nb, Requests \ closed) = Only(queue, Requests \ closed)
          /\ nb.queue \in Seq(Requests)
      BY <3>1, NextBatchKeeps, NextBatchOrdered, NextBatchType
    <3>3. /\ last' = [call |-> c, before |-> queue, closed |-> closed, answer |-> nb]
          /\ queue' = last'.answer.queue
      BY <2>3, Zenon DEF ServeNextBatch
    <3> HIDE DEF nb
    <3>4. /\ last'.answer = nb /\ last'.before = queue /\ last'.closed = closed
          /\ queue' = nb.queue
      BY <3>3
    <3>5. NothingLost'
      BY <3>2, <3>4, Zenon DEF NothingLost, Answer, Open, Returned
    <3> QED BY <3>2, <3>4, <3>5 DEF QueueInv
  <2>4. CASE UNCHANGED vars
    BY <2>4 DEF vars, QueueInv, NothingLost, Called, Answer, Open
  <2> QED BY <2>1, <2>2, <2>3, <2>4 DEF Next
<1>3. QueueInv => NothingLost
  BY DEF QueueInv
<1> QED BY <1>1, <1>2, <1>3, PTL DEF Spec

-----------------------------------------------------------------------------
(* The longest run                                                         *)

\* What is known of the last call.
Serving ==
    /\ last.before \in Seq(Requests) /\ last.call \in Calls
    /\ last.answer = NextBatch(last.before, last.closed, last.call.min, last.call.max,
                               last.call.prefill, last.call.tokens, last.call.room)

\* Sizes and budgets are numbers.
LEMMA Numbers ==
    ASSUME Serving
    PROVE  /\ InputLength \in [Requests -> Nat] /\ MaxNewTokens \in [Requests -> Nat]
           /\ NeededBlocks \in [Requests -> Nat]
           /\ Budget \in Nat /\ last.call.room \in Nat /\ last.call.tokens \in Nat
           /\ Speculate \in Nat /\ last.call.min \in Nat
           /\ last.call.max \in Nat \cup {NoMax}
<1>1. /\ InputLength \in [Requests -> Nat \ {0}] /\ MaxNewTokens \in [Requests -> Nat \ {0}]
      /\ BlockSize \in Nat \ {0} /\ Speculate \in Nat
  BY QueueAssumption
<1>2. /\ last.call.room \in Nat /\ last.call.tokens \in Nat /\ last.call.min \in Nat
      /\ last.call.prefill \in Nat /\ last.call.max \in Nat \cup {NoMax}
  BY QueueAssumption DEF Serving
<1>3. ASSUME NEW a \in Nat PROVE CeilDivision(a, BlockSize) \in Nat
  BY <1>1 DEF CeilDivision
<1>4. Budget \in Nat
  BY <1>1, <1>2, <1>3 DEF Budget
<1>5. ASSUME NEW r \in Requests PROVE BlocksOf(r) \in Nat
  <2>1. InputLength[r] + MaxNewTokens[r] + Speculate - 1 \in Nat
    BY <1>1
  <2> QED BY <2>1, <1>3 DEF BlocksOf
<1> QED BY <1>1, <1>2, <1>4, <1>5 DEF NeededBlocks

\* The longest prompt of a list, as a bound that is reached.
IsLongest(m, s) ==
    /\ m \in Nat /\ \A i \in 1..Len(s) : InputLength[s[i]] <= m
    /\ m = 0 \/ \E i \in 1..Len(s) : InputLength[s[i]] = m

\* The lengths of the prompts of a list with a bound that is reached.
LEMMA LongestUnique ==
    ASSUME NEW s \in Seq(Requests), NEW m, IsLongest(m, s)
    PROVE  Longest(s) = m
<1> DEFINE S == {0} \cup {InputLength[r] : r \in Range(s)}
<1>1. InputLength \in [Requests -> Nat]
  BY QueueAssumption
<1>2. \A x \in S : x = 0 \/ \E i \in 1..Len(s) : x = InputLength[s[i]]
  BY DEF Range
<1>3. \A i \in 1..Len(s) : InputLength[s[i]] \in S
  BY DEF Range
<1>4. \A i \in 1..Len(s) : s[i] \in Requests
  OBVIOUS
<1>0. 0 \in S
  OBVIOUS
<1> HIDE DEF S
<1>5. S \subseteq Nat /\ m \in S /\ \A x \in S : m >= x
  <2>1. ASSUME NEW x \in S PROVE x \in Nat
    <3>1. CASE x = 0
      BY <3>1
    <3>2. CASE x # 0
      <4>1. PICK i \in 1..Len(s) : x = InputLength[s[i]]
        BY <1>2, <3>2
      <4> QED BY <1>1, <1>4, <4>1
    <3> QED BY <3>1, <3>2
  <2>2. m \in S
    BY <1>0, <1>3 DEF IsLongest
  <2>3. ASSUME NEW x \in S PROVE m >= x
    BY <1>2, <2>3 DEF IsLongest
  <2> QED BY <2>1, <2>2, <2>3
<1>6. \A x \in S : (\A y \in S : x >= y) => x = m
  BY <1>5
<1>7. (CHOOSE x \in S : \A y \in S : x >= y) = m
  BY <1>5, <1>6, Zenon
<1> QED BY <1>7 DEF Longest, Max, S

\* The longest prompt of a list with one more entry.
LEMMA LongerBy ==
    ASSUME NEW s \in Seq(Requests), NEW r \in Requests, NEW m, IsLongest(m, s)
    PROVE  IsLongest(Maximum(m, InputLength[r]), Append(s, r))
<1> DEFINE n == Len(s)
           t == Append(s, r)
           k == Maximum(m, InputLength[r])
<1>1. /\ n \in Nat /\ Len(t) = n + 1 /\ t[n + 1] = r /\ \A i \in 1..n : t[i] = s[i]
  BY AppendProperties
<1>2. /\ m \in Nat /\ \A i \in 1..n : InputLength[s[i]] <= m
      /\ m = 0 \/ \E i \in 1..n : InputLength[s[i]] = m
  BY DEF IsLongest
<1>3. InputLength[r] \in Nat /\ \A i \in 1..n : InputLength[s[i]] \in Nat
  BY QueueAssumption
<1> HIDE DEF n, t
<1>4. k \in Nat /\ k >= m /\ k >= InputLength[r] /\ (k = m \/ k = InputLength[r])
  BY <1>2, <1>3 DEF Maximum
<1> HIDE DEF k
<1>5. ASSUME NEW i \in 1..(n + 1) PROVE InputLength[t[i]] <= k
  <2>1. CASE i = n + 1
    BY <1>1, <1>4, <2>1
  <2>2. CASE i # n + 1
    <3>1. i \in 1..n
      BY <1>1, <2>2
    <3> QED BY <1>1, <1>2, <1>3, <1>4, <3>1
  <2> QED BY <2>1, <2>2
<1>6. k = 0 \/ \E i \in 1..(n + 1) : InputLength[t[i]] = k
  <2>1. CASE k = InputLength[r]
    <3>1. n + 1 \in 1..(n + 1)
      BY <1>1
    <3> QED BY <1>1, <2>1, <3>1
  <2>2. CASE k = m
    <3>1. \A i \in 1..n : i \in 1..(n + 1)
      BY <1>1
    <3> QED BY <1>1, <1>2, <2>2, <3>1
  <2> QED BY <1>4, <2>1, <2>2
<1>7. IsLongest(k, t)
  BY <1>1, <1>4, <1>5, <1>6 DEF IsLongest
<1> QED BY <1>7 DEF k, t

\* Every list has a longest prompt.
LEMMA LongestExists ==
    ASSUME NEW s \in Seq(Requests)
    PROVE  \E m : IsLongest(m, s)
<1> DEFINE n == Len(s)
           T == {i \in 0..n : \E m : IsLongest(m, SubSeq(s, 1, i))}
<1>1. n \in Nat /\ \A i \in 1..n : s[i] \in Requests
  OBVIOUS
<1>2. 0 \in T
  <2>1. IsLongest(0, SubSeq(s, 1, 0))
    BY DEF IsLongest
  <2> QED BY <1>1, <2>1
<1>3. ASSUME NEW i \in 1..n, i - 1 \in T PROVE i \in T
  <2> DEFINE t == SubSeq(s, 1, i - 1)
  <2>1. PICK m : IsLongest(m, t)
    BY <1>3
  <2>2. t \in Seq(Requests) /\ s[i] \in Requests
    BY <1>1
  <2>3. SubSeq(s, 1, i) = Append(t, s[i])
    BY <1>1
  <2> HIDE DEF t
  <2>4. IsLongest(Maximum(m, InputLength[s[i]]), Append(t, s[i]))
    BY <2>1, <2>2, LongerBy
  <2>5. \E k : IsLongest(k, SubSeq(s, 1, i))
    BY <2>3, <2>4
  <2> QED BY <1>1, <2>5
<1>4. 0..n \subseteq T
  <2> HIDE DEF T, n
  <2> QED BY <1>1, <1>2, <1>3, IntervalInduction
<1>5. SubSeq(s, 1, n) = s /\ n \in 0..n
  BY <1>1
<1> QED BY <1>4, <1>5

\* The longest prompt is a number, and one more entry may have a longer one.
LEMMA LongestFacts ==
    ASSUME NEW s \in Seq(Requests), NEW r \in Requests
    PROVE  /\ Longest(s) \in Nat /\ Longest(<<>>) = 0
           /\ Longest(Append(s, r)) = Maximum(Longest(s), InputLength[r])
<1>1. PICK m : IsLongest(m, s)
  BY LongestExists
<1>2. Longest(s) = m /\ m \in Nat
  BY <1>1, LongestUnique DEF IsLongest
<1>3. IsLongest(Maximum(m, InputLength[r]), Append(s, r)) /\ Append(s, r) \in Seq(Requests)
  BY <1>1, LongerBy, AppendProperties
<1>4. Longest(Append(s, r)) = Maximum(m, InputLength[r])
  BY <1>3, LongestUnique
<1>5. <<>> \in Seq(Requests) /\ IsLongest(0, <<>>)
  BY DEF IsLongest
<1>6. Longest(<<>>) = 0
  BY <1>5, LongestUnique
<1> QED BY <1>2, <1>4, <1>6

\* Sums and products grow with the list.
LEMMA ProductGrows ==
    ASSUME NEW a \in Nat, NEW b \in Nat, NEW c \in Nat, b <= c
    PROVE  a * b <= (a + 1) * c /\ a * b \in Nat /\ (a + 1) * c \in Nat
<1>1. PICK d \in Nat : c = b + d
  <2>1. c - b \in Nat /\ c = b + (c - b)
    OBVIOUS
  <2> QED BY <2>1
<1>2. (a + 1) * (b + d) = a * b + a * d + b + d
  OBVIOUS
<1>3. a * b \in Nat /\ a * d \in Nat
  OBVIOUS
<1> QED BY <1>1, <1>2, <1>3

\* What a list needs, when it has one more entry.
LEMMA NeedsAppend ==
    ASSUME NEW s \in Seq(Requests), NEW r \in Requests, Serving
    PROVE  /\ Total(InputLength, s) \in Nat /\ Total(MaxNewTokens, s) \in Nat
           /\ Total(NeededBlocks, s) \in Nat
           /\ Total(InputLength, Append(s, r)) = Total(InputLength, s) + InputLength[r]
           /\ Total(MaxNewTokens, Append(s, r)) = Total(MaxNewTokens, s) + MaxNewTokens[r]
           /\ Total(NeededBlocks, Append(s, r)) = Total(NeededBlocks, s) + BlocksOf(r)
           /\ InputLength[r] \in Nat /\ MaxNewTokens[r] \in Nat /\ BlocksOf(r) \in Nat
<1>1. /\ InputLength \in [Requests -> Nat] /\ MaxNewTokens \in [Requests -> Nat]
      /\ NeededBlocks \in [Requests -> Nat]
  BY Numbers
<1>2. NeededBlocks[r] = BlocksOf(r)
  BY DEF NeededBlocks
<1>3. /\ Total(InputLength, s) \in Nat /\ Total(MaxNewTokens, s) \in Nat
      /\ Total(NeededBlocks, s) \in Nat
  BY <1>1, TotalNat
<1>4. /\ Total(InputLength, Append(s, r)) = Total(InputLength, s) + InputLength[r]
      /\ Total(MaxNewTokens, Append(s, r)) = Total(MaxNewTokens, s) + MaxNewTokens[r]
      /\ Total(NeededBlocks, Append(s, r)) = Total(NeededBlocks, s) + NeededBlocks[r]
  BY TotalAppend
<1>5. InputLength[r] \in Nat /\ MaxNewTokens[r] \in Nat /\ NeededBlocks[r] \in Nat
  BY <1>1
<1> QED BY <1>2, <1>3, <1>4, <1>5

\* A list that fits still fits without its last entry.
LEMMA FitsShrinks ==
    ASSUME NEW s \in Seq(Requests), NEW r \in Requests, Serving, Fits(Append(s, r))
    PROVE  Fits(s)
<1> DEFINE t == Append(s, r)
<1>1. /\ Total(InputLength, s) \in Nat /\ Total(MaxNewTokens, s) \in Nat
      /\ Total(NeededBlocks, s) \in Nat
      /\ Total(InputLength, t) = Total(InputLength, s) + InputLength[r]
      /\ Total(MaxNewTokens, t) = Total(MaxNewTokens, s) + MaxNewTokens[r]
      /\ Total(NeededBlocks, t) = Total(NeededBlocks, s) + BlocksOf(r)
      /\ InputLength[r] \in Nat /\ MaxNewTokens[r] \in Nat /\ BlocksOf(r) \in Nat
  BY NeedsAppend
<1>2. /\ Budget \in Nat /\ last.call.room \in Nat /\ last.call.tokens \in Nat
      /\ Speculate \in Nat
  BY Numbers
<1>3. CASE RequiresPadding
  <2> DEFINE n == Len(s)
             a == n * Longest(s)
             b == Len(t) * Longest(t)
  <2>1. n \in Nat /\ Len(t) = n + 1
    OBVIOUS
  <2>2. Longest(s) \in Nat /\ Longest(t) = Maximum(Longest(s), InputLength[r])
    BY LongestFacts
  <2>3. Longest(t) \in Nat /\ Longest(s) <= Longest(t)
    BY <1>1, <2>2 DEF Maximum
  <2>4. a <= b /\ a \in Nat /\ b \in Nat
    BY <2>1, <2>2, <2>3, ProductGrows
  <2>5. b + Total(MaxNewTokens, t) + Speculate <= last.call.tokens /\ b <= Budget
    BY <1>3 DEF Fits, FitsMemory, FitsPass
  <2> DEFINE d == Total(MaxNewTokens, s)
             e == Total(MaxNewTokens, t)
             g == last.call.tokens
  <2> HIDE DEF a, b, t
  <2>7. d \in Nat /\ e \in Nat /\ d <= e /\ g \in Nat /\ b + e + Speculate <= g
    BY <1>1, <1>2, <2>5
  <2> HIDE DEF d, e, g
  <2>6. a + d + Speculate <= g /\ a <= Budget
    BY <1>2, <2>4, <2>5, <2>7
  <2> QED BY <1>3, <2>6 DEF a, d, g, Fits, FitsMemory, FitsPass
<1>4. CASE ~RequiresPadding
  <2>1. Total(NeededBlocks, t) <= last.call.room /\ Total(InputLength, t) <= Budget
    BY <1>4 DEF Fits, FitsMemory, FitsPass
  <2> HIDE DEF t
  <2>2. Total(NeededBlocks, s) <= last.call.room /\ Total(InputLength, s) <= Budget
    BY <1>1, <1>2, <2>1
  <2> QED BY <1>4, <2>2 DEF Fits, FitsMemory, FitsPass
<1> QED BY <1>3, <1>4

\* Behind an entry that does not fit none fits.
LEMMA NoneBehind ==
    ASSUME NEW s \in Seq(Requests), NEW k \in Nat, Serving, ~Fits(SubSeq(s, 1, k))
    PROVE  \A n \in k..Len(s) : ~Fits(SubSeq(s, 1, n))
<1> DEFINE m == Len(s)
           T == {i \in 0..m : i >= k => ~Fits(SubSeq(s, 1, i))}
<1>1. m \in Nat /\ \A i \in 1..m : s[i] \in Requests
  OBVIOUS
<1>2. 0 \in T
  BY <1>1
<1>3. ASSUME NEW i \in 1..m, i - 1 \in T PROVE i \in T
  <2>1. CASE i <= k
    BY <1>1, <2>1
  <2>2. CASE i > k
    <3> DEFINE t == SubSeq(s, 1, i - 1)
    <3>1. ~Fits(t)
      BY <1>3, <2>2
    <3>2. t \in Seq(Requests) /\ s[i] \in Requests /\ SubSeq(s, 1, i) = Append(t, s[i])
      BY <1>1
    <3> HIDE DEF t
    <3>3. ~Fits(SubSeq(s, 1, i))
      BY <3>1, <3>2, FitsShrinks
    <3> QED BY <1>1, <3>3
  <2> QED BY <2>1, <2>2
<1>4. 0..m \subseteq T
  <2> HIDE DEF T, m
  <2> QED BY <1>1, <1>2, <1>3, IntervalInduction
<1> QED BY <1>4

\* The reference: a number of entries is the longest run when they fit and the
\* queue ends with them, the maximal size is reached or one more does not fit.
LEMMA WholeIs ==
    ASSUME Serving, NEW k \in 0..Len(Open(last.before)),
           k = 0 \/ Fits(First(k)),
           last.call.max = NoMax \/ k <= last.call.max,
           \/ k = Len(Open(last.before)) \/ k = last.call.max
           \/ ~Fits(First(k + 1))
    PROVE  Whole = k
<1> DEFINE s == Open(last.before)
           m == Len(s)
           S == {n \in 0..m : /\ n = 0 \/ Fits(First(n))
                              /\ last.call.max = NoMax \/ n <= last.call.max}
<1>1. s \in Seq(Requests)
  BY OnlyType DEF Serving, Open, Only
<1>2. m \in Nat
  BY <1>1
<1>3. last.call.max \in Nat \cup {NoMax}
  BY Numbers
<1>4. k \in S
  OBVIOUS
<1>5. ASSUME NEW n \in S PROVE n <= k
  <2> SUFFICES ASSUME n > k PROVE FALSE
    BY <1>2
  <2>1. n \in (k + 1)..m /\ k + 1 \in Nat /\ Fits(First(n)) /\ k # m
    BY <1>2
  <2>2. k # last.call.max
    BY <1>2, <1>3 DEF NoMax
  <2>3. ~Fits(First(k + 1))
    BY <2>1, <2>2
  <2> HIDE DEF s
  <2>4. ~Fits(First(n))
    BY <1>1, <2>1, <2>3, NoneBehind DEF First, s
  <2> QED BY <2>1, <2>4
<1>6. S \subseteq Nat
  BY <1>2
<1>7. Whole = CHOOSE x \in S : \A y \in S : x >= y
  BY DEF Whole, Max
<1> HIDE DEF S
<1>8. (\A y \in S : k >= y) /\ \A x \in S : (\A y \in S : x >= y) => x = k
  BY <1>4, <1>5, <1>6
<1> QED BY <1>4, <1>7, <1>8, Zenon

\* The entries are no more than the model takes at a time.
Holds(s) == s = <<>> \/ Fits(s)
BelowMax(s) == last.call.max = NoMax \/ Len(s) < last.call.max

\* A part of the entry h fits behind those of b.
Partly(b, h) ==
    /\ SupportChunking /\ ~RequiresPadding
    /\ FitsMemory(Append(b, h)) /\ Total(InputLength, b) < Budget

\* What the loop has counted is what the entries of the batch need.
Counts(w) ==
    IF RequiresPadding
    THEN /\ w.longest = Longest(w.batch) /\ w.decode = Total(MaxNewTokens, w.batch)
    ELSE /\ w.prefill = Total(InputLength, w.batch)
         /\ w.room = last.call.room - Total(NeededBlocks, w.batch)

\* The loop goes on, or it has stopped: at the maximal size, before an entry of
\* which nothing fits, or behind one of which a part fits.
GoesOn(w) == Holds(w.batch) /\ BelowMax(w.batch) /\ w.chunk = 0 /\ Counts(w)
StoppedFull(w) == Holds(w.batch) /\ Len(w.batch) = last.call.max /\ w.chunk = 0
StoppedBefore(w) ==
    /\ Holds(w.batch) /\ BelowMax(w.batch) /\ w.chunk = 0
    /\ w.rest # <<>> /\ w.rest[1] \in Requests \ last.closed
    /\ ~Fits(Append(w.batch, w.rest[1])) /\ ~Partly(w.batch, w.rest[1])
StoppedWithin(w) ==
    \E c \in Seq(Requests), h \in Requests :
        /\ w.batch = Append(c, h) /\ Holds(c) /\ BelowMax(c)
        /\ ~Fits(Append(c, h)) /\ Partly(c, h)
        /\ w.chunk = Budget - Total(InputLength, c)

\* The limits of the call, which the loop only reads.
Limits == {"max", "budget", "tokens"}
LimitsKept(w) ==
    /\ Fields \cup Limits \subseteq DOMAIN w
    /\ w.max = last.call.max /\ w.budget = Budget /\ w.tokens = last.call.tokens

\* The invariant of the entry loop.
LoopInv(w) ==
    /\ Placed(w, Requests) /\ LimitsKept(w)
    /\ IF w.stop THEN StoppedFull(w) \/ StoppedBefore(w) \/ StoppedWithin(w) ELSE GoesOn(w)

\* What an iteration does with an entry whose client is there, before it looks at
\* the maximal size.
Judged(w, t, r) ==
    /\ LimitsKept(t)
    /\ \/ /\ Fits(Append(w.batch, r))
          /\ t.batch = Append(w.batch, r) /\ t.rest = <<>> /\ t.stop = FALSE /\ t.chunk = 0
          /\ Counts(t)
       \/ /\ ~Fits(Append(w.batch, r)) /\ ~Partly(w.batch, r)
          /\ t.batch = w.batch /\ t.rest = <<r>> /\ t.stop = TRUE /\ t.chunk = 0
       \/ /\ ~Fits(Append(w.batch, r)) /\ Partly(w.batch, r)
          /\ t.batch = Append(w.batch, r) /\ t.rest = <<>> /\ t.stop = TRUE
          /\ t.chunk = Budget - Total(InputLength, w.batch)

\* The loop stops and puts the entry r back.
BackFrom(w, t, r) ==
    /\ LimitsKept(t) /\ t.batch = w.batch /\ t.chunk = w.chunk
    /\ t.rest = <<r>> /\ t.stop = TRUE

\* The fields an entry that is put back leaves alone.
LEMMA PutBackLimits ==
    ASSUME NEW w, NEW r, LimitsKept(w)
    PROVE  BackFrom(w, PutBack(w, r), r)
  BY Zenon DEF BackFrom, PutBack, LimitsKept, Fields, Limits

\* With an allocator, the two conditions of the code are those of the reference.
LEMMA PagedJudged ==
    ASSUME Serving, ~RequiresPadding, NEW w, NEW r \in Requests, Placed(w, Requests),
           LimitsKept(w), ~w.stop, GoesOn(w)
    PROVE  Judged(w, ScanPaged(w, r), r)
<1> DEFINE b == w.batch
           in == Total(InputLength, b)
           blocks == Total(NeededBlocks, b)
<1>1. /\ b \in Seq(Requests) /\ w.rest = <<>> /\ w.stop = FALSE
      /\ w.prefill = in /\ w.room = last.call.room - blocks
      /\ w.budget = Budget /\ w.chunk = 0
  BY DEF Placed, GoesOn, Counts, LimitsKept
<1>2. Budget \in Nat /\ last.call.room \in Nat
  BY Numbers
<1>3. /\ in \in Nat /\ blocks \in Nat /\ InputLength[r] \in Nat /\ BlocksOf(r) \in Nat
      /\ Total(InputLength, Append(b, r)) = in + InputLength[r]
      /\ Total(NeededBlocks, Append(b, r)) = blocks + BlocksOf(r)
  <2> HIDE DEF b
  <2> QED BY <1>1, NeedsAppend
<1>4. (BlocksOf(r) > w.room) <=> ~FitsMemory(Append(b, r))
  <2> HIDE DEF b, in, blocks
  <2> QED BY <1>1, <1>2, <1>3 DEF FitsMemory
<1>5. (w.prefill + InputLength[r] <= w.budget) <=> FitsPass(Append(b, r))
  <2> HIDE DEF b, in, blocks
  <2> QED BY <1>1, <1>2, <1>3 DEF FitsPass
<1>6. w.prefill < w.budget <=> in < Budget
  BY <1>1
<1>7. CASE BlocksOf(r) > w.room
  <2>1. ScanPaged(w, r) = PutBack(w, r)
    BY <1>7, Zenon DEF ScanPaged
  <2>2. ~Fits(Append(b, r)) /\ ~Partly(b, r)
    BY <1>4, <1>7, Zenon DEF Fits, Partly
  <2> DEFINE t == ScanPaged(w, r)
  <2>5. t = PutBack(w, r)
    BY <2>1
  <2> HIDE DEF t
  <2>3. /\ LimitsKept(t) /\ t.batch = b /\ t.rest = <<r>> /\ t.stop = TRUE /\ t.chunk = 0
    <3>1. BackFrom(w, t, r)
      BY <2>5, PutBackLimits, Zenon
    <3> QED BY <1>1, <3>1, Zenon DEF BackFrom
  <2>4. Judged(w, t, r)
    BY <2>2, <2>3, Zenon DEF Judged
  <2> QED BY <2>4 DEF t
<1>8. CASE ~(BlocksOf(r) > w.room) /\ w.prefill + InputLength[r] <= w.budget
  <2> DEFINE t == ScanPaged(w, r)
  <2>1. t = [w EXCEPT !.batch = Append(@, r), !.room = @ - BlocksOf(r),
                      !.prefill = @ + InputLength[r]]
    BY <1>8, Zenon DEF ScanPaged
  <2>2. /\ LimitsKept(t) /\ t.batch = Append(b, r) /\ t.rest = w.rest /\ t.stop = w.stop
        /\ t.chunk = w.chunk /\ t.room = w.room - BlocksOf(r)
        /\ t.prefill = w.prefill + InputLength[r]
    BY <2>1, Zenon DEF LimitsKept, Fields, Limits
  <2> HIDE DEF t
  <2>3. Fits(Append(b, r))
    BY <1>4, <1>5, <1>8, Zenon DEF Fits
  <2>4. Counts(t)
    <3>1. t.prefill = Total(InputLength, Append(b, r))
      BY <1>1, <1>3, <2>2
    <3>2. t.room = last.call.room - Total(NeededBlocks, Append(b, r))
      <4> HIDE DEF blocks, b
      <4> QED BY <1>1, <1>2, <1>3, <2>2
    <3> QED BY <2>2, <3>1, <3>2, Zenon DEF Counts
  <2>5. Judged(w, t, r)
    BY <1>1, <2>2, <2>3, <2>4, Zenon DEF Judged
  <2> QED BY <2>5 DEF t
<1>9. CASE /\ ~(BlocksOf(r) > w.room) /\ ~(w.prefill + InputLength[r] <= w.budget)
           /\ SupportChunking /\ w.prefill < w.budget
  <2> DEFINE t == ScanPaged(w, r)
  <2>1. t = [w EXCEPT !.batch = Append(@, r), !.stop = TRUE,
                      !.chunk = w.budget - w.prefill]
    BY <1>9, Zenon DEF ScanPaged
  <2>2. /\ LimitsKept(t) /\ t.batch = Append(b, r) /\ t.rest = w.rest /\ t.stop = TRUE
        /\ t.chunk = w.budget - w.prefill
    BY <2>1, Zenon DEF LimitsKept, Fields, Limits
  <2> HIDE DEF t
  <2>3. ~Fits(Append(b, r)) /\ Partly(b, r)
    BY <1>4, <1>5, <1>6, <1>9, Zenon DEF Fits, Partly
  <2>4. t.chunk = Budget - in
    BY <1>1, <2>2
  <2>5. Judged(w, t, r)
    BY <1>1, <2>2, <2>3, <2>4, Zenon DEF Judged
  <2> QED BY <2>5 DEF t
<1>10. CASE /\ ~(BlocksOf(r) > w.room) /\ ~(w.prefill + InputLength[r] <= w.budget)
            /\ ~(SupportChunking /\ w.prefill < w.budget)
  <2>1. ScanPaged(w, r) = PutBack(w, r)
    BY <1>10, Zenon DEF ScanPaged
  <2>2. ~Fits(Append(b, r)) /\ ~Partly(b, r)
    BY <1>5, <1>6, <1>10, Zenon DEF Fits, Partly
  <2> DEFINE t == ScanPaged(w, r)
  <2>5. t = PutBack(w, r)
    BY <2>1
  <2> HIDE DEF t
  <2>3. /\ LimitsKept(t) /\ t.batch = b /\ t.rest = <<r>> /\ t.stop = TRUE /\ t.chunk = 0
    <3>1. BackFrom(w, t, r)
      BY <2>5, PutBackLimits, Zenon
    <3> QED BY <1>1, <3>1, Zenon DEF BackFrom
  <2>4. Judged(w, t, r)
    BY <2>2, <2>3, Zenon DEF Judged
  <2> QED BY <2>4 DEF t
<1> QED BY <1>7, <1>8, <1>9, <1>10, Zenon

\* Without an allocator, so is the one over the padded batch.
LEMMA PaddedJudged ==
    ASSUME Serving, RequiresPadding, NEW w, NEW r \in Requests, Placed(w, Requests),
           LimitsKept(w), ~w.stop, GoesOn(w)
    PROVE  Judged(w, ScanPadded(w, r), r)
<1> DEFINE b == w.batch
           longest == Maximum(w.longest, InputLength[r])
           prefill == (Len(w.batch) + 1) * longest
           decode == w.decode + MaxNewTokens[r]
           noted == [w EXCEPT !.longest = longest, !.prefill = prefill, !.decode = decode]
           full == prefill > w.budget \/ prefill + decode + Speculate > w.tokens
<1>1. /\ b \in Seq(Requests) /\ w.rest = <<>> /\ w.stop = FALSE
      /\ w.longest = Longest(b) /\ w.decode = Total(MaxNewTokens, b)
      /\ w.budget = Budget /\ w.tokens = last.call.tokens /\ w.chunk = 0
  BY DEF Placed, GoesOn, Counts, LimitsKept
<1>2. Budget \in Nat /\ last.call.tokens \in Nat /\ Speculate \in Nat
  BY Numbers
<1>3. /\ InputLength[r] \in Nat /\ MaxNewTokens[r] \in Nat
      /\ Total(MaxNewTokens, b) \in Nat
      /\ Total(MaxNewTokens, Append(b, r)) = Total(MaxNewTokens, b) + MaxNewTokens[r]
      /\ Longest(b) \in Nat /\ Longest(Append(b, r)) = Maximum(Longest(b), InputLength[r])
      /\ Len(Append(b, r)) = Len(b) + 1 /\ Len(b) \in Nat
  <2> HIDE DEF b
  <2> QED BY <1>1, NeedsAppend, LongestFacts, AppendProperties
<1>4. /\ longest = Longest(Append(b, r)) /\ decode = Total(MaxNewTokens, Append(b, r))
      /\ prefill = Len(Append(b, r)) * Longest(Append(b, r))
  BY <1>1, <1>3, Zenon
<1>5. longest \in Nat /\ prefill \in Nat /\ decode \in Nat
  <2>1. longest \in Nat
    BY <1>1, <1>3 DEF Maximum
  <2>2. Len(b) + 1 \in Nat
    BY <1>3
  <2>3. prefill \in Nat
    <3> HIDE DEF longest
    <3> QED BY <2>1, <2>2
  <2> QED BY <1>1, <1>3, <2>1, <2>3
<1>6. /\ LimitsKept(noted) /\ noted.batch = b /\ noted.rest = w.rest /\ noted.stop = w.stop
      /\ noted.chunk = w.chunk /\ noted.longest = longest /\ noted.decode = decode
  BY Zenon DEF LimitsKept, Fields, Limits
<1>7. ScanPadded(w, r) = IF full THEN PutBack(noted, r)
                         ELSE [noted EXCEPT !.batch = Append(@, r)]
  BY Zenon DEF ScanPadded
<1>8. full <=> ~Fits(Append(b, r))
  <2>1. FitsMemory(Append(b, r)) <=> prefill + decode + Speculate <= last.call.tokens
    BY <1>4, Zenon DEF FitsMemory
  <2>2. FitsPass(Append(b, r)) <=> prefill <= Budget
    BY <1>4, Zenon DEF FitsPass
  <2> HIDE DEF prefill, decode
  <2> QED BY <1>1, <1>2, <1>5, <2>1, <2>2 DEF Fits
<1>9. ~Partly(b, r)
  BY DEF Partly
<1> HIDE DEF noted, full, longest, decode, prefill
<1>10. CASE full
  <2>1. ScanPadded(w, r) = PutBack(noted, r)
    BY <1>7, <1>10, Zenon
  <2> DEFINE t == ScanPadded(w, r)
  <2>5. t = PutBack(noted, r)
    BY <2>1
  <2> HIDE DEF t
  <2>3. /\ LimitsKept(t) /\ t.batch = b /\ t.rest = <<r>> /\ t.stop = TRUE /\ t.chunk = 0
    <3>1. BackFrom(noted, t, r)
      BY <1>6, <2>5, PutBackLimits, Zenon
    <3> QED BY <1>1, <1>6, <3>1, Zenon DEF BackFrom
  <2>4. Judged(w, t, r)
    BY <1>8, <1>9, <1>10, <2>3, Zenon DEF Judged
  <2> QED BY <2>4 DEF t
<1>11. CASE ~full
  <2> DEFINE t == ScanPadded(w, r)
  <2>1. t = [noted EXCEPT !.batch = Append(@, r)]
    BY <1>7, <1>11, Zenon
  <2>2. /\ LimitsKept(t) /\ t.batch = Append(b, r) /\ t.rest = noted.rest /\ t.stop = noted.stop
        /\ t.chunk = noted.chunk /\ t.longest = noted.longest /\ t.decode = noted.decode
    BY <1>6, <2>1, Zenon DEF LimitsKept, Fields, Limits
  <2> HIDE DEF t
  <2>3. Counts(t)
    BY <1>4, <1>6, <2>2, Zenon DEF Counts
  <2>4. Judged(w, t, r)
    BY <1>1, <1>6, <1>8, <1>11, <2>2, <2>3, Zenon DEF Judged
  <2> QED BY <2>4 DEF t
<1> QED BY <1>10, <1>11

\* An iteration keeps the invariant.
LEMMA ScanLoopInv ==
    ASSUME Serving, NEW w, NEW r \in Requests, NEW s, s = Scan(w, r, last.closed), LoopInv(w)
    PROVE  LoopInv(s)
<1>1. Placed(w, Requests) /\ LimitsKept(w)
  BY DEF LoopInv
<1>2. Placed(s, Requests)
  BY <1>1, ScanCases
<1>3. w.stop \in BOOLEAN /\ w.batch \in Seq(Requests) /\ w.rest \in Seq(Requests)
  BY <1>1 DEF Placed
<1>4. CASE w.stop
  <2>1. s = [w EXCEPT !.rest = Append(@, r)]
    BY <1>4, Zenon DEF Scan
  <2>2. /\ LimitsKept(s) /\ s.batch = w.batch /\ s.rest = Append(w.rest, r)
        /\ s.stop = w.stop /\ s.chunk = w.chunk
    BY <1>1, <2>1, Zenon DEF LimitsKept, Fields, Limits
  <2>3. StoppedFull(w) => StoppedFull(s)
    BY <2>2, Zenon DEF StoppedFull
  <2>4. StoppedWithin(w) => StoppedWithin(s)
    BY <2>2, Zenon DEF StoppedWithin
  <2>5. StoppedBefore(w) => StoppedBefore(s)
    <3> SUFFICES ASSUME StoppedBefore(w) PROVE StoppedBefore(s)
      OBVIOUS
    <3> DEFINE t == w.rest
    <3>1. t \in Seq(Requests) /\ t # <<>> /\ s.rest = Append(t, r)
      BY <1>3, <2>2 DEF StoppedBefore
    <3> HIDE DEF t
    <3>2. Append(t, r) # <<>> /\ Append(t, r)[1] = t[1]
      BY <3>1, AppendProperties
    <3>3. s.rest # <<>> /\ s.rest[1] = w.rest[1]
      BY <3>1, <3>2 DEF t
    <3> QED BY <2>2, <3>3, Zenon DEF StoppedBefore
  <2> QED BY <1>2, <1>4, <2>2, <2>3, <2>4, <2>5, Zenon DEF LoopInv
<1>5. CASE ~w.stop /\ r \in last.closed
  <2>1. s = w
    BY <1>5, Zenon DEF Scan
  <2> QED BY <2>1, Zenon
<1>6. CASE ~w.stop /\ r \notin last.closed
  <2> DEFINE t == IF RequiresPadding THEN ScanPadded(w, r) ELSE ScanPaged(w, r)
             b == w.batch
  <2>1. s = [t EXCEPT !.stop = @ \/ Len(t.batch) = w.max]
    BY <1>6, Zenon DEF Scan
  <2>2. GoesOn(w)
    BY <1>6, Zenon DEF LoopInv
  <2>3. Judged(w, t, r)
    <3>1. CASE RequiresPadding
      BY <1>1, <1>6, <2>2, <3>1, PaddedJudged, Zenon
    <3>2. CASE ~RequiresPadding
      BY <1>1, <1>6, <2>2, <3>2, PagedJudged, Zenon
    <3> QED BY <3>1, <3>2
  <2> HIDE DEF t
  <2>4. /\ LimitsKept(s) /\ s.batch = t.batch /\ s.rest = t.rest /\ s.chunk = t.chunk
        /\ s.stop = (t.stop \/ Len(t.batch) = last.call.max)
        /\ Counts(t) => Counts(s)
    <3>1. w.max = last.call.max
      BY <1>1 DEF LimitsKept
    <3>2. LimitsKept(t)
      BY <2>3 DEF Judged
    <3>3. /\ LimitsKept(s) /\ s.batch = t.batch /\ s.rest = t.rest /\ s.chunk = t.chunk
          /\ s.stop = (t.stop \/ Len(t.batch) = w.max)
          /\ s.longest = t.longest /\ s.decode = t.decode /\ s.prefill = t.prefill
          /\ s.room = t.room
      BY <2>1, <3>2, Zenon DEF LimitsKept, Fields, Limits
    <3> QED BY <3>1, <3>3, Zenon DEF Counts
  <2>5. Holds(b) /\ BelowMax(b) /\ b \in Seq(Requests)
    BY <1>3, <2>2 DEF GoesOn
  <2> HIDE DEF b
  <2>6. CASE /\ Fits(Append(b, r)) /\ t.batch = Append(b, r) /\ t.rest = <<>>
             /\ t.stop = FALSE /\ t.chunk = 0 /\ Counts(t)
    <3> DEFINE k == Append(b, r)
    <3>1. Len(k) = Len(b) + 1 /\ Len(b) \in Nat
      BY <2>5, AppendProperties
    <3> HIDE DEF k
    <3>2. Holds(k)
      BY <2>6, Zenon DEF Holds, k
    <3>3. CASE Len(k) = last.call.max
      <4>1. s.stop = TRUE /\ StoppedFull(s)
        BY <2>4, <2>6, <3>2, <3>3, Zenon DEF StoppedFull, k
      <4> QED BY <1>2, <2>4, <4>1, Zenon DEF LoopInv
    <3>4. CASE Len(k) # last.call.max
      <4>1. last.call.max \in Nat \cup {NoMax}
        BY Numbers
      <4>2. BelowMax(k)
        BY <2>5, <3>1, <3>4, <4>1 DEF BelowMax
      <4>3. s.stop = FALSE /\ GoesOn(s)
        BY <2>4, <2>6, <3>2, <3>4, <4>2, Zenon DEF GoesOn, k
      <4> QED BY <1>2, <2>4, <4>3, Zenon DEF LoopInv
    <3> QED BY <3>3, <3>4
  <2>7. CASE /\ ~Fits(Append(b, r)) /\ ~Partly(b, r)
             /\ t.batch = b /\ t.rest = <<r>> /\ t.stop = TRUE /\ t.chunk = 0
    <3>1. s.rest = <<r>> /\ s.stop = TRUE
      BY <2>4, <2>7, Zenon
    <3>2. s.rest # <<>> /\ s.rest[1] = r
      BY <3>1
    <3>3. StoppedBefore(s)
      BY <1>6, <2>4, <2>5, <2>7, <3>2, Zenon DEF StoppedBefore
    <3> QED BY <1>2, <2>4, <3>1, <3>3, Zenon DEF LoopInv
  <2>8. CASE /\ ~Fits(Append(b, r)) /\ Partly(b, r)
             /\ t.batch = Append(b, r) /\ t.rest = <<>> /\ t.stop = TRUE
             /\ t.chunk = Budget - Total(InputLength, b)
    <3>1. s.stop = TRUE
      BY <2>4, <2>8, Zenon
    <3>2. StoppedWithin(s)
      BY <2>4, <2>5, <2>8, Zenon DEF StoppedWithin
    <3> QED BY <1>2, <2>4, <3>1, <3>2, Zenon DEF LoopInv
  <2> QED BY <2>3, <2>6, <2>7, <2>8, Zenon DEF Judged, b
<1> QED BY <1>3, <1>4, <1>5, <1>6, Zenon

\* So it holds after the last entry.
LEMMA LoopKeepsInv ==
    ASSUME Serving, NEW start, LoopInv(start)
    PROVE  LoopInv(LoopStates(last.before, last.closed, start)[Len(last.before)])
<1> DEFINE queue0 == last.before
           n == Len(queue0)
           w == LoopStates(queue0, last.closed, start)
           S == {i \in 0..n : LoopInv(w[i])}
<1>0. queue0 \in Seq(Requests)
  BY DEF Serving
<1>1. n \in Nat /\ \A i \in 1..n : queue0[i] \in Requests
  BY <1>0
<1>2. w[0] = start /\ \A i \in 1..n : w[i] = Scan(w[i - 1], queue0[i], last.closed)
  BY <1>1, LoopStatesDef
<1> HIDE DEF w
<1>3. 0 \in S
  <2>1. 0 \in 0..n
    BY <1>1
  <2> QED BY <1>2, <2>1, Zenon
<1>4. ASSUME NEW i \in 1..n, i - 1 \in S PROVE i \in S
  <2> DEFINE v == w[i - 1]
             r == queue0[i]
             s == w[i]
  <2>1. LoopInv(v) /\ r \in Requests /\ s = Scan(v, r, last.closed) /\ i \in 0..n
    BY <1>1, <1>2, <1>4
  <2> HIDE DEF v, r
  <2>2. LoopInv(s)
    <3> HIDE DEF s
    <3> QED BY <2>1, ScanLoopInv
  <2> QED BY <2>1, <2>2
<1>5. 0..n \subseteq S
  <2> HIDE DEF S, n
  <2>1. \A m \in 1..n : m - 1 \in S => m \in S
    BY <1>4
  <2> QED BY <1>1, <1>3, <2>1, IntervalInduction
<1>6. n \in S
  BY <1>1, <1>5
<1> QED BY <1>6 DEF w

\* And before the first one, when the call has a maximal size other than zero.
LEMMA StartLoopInv ==
    ASSUME Serving, last.call.max # 0
    PROVE  LoopInv(LoopStart(last.call.max, last.call.prefill, last.call.tokens, last.call.room))
<1> DEFINE w == LoopStart(last.call.max, last.call.prefill, last.call.tokens, last.call.room)
<1>1. /\ Fields \cup Limits \subseteq DOMAIN w
      /\ w.batch = <<>> /\ w.rest = <<>> /\ w.stop = FALSE /\ w.chunk = 0
      /\ w.longest = 0 /\ w.decode = 0 /\ w.prefill = 0 /\ w.room = last.call.room
      /\ w.max = last.call.max /\ w.tokens = last.call.tokens /\ w.budget = Budget
  BY DEF LoopStart, Fields, Limits, Budget
<1>2. <<>> \in Seq(Requests) /\ Len(<<>>) = 0
  OBVIOUS
<1> HIDE DEF w
<1>3. Placed(w, Requests) /\ LimitsKept(w)
  BY <1>1, <1>2, Zenon DEF Placed, LimitsKept
<1>4. last.call.max \in Nat \cup {NoMax} /\ last.call.room \in Nat
  BY Numbers
<1>5. BelowMax(<<>>) /\ Holds(<<>>)
  BY <1>2, <1>4 DEF BelowMax, Holds
<1>6. Longest(<<>>) = 0
  <2>1. IsLongest(0, <<>>)
    BY DEF IsLongest
  <2> QED BY <1>2, <2>1, LongestUnique
<1>7. \A f : Total(f, <<>>) = 0
  BY TotalEmpty
<1>8. last.call.room = last.call.room - 0
  BY <1>4
<1>9. Counts(w)
  BY <1>1, <1>6, <1>7, <1>8, Zenon DEF Counts
<1>10. GoesOn(w)
  BY <1>1, <1>5, <1>9, Zenon DEF GoesOn
<1>11. LoopInv(w)
  BY <1>1, <1>3, <1>10, Zenon DEF LoopInv
<1> QED BY <1>11 DEF w

\* Where the loop ends, the batch is what the reference says.
LEMMA LoopLongest ==
    ASSUME Serving, NEW w, LoopInv(w), Kept(w, Requests \ last.closed) = Open(last.before)
    PROVE  /\ w.batch = First(Size) /\ Len(w.batch) = Size
           /\ w.chunk = IF Chunked THEN Budget - Total(InputLength, First(Whole)) ELSE 0
<1> DEFINE O == Requests \ last.closed
           q == Open(last.before)
           m == Len(q)
           b == w.batch
           t == w.rest
           u == Only(t, O)
<1>1. b \in Seq(Requests) /\ t \in Seq(Requests) /\ w.stop \in BOOLEAN /\ (~w.stop => t = <<>>)
  BY DEF LoopInv, Placed
<1>2. u \in Seq(Requests)
  BY <1>1, OnlyType DEF Only
<1>3. q = b \o u
  BY DEF Kept
<1> HIDE DEF b, t, u, q
<1>4. /\ m = Len(b) + Len(u) /\ m \in Nat /\ Len(b) \in Nat /\ Len(u) \in Nat
      /\ SubSeq(q, 1, Len(b)) = b
  BY <1>1, <1>2, <1>3
<1>5. First(Len(b)) = b
  BY <1>4 DEF First, q
<1>6. last.call.max \in Nat \cup {NoMax}
  BY Numbers
<1>7. ASSUME Whole = Len(b), ~Chunked, w.chunk = 0
      PROVE  /\ b = First(Size) /\ Len(b) = Size
             /\ w.chunk = IF Chunked THEN Budget - Total(InputLength, First(Whole)) ELSE 0
  BY <1>5, <1>7, Zenon DEF Size
<1>8. ASSUME Holds(b) PROVE Len(b) = 0 \/ Fits(First(Len(b)))
  BY <1>5, <1>8 DEF Holds
<1>9. CASE ~w.stop
  <2>1. Holds(b) /\ BelowMax(b) /\ w.chunk = 0 /\ t = <<>>
    BY <1>1, <1>9 DEF LoopInv, GoesOn, b
  <2>2. u = <<>>
    BY <2>1, OnlyStatesDef DEF u, Only
  <2>3. Len(b) = m /\ Len(b) \in 0..m
    BY <1>4, <2>2
  <2>4. last.call.max = NoMax \/ Len(b) <= last.call.max
    BY <1>4, <1>6, <2>1 DEF BelowMax
  <2>5. Whole = Len(b)
    BY <1>8, <2>1, <2>3, <2>4, WholeIs DEF q
  <2>6. ~Chunked
    BY <1>4, <2>3, <2>5 DEF Chunked, q
  <2> QED BY <1>7, <2>1, <2>5, <2>6 DEF b
<1>10. CASE w.stop /\ StoppedFull(w)
  <2>1. Holds(b) /\ Len(b) = last.call.max /\ w.chunk = 0
    BY <1>10 DEF StoppedFull, b
  <2>2. Len(b) \in 0..m /\ Len(b) <= last.call.max
    BY <1>4, <2>1
  <2>3. Whole = Len(b)
    BY <1>8, <2>1, <2>2, WholeIs DEF q
  <2>4. ~Chunked
    BY <2>1, <2>3 DEF Chunked
  <2> QED BY <1>7, <2>1, <2>3, <2>4 DEF b
<1>11. CASE w.stop /\ StoppedBefore(w)
  <2> DEFINE h == t[1]
  <2>1. /\ Holds(b) /\ BelowMax(b) /\ w.chunk = 0 /\ t # <<>> /\ h \in O
        /\ ~Fits(Append(b, h)) /\ ~Partly(b, h)
    BY <1>11 DEF StoppedBefore, b, t
  <2>2. u # <<>> /\ u[1] = h
    BY <1>1, <2>1, OnlyHead DEF u
  <2> HIDE DEF h, O
  <2>3. Len(b) + 1 \in 1..m /\ Len(b) \in 0..m /\ Len(b) # m /\ 1 \in 1..Len(u)
    <3>1. Len(u) # 0
      BY <1>2, <2>2, EmptySeq
    <3> DEFINE x == Len(b)
               y == Len(u)
    <3>2. m = x + y /\ x \in Nat /\ y \in Nat /\ y # 0
      BY <1>4, <3>1
    <3> HIDE DEF m, x, y
    <3>3. x + 1 \in 1..m /\ x \in 0..m /\ x # m /\ 1 \in 1..y
      BY <3>2
    <3> QED BY <3>3 DEF x, y
  <2>4. First(Len(b) + 1) = Append(b, h)
    <3>1. q \in Seq(Requests)
      BY <1>1, <1>2, <1>3, ConcatProperties
    <3>2. ASSUME NEW k \in Nat, k + 1 \in 1..m
          PROVE  SubSeq(q, 1, k + 1) = Append(SubSeq(q, 1, k), q[k + 1])
      BY <3>1, <3>2
    <3>3. q[Len(b) + 1] = u[1]
      <4>1. (b \o u)[Len(b) + 1] = u[(Len(b) + 1) - Len(b)]
        <5> DEFINE x == Len(b)
                   y == Len(u)
        <5>1. x \in Nat /\ y \in Nat /\ 1 \in 1..y
          BY <1>4, <2>3
        <5>2. \A i \in 1..(x + y) : (b \o u)[i] = IF i <= x THEN b[i] ELSE u[i - x]
          BY <1>1, <1>2, ConcatProperties
        <5> HIDE DEF x, y
        <5>3. x + 1 \in 1..(x + y) /\ ~(x + 1 <= x)
          BY <5>1
        <5> QED BY <5>2, <5>3 DEF x
      <4>2. (Len(b) + 1) - Len(b) = 1
        BY <1>4
      <4> QED BY <1>3, <4>1, <4>2
    <3> QED BY <1>4, <2>2, <2>3, <3>2, <3>3 DEF First, q
  <2>5. last.call.max = NoMax \/ Len(b) <= last.call.max
    BY <1>4, <1>6, <2>1 DEF BelowMax
  <2>6. Whole = Len(b)
    BY <1>8, <2>1, <2>3, <2>4, <2>5, WholeIs DEF q
  <2>7. ~Chunked
    BY <1>5, <2>1, <2>4, <2>6, Zenon DEF Chunked, Partly
  <2> QED BY <1>7, <2>1, <2>6, <2>7 DEF b
<1>12. CASE w.stop /\ StoppedWithin(w)
  <2>1. PICK c \in Seq(Requests), h \in Requests :
            /\ b = Append(c, h) /\ Holds(c) /\ BelowMax(c)
            /\ ~Fits(Append(c, h)) /\ Partly(c, h)
            /\ w.chunk = Budget - Total(InputLength, c)
    BY <1>12 DEF StoppedWithin, b
  <2>2. Len(b) = Len(c) + 1 /\ Len(c) \in Nat
    BY <2>1, AppendProperties
  <2>3. Len(c) \in 0..m /\ Len(c) < m
    BY <1>4, <2>2
  <2>4. First(Len(c) + 1) = b
    BY <1>5, <2>2
  <2>5. First(Len(c)) = c
    <3>1. q \in Seq(Requests)
      BY <1>1, <1>2, <1>3, ConcatProperties
    <3>2. SubSeq(b, 1, Len(c)) = c
      BY <2>1, <2>2
    <3>3. SubSeq(SubSeq(q, 1, Len(b)), 1, Len(c)) = SubSeq(q, 1, Len(c))
      BY <1>4, <2>2, <3>1
    <3> QED BY <1>4, <3>2, <3>3 DEF First, q
  <2>6. last.call.max = NoMax \/ (Len(c) <= last.call.max /\ Len(c) # last.call.max)
    BY <1>6, <2>1, <2>2 DEF BelowMax
  <2>7. Len(c) = 0 \/ Fits(First(Len(c)))
    BY <2>1, <2>5 DEF Holds
  <2>8. ~Fits(First(Len(c) + 1))
    BY <2>1, <2>4
  <2>9. Whole = Len(c)
    BY <2>3, <2>6, <2>7, <2>8, WholeIs DEF q
  <2>10. Whole # last.call.max
    BY <2>2, <2>6, <2>9 DEF NoMax
  <2>11. Chunked
    BY <2>1, <2>3, <2>4, <2>5, <2>9, <2>10 DEF Chunked, Partly, q
  <2>12. Size = Len(b)
    BY <2>2, <2>9, <2>11 DEF Size
  <2> QED BY <1>5, <2>1, <2>5, <2>9, <2>11, <2>12 DEF b
<1> QED BY <1>1, <1>9, <1>10, <1>11, <1>12 DEF LoopInv

\* What next_batch answered is what the reference says.
LEMMA ServingLongest == Serving => LongestRun
<1> SUFFICES ASSUME Serving
             PROVE  /\ Answer.batch = IF Refused THEN <<>> ELSE First(Size)
                    /\ Answer.batch # <<>> =>
                         Answer.chunk = IF Chunked THEN Budget - Total(InputLength, First(Whole)) ELSE 0
  BY DEF LongestRun
<1> DEFINE c == last.call
           q == last.before
           none == [batch |-> NoBatch, queue |-> q, chunk |-> 0]
           start == LoopStart(c.max, c.prefill, c.tokens, c.room)
           w == EntryLoop(q, last.closed, c.max, c.prefill, c.tokens, c.room)
<1>1. Answer = NextBatch(q, last.closed, c.min, c.max, c.prefill, c.tokens, c.room)
  BY DEF Serving, Answer
<1>2. CASE c.prefill = 0 \/ c.tokens = 0 \/ c.max = 0 \/ Len(q) < c.min
  <2>1. Answer = none
    BY <1>1, <1>2, Zenon DEF NextBatch, StateNextBatch
  <2>2. Answer.batch = <<>>
    BY <2>1 DEF NoBatch
  <2>3. Refused
    BY <1>2 DEF Refused
  <2> QED BY <2>2, <2>3
<1>3. CASE ~(c.prefill = 0 \/ c.tokens = 0 \/ c.max = 0 \/ Len(q) < c.min)
  <2>1. Answer = Decide(w, c.min)
    BY <1>1, <1>3, Zenon DEF NextBatch, StateNextBatch
  <2>2. w = LoopStates(q, last.closed, start)[Len(q)]
    BY DEF EntryLoop
  <2>3. LoopInv(start)
    BY <1>3, StartLoopInv
  <2>4. LoopInv(w)
    <3> HIDE DEF start
    <3> QED BY <2>2, <2>3, LoopKeepsInv
  <2>5. Kept(w, Requests \ last.closed) = Open(q)
    <3>1. start.batch = <<>> /\ start.rest = <<>>
      BY DEF LoopStart
    <3>2. Placed(start, Requests) /\ q \in Seq(Requests)
      BY <2>3 DEF LoopInv, Serving
    <3> DEFINE O == Requests \ last.closed
               v == LoopStates(q, last.closed, start)[Len(q)]
    <3>3. Kept(v, O) = Only(q, O)
      <4> HIDE DEF start, O, q
      <4>1. O = Requests \ last.closed
        BY DEF O
      <4> QED BY <3>1, <3>2, <4>1, LoopKept
    <3> HIDE DEF v, w
    <3> QED BY <2>2, <3>3 DEF Open, v
  <2> HIDE DEF w
  <2>6. /\ w.batch = First(Size) /\ Len(w.batch) = Size
        /\ w.chunk = IF Chunked THEN Budget - Total(InputLength, First(Whole)) ELSE 0
    BY <2>4, <2>5, LoopLongest
  <2>7. Refused <=> Len(w.batch) < c.min
    BY <1>3, <2>6 DEF Refused
  <2>8. CASE w.batch = NoBatch \/ Len(w.batch) < c.min
    <3>1. Answer.batch = <<>>
      BY <2>1, <2>8 DEF Decide, NoBatch
    <3>2. CASE Refused
      BY <3>1, <3>2
    <3>3. CASE ~Refused
      BY <2>6, <2>7, <2>8, <3>1, <3>3 DEF NoBatch
    <3> QED BY <3>2, <3>3
  <2>9. CASE ~(w.batch = NoBatch \/ Len(w.batch) < c.min)
    <3>1. Answer.batch = w.batch /\ Answer.chunk = w.chunk
      BY <2>1, <2>9 DEF Decide
    <3> QED BY <2>6, <2>7, <2>9, <3>1
  <2> QED BY <2>8, <2>9
<1> QED BY <1>2, <1>3

\* The queue is a list of requests, and the last call was served from one.
CallInv == queue \in Seq(Requests) /\ (Called => Serving)

\* The invariant holds before the first command.
LEMMA InitCallInv == Init => CallInv
  BY DEF Init, CallInv, Called

\* Every command keeps it.
LEMMA NextCallInv ==
    ASSUME CallInv, [Next]_vars
    PROVE  CallInv'
<1>1. ASSUME NEW r \in Requests, AppendEntry(r) PROVE CallInv'
  BY <1>1, AppendProperties DEF AppendEntry, CallInv, Called
<1>2. ASSUME NEW r \in Requests, Disconnect(r) PROVE CallInv'
  BY <1>2 DEF Disconnect, CallInv, Called, NoCall
<1>3. ASSUME NEW c \in Calls, ServeNextBatch(c) PROVE CallInv'
  <2> DEFINE nb == NextBatch(queue, closed, c.min, c.max, c.prefill, c.tokens, c.room)
  <2>1. queue \in Seq(Requests)
    BY DEF CallInv
  <2>2. nb.queue \in Seq(Requests)
    BY <2>1, NextBatchOrdered, NextBatchType
  <2>3. /\ last' = [call |-> c, before |-> queue, closed |-> closed, answer |-> nb]
        /\ queue' = last'.answer.queue
    BY <1>3, Zenon DEF ServeNextBatch
  <2> HIDE DEF nb
  <2>4. /\ last'.answer = nb /\ last'.before = queue /\ last'.closed = closed
        /\ last'.call = c /\ queue' = nb.queue
    BY <2>3
  <2>5. Serving'
    BY <2>1, <2>4, Zenon DEF Serving, nb
  <2> QED BY <2>2, <2>4, <2>5 DEF CallInv
<1>4. CASE UNCHANGED vars
  BY <1>4 DEF vars, CallInv, Called, Serving
<1> QED BY <1>1, <1>2, <1>3, <1>4 DEF Next

\* It says what next_batch returned.
LEMMA CallInvLongest == CallInv => LongestRun
  BY ServingLongest DEF CallInv, LongestRun

\* LongestRun: for every queue, budgets and kind of model, next_batch returns the
\* longest run of waiting entries that its budgets and the maximal size allow, with
\* chunking the part of one more that fills the pass, and nothing when that is
\* fewer than the minimal size.
THEOREM LongestRunCorrect == Spec => []LongestRun
  BY InitCallInv, NextCallInv, CallInvLongest, PTL DEF Spec
=============================================================================
