------------------------- MODULE RequestQueueProofs -------------------------
(***************************************************************************)
(* State::next_batch for every queue, budget, size and kind of model: what *)
(* it hands over and what it leaves in the queue are the queue in its order *)
(* (NextBatchOrdered), nothing of a client that is there is missing        *)
(* (NextBatchKeeps), and the batch is no larger than max_size              *)
(* (NextBatchSized) and, with paged attention, within the prefill budget   *)
(* (NextBatchPriced).  Each is an induction over the loop on the entries.  *)
(***************************************************************************)
EXTENDS RequestQueue, SequenceTheorems, WellFoundedInduction, TLAPS
-----------------------------------------------------------------------------
(* Induction over the iterations of a loop, without a second-order rule: a *)
(* set of numbers that has 0 and the successor of each of its members below*)
(* n has them all.  A loop is a function of the number of iterations done. *)

\* A set of numbers that is not empty has a least one.
LEMMA LeastNumber ==
    ASSUME NEW T, T \subseteq Nat, T # {}
    PROVE  \E n \in T : \A k \in T : n <= k
<1> DEFINE R == OpToRel(<, Nat)
<1>1. IsWellFoundedOn(R, Nat)
  BY NatLessThanWellFounded
<1>2. PICK n \in T : \A k \in T : ~ (<<k, n>> \in R)
  BY <1>1, WFMin
<1>3. ASSUME NEW k \in T PROVE n <= k
  <2>1. <<k, n>> \notin R
    BY <1>2
  <2>2. k \in Nat /\ n \in Nat
    OBVIOUS
  <2>3. ~ (k < n)
    BY <2>1, <2>2, Zenon DEF OpToRel
  <2> QED BY <2>2, <2>3
<1> QED BY <1>2, <1>3

\* What holds before a loop and is kept by each of its n iterations holds
\* after every one of them.
LEMMA IntervalInduction ==
    ASSUME NEW n \in Nat, NEW S, 0 \in S,
           \A i \in 1..n : i - 1 \in S => i \in S
    PROVE  0..n \subseteq S
<1> DEFINE T == {i \in 0..n : i \notin S}
<1> SUFFICES ASSUME T # {} PROVE FALSE
  OBVIOUS
<1>1. PICK m \in T : \A k \in T : m <= k
  <2>1. T \subseteq Nat
    OBVIOUS
  <2> HIDE DEF T
  <2> QED BY <2>1, LeastNumber
<1>2. m # 0 /\ m \in 1..n
  OBVIOUS
<1>3. m - 1 \in S
  <2> SUFFICES ASSUME m - 1 \notin S PROVE FALSE
    OBVIOUS
  <2>1. m - 1 \in T
    BY <1>2
  <2> QED BY <1>1, <1>2, <2>1
<1> QED BY <1>2, <1>3
-----------------------------------------------------------------------------
\* The fields of the loop's state that the proofs look at.
Fields == {"batch", "rest", "stop", "chunk", "longest", "prefill", "decode", "room"}

\* The loop's state: entries in the batch and put back, and none is put back
\* before the loop stops.
Placed(w, R) ==
    /\ Fields \subseteq DOMAIN w
    /\ w.batch \in Seq(R) /\ w.rest \in Seq(R) /\ w.stop \in BOOLEAN
    /\ ~w.stop => w.rest = <<>>

\* The entries the loop has dealt with, in the order they leave it.
All(w) == w.batch \o w.rest

\* What one iteration does to the places: the entry is put behind the others.
Places(w, s, r) ==
    /\ Fields \subseteq DOMAIN s
    /\ \/ s.batch = Append(w.batch, r) /\ s.rest = w.rest /\ s.stop \in BOOLEAN
       \/ s.batch = w.batch /\ s.rest = <<r>> /\ s.stop = TRUE

\* An entry that is put back ends the loop.
LEMMA PutBackPlaces ==
    ASSUME NEW w, NEW r, Fields \subseteq DOMAIN w
    PROVE  Places(w, PutBack(w, r), r)
  BY Zenon DEF PutBack, Places, Fields

\* An iteration for a model with paged attention takes the entry or puts it back.
LEMMA ScanPagedPlaces ==
    ASSUME NEW w, NEW r, Fields \subseteq DOMAIN w, w.stop \in BOOLEAN
    PROVE  Places(w, ScanPaged(w, r), r)
<1>1. CASE BlocksOf(r) > w.room
  BY <1>1, PutBackPlaces, Zenon DEF ScanPaged
<1>2. CASE ~(BlocksOf(r) > w.room) /\ w.prefill + InputLength[r] <= w.budget
  <2>1. ScanPaged(w, r) = [w EXCEPT !.batch = Append(@, r), !.room = @ - BlocksOf(r),
                   !.prefill = @ + InputLength[r]]
    BY <1>2, Zenon DEF ScanPaged
  <2> QED BY <2>1, Zenon DEF Places, Fields
<1>3. CASE /\ ~(BlocksOf(r) > w.room) /\ ~(w.prefill + InputLength[r] <= w.budget)
           /\ SupportChunking /\ w.prefill < w.budget
  <2>1. ScanPaged(w, r) = [w EXCEPT !.batch = Append(@, r), !.stop = TRUE,
                                    !.chunk = w.budget - w.prefill]
    BY <1>3, Zenon DEF ScanPaged
  <2> QED BY <2>1, Zenon DEF Places, Fields
<1>4. CASE /\ ~(BlocksOf(r) > w.room) /\ ~(w.prefill + InputLength[r] <= w.budget)
           /\ ~(SupportChunking /\ w.prefill < w.budget)
  BY <1>4, PutBackPlaces, Zenon DEF ScanPaged
<1> QED BY <1>1, <1>2, <1>3, <1>4, Zenon

\* An iteration for a model that pads takes the entry or puts it back.
LEMMA ScanPaddedPlaces ==
    ASSUME NEW w, NEW r, Fields \subseteq DOMAIN w, w.stop \in BOOLEAN
    PROVE  Places(w, ScanPadded(w, r), r)
<1> DEFINE longest == Maximum(w.longest, InputLength[r])
           prefill == (Len(w.batch) + 1) * longest
           decode == w.decode + MaxNewTokens[r]
           seen == [w EXCEPT !.longest = longest, !.prefill = prefill, !.decode = decode]
           full == prefill > w.budget \/ prefill + decode + Speculate > w.tokens
<1>1. /\ Fields \subseteq DOMAIN seen
      /\ seen.batch = w.batch /\ seen.rest = w.rest /\ seen.stop = w.stop
  BY Zenon DEF Fields
<1>2. ScanPadded(w, r) = IF full THEN PutBack(seen, r)
                         ELSE [seen EXCEPT !.batch = Append(@, r)]
  BY Zenon DEF ScanPadded
<1> HIDE DEF seen, full
<1>3. CASE full
  <2>1. ScanPadded(w, r) = PutBack(seen, r)
    BY <1>2, <1>3, Zenon
  <2>2. Places(seen, PutBack(seen, r), r)
    BY <1>1, PutBackPlaces, Zenon
  <2> QED BY <1>1, <2>1, <2>2, Zenon DEF Places
<1>4. CASE ~full
  <2>1. ScanPadded(w, r) = [seen EXCEPT !.batch = Append(@, r)]
    BY <1>2, <1>4, Zenon
  <2> QED BY <1>1, <2>1, Zenon DEF Places, Fields
<1> QED BY <1>3, <1>4

\* Appending to the second of two sequences appends to both together.
LEMMA AppendConcat ==
    ASSUME NEW R, NEW b \in Seq(R), NEW t \in Seq(R), NEW r \in R
    PROVE  b \o Append(t, r) = Append(b \o t, r)
<1>1. b \o t \in Seq(R) /\ <<r>> \in Seq(R)
  BY ConcatProperties
<1>2. t \o <<r>> = Append(t, r)
  BY AppendIsConcat
<1>3. (b \o t) \o <<r>> = Append(b \o t, r)
  BY <1>1, AppendIsConcat
<1>4. (b \o t) \o <<r>> = b \o (t \o <<r>>)
  BY <1>1, ConcatAssociative
<1> QED BY <1>2, <1>3, <1>4, Zenon

\* The sequences an entry joins.
LEMMA AppendFacts ==
    ASSUME NEW R, NEW b \in Seq(R), NEW r \in R
    PROVE  /\ <<>> \in Seq(R) /\ <<r>> \in Seq(R) /\ Append(b, r) \in Seq(R)
           /\ b \o <<>> = b /\ b \o <<r>> = Append(b, r)
  BY AppendProperties, ConcatEmptySeq, AppendIsConcat

\* What an iteration of the entry loop does with its entry: behind the ones put
\* back after the loop stopped, dropped when the client is gone, else taken or
\* put back.
LEMMA ScanCases ==
    ASSUME NEW R, NEW w, NEW r \in R, NEW closed, NEW s, s = Scan(w, r, closed),
           Placed(w, R)
    PROVE  /\ Placed(s, R)
           /\ \/ w.stop /\ s.batch = w.batch /\ s.rest = Append(w.rest, r)
              \/ r \in closed /\ w.rest = <<>> /\ s.batch = w.batch /\ s.rest = w.rest
              \/ /\ r \notin closed /\ w.rest = <<>>
                 /\ \/ s.batch = Append(w.batch, r) /\ s.rest = <<>>
                    \/ s.batch = w.batch /\ s.rest = <<r>>
<1>1. /\ Fields \subseteq DOMAIN w /\ w.batch \in Seq(R) /\ w.rest \in Seq(R)
      /\ w.stop \in BOOLEAN /\ (~w.stop => w.rest = <<>>)
  BY DEF Placed
<1>2. CASE w.stop
  <2>1. s = [w EXCEPT !.rest = Append(@, r)]
    BY <1>2, Zenon DEF Scan
  <2>2. /\ Fields \subseteq DOMAIN s /\ s.batch = w.batch
        /\ s.rest = Append(w.rest, r) /\ s.stop = w.stop
    BY <1>1, <2>1, Zenon DEF Fields
  <2>3. Placed(s, R)
    BY <1>1, <1>2, <2>2 DEF Placed
  <2> QED BY <1>2, <2>2, <2>3
<1>3. CASE ~w.stop /\ r \in closed
  <2>1. s = w
    BY <1>3, Zenon DEF Scan
  <2> QED BY <1>1, <1>3, <2>1, Zenon
<1>4. CASE ~w.stop /\ r \notin closed
  <2> DEFINE t == IF RequiresPadding THEN ScanPadded(w, r) ELSE ScanPaged(w, r)
  <2>1. s = [t EXCEPT !.stop = @ \/ Len(t.batch) = w.max]
    BY <1>4, Zenon DEF Scan
  <2>2. Places(w, t, r)
    <3>1. CASE RequiresPadding
      BY <1>1, <3>1, ScanPaddedPlaces, Zenon
    <3>2. CASE ~RequiresPadding
      BY <1>1, <3>2, ScanPagedPlaces, Zenon
    <3> QED BY <3>1, <3>2
  <2> HIDE DEF t
  <2>3. /\ Fields \subseteq DOMAIN s /\ s.batch = t.batch /\ s.rest = t.rest
        /\ s.stop = (t.stop \/ Len(t.batch) = w.max)
    BY <2>1, <2>2, Zenon DEF Places, Fields
  <2>4. w.rest = <<>> /\ w.batch \in Seq(R)
    BY <1>1, <1>4
  <2>5. \/ s.batch = Append(w.batch, r) /\ s.rest = <<>>
        \/ s.batch = w.batch /\ s.rest = <<r>> /\ s.stop = TRUE
    BY <2>2, <2>3, <2>4, Zenon DEF Places
  <2>6. s.stop \in BOOLEAN
    BY <2>3, Zenon
  <2>7. Placed(s, R)
    BY <2>3, <2>4, <2>5, <2>6, AppendFacts, Zenon DEF Placed
  <2> QED BY <1>4, <2>4, <2>5, <2>7, Zenon
<1> QED BY <1>2, <1>3, <1>4, Zenon

\* An iteration adds its entry behind all others or drops it.
LEMMA ScanOrder ==
    ASSUME NEW R, NEW w, NEW r \in R, NEW closed, Placed(w, R)
    PROVE  /\ Placed(Scan(w, r, closed), R)
           /\ \/ r \in closed /\ All(Scan(w, r, closed)) = All(w)
              \/ All(Scan(w, r, closed)) = Append(All(w), r)
<1> DEFINE s == Scan(w, r, closed)
           b == w.batch
           t == w.rest
           d == s.batch
           u == s.rest
<1>1. b \in Seq(R) /\ t \in Seq(R)
  BY DEF Placed
<1>2. /\ Placed(s, R)
      /\ \/ d = b /\ u = Append(t, r)
         \/ r \in closed /\ d = b /\ u = t
         \/ t = <<>> /\ d = Append(b, r) /\ u = <<>>
         \/ t = <<>> /\ d = b /\ u = <<r>>
  <2> HIDE DEF s
  <2> QED BY ScanCases DEF s
<1>3. All(w) = b \o t /\ All(s) = d \o u
  BY DEF All
<1> HIDE DEF b, t, d, u
<1>4. /\ b \o Append(t, r) = Append(b \o t, r)
      /\ b \o t \in Seq(R)
  BY <1>1, AppendConcat, ConcatProperties
<1>5. /\ b \o <<>> = b /\ b \o <<r>> = Append(b, r)
      /\ Append(b, r) \o <<>> = Append(b, r)
  BY <1>1, AppendFacts
<1> HIDE DEF s
<1>6. Placed(s, R) /\ (All(s) = Append(All(w), r) \/ (r \in closed /\ All(s) = All(w)))
  BY <1>2, <1>3, <1>4, <1>5
<1> QED BY <1>6 DEF s

\* The states of the entry loop: the first one, and each from the one before.
LEMMA LoopStatesDef ==
    ASSUME NEW queue, NEW closed, NEW start, Len(queue) \in Nat
    PROVE  /\ LoopStates(queue, closed, start)[0] = start
           /\ \A i \in 1..Len(queue) :
                LoopStates(queue, closed, start)[i] =
                    Scan(LoopStates(queue, closed, start)[i - 1], queue[i], closed)
<1> DEFINE n == Len(queue)
           Step(g, i) == IF i = 0 THEN start ELSE Scan(g[i - 1], queue[i], closed)
           Run(m, g) == g = [i \in 0..m |-> Step(g, i)]
           S == {m \in 0..n : \E g : Run(m, g)}
<1>1. 0 \in S
  <2> DEFINE g == [i \in 0..0 |-> start]
  <2>1. Run(0, g)
    BY SMT
  <2>2. \E f : Run(0, f)
    BY <2>1, Zenon
  <2>3. 0 \in 0..n
    OBVIOUS
  <2> QED BY <2>2, <2>3, Zenon
<1>2. ASSUME NEW m \in 1..n, m - 1 \in S PROVE m \in S
  <2>1. PICK g : Run(m - 1, g)
    BY <1>2
  <2> DEFINE k == [i \in 0..m |-> IF i = m THEN Step(g, m) ELSE g[i]]
  <2>2. ASSUME NEW i \in 0..m PROVE k[i] = Step(k, i)
    <3>1. CASE i = 0
      <4>1. g[0] = start
        BY <2>1
      <4> QED BY <3>1, <4>1
    <3>2. CASE i # 0
      <4>1. k[i - 1] = g[i - 1]
        BY <3>2
      <4>2. CASE i = m
        BY <3>2, <4>1, <4>2
      <4>3. CASE i # m
        <5>1. i \in 0..(m - 1) /\ k[i] = g[i]
          BY <4>3
        <5>2. g[i] = Step(g, i)
          BY <2>1, <5>1
        <5> QED BY <3>2, <4>1, <5>1, <5>2
      <4> QED BY <4>2, <4>3
    <3> QED BY <3>1, <3>2
  <2>3. Run(m, k)
    BY <2>2
  <2>4. \E f : Run(m, f)
    BY <2>3, Zenon
  <2>5. m \in 0..n
    OBVIOUS
  <2> QED BY <2>4, <2>5, Zenon
<1>3. \E g : Run(n, g)
  <2>1. 0..n \subseteq S
    <3> HIDE DEF S
    <3>1. \A m \in 1..n : m - 1 \in S => m \in S
      BY <1>2
    <3> QED BY <1>1, <3>1, IntervalInduction
  <2>2. n \in S
    BY <2>1
  <2> QED BY <2>2
<1> DEFINE w == LoopStates(queue, closed, start)
<1>4. w = CHOOSE g : Run(n, g)
  BY DEF LoopStates
<1>5. Run(n, w)
  BY <1>3, <1>4, Zenon
<1> HIDE DEF w
<1> QED BY <1>5 DEF w

\* c is made of the first n entries of q, in their order, and leaves out none
\* whose client is there.
Sublist(c, q, closed, n) ==
    /\ \A p \in 1..Len(c) : \E i \in 1..n : q[i] = c[p]
    /\ \A p1, p2 \in 1..Len(c) : p1 < p2 =>
         \E i, j \in 1..n : i < j /\ q[i] = c[p1] /\ q[j] = c[p2]
    /\ \A i \in 1..n : q[i] \notin closed => \E p \in 1..Len(c) : c[p] = q[i]

\* Dropping an entry whose client is gone leaves a sublist.
LEMMA SublistSkip ==
    ASSUME NEW c, NEW q, NEW closed, NEW n \in Nat \ {0},
           Sublist(c, q, closed, n - 1), q[n] \in closed
    PROVE  Sublist(c, q, closed, n)
<1>1. 1..(n - 1) \subseteq 1..n /\ \A i \in 1..n : i # n => i \in 1..(n - 1)
  OBVIOUS
<1>2. \A p \in 1..Len(c) : \E i \in 1..n : q[i] = c[p]
  BY <1>1, Zenon DEF Sublist
<1>3. \A p1, p2 \in 1..Len(c) : p1 < p2 =>
        \E i, j \in 1..n : i < j /\ q[i] = c[p1] /\ q[j] = c[p2]
  <2> TAKE p1, p2 \in 1..Len(c)
  <2> HAVE p1 < p2
  <2>1. PICK i, j \in 1..(n - 1) : i < j /\ q[i] = c[p1] /\ q[j] = c[p2]
    BY DEF Sublist
  <2> QED BY <1>1, <2>1, Zenon
<1>4. \A i \in 1..n : q[i] \notin closed => \E p \in 1..Len(c) : c[p] = q[i]
  <2> TAKE i \in 1..n
  <2> HAVE q[i] \notin closed
  <2>1. i \in 1..(n - 1)
    BY <1>1
  <2> QED BY <2>1, Zenon DEF Sublist
<1> QED BY <1>2, <1>3, <1>4, Zenon DEF Sublist

\* Taking the next entry leaves a sublist.
LEMMA SublistAppend ==
    ASSUME NEW R, NEW c \in Seq(R), NEW q, NEW closed, NEW n \in Nat \ {0},
           Sublist(c, q, closed, n - 1), q[n] \in R
    PROVE  Sublist(Append(c, q[n]), q, closed, n)
<1> DEFINE d == Append(c, q[n])
<1>1. /\ Len(c) \in Nat /\ Len(d) = Len(c) + 1 /\ d[Len(c) + 1] = q[n]
      /\ \A p \in 1..Len(c) : d[p] = c[p]
  BY AppendProperties
<1> HIDE DEF d
<1>2. \A p \in 1..Len(d) : \E i \in 1..n : q[i] = d[p]
  <2> TAKE p \in 1..Len(d)
  <2>1. CASE p = Len(c) + 1
    BY <1>1, <2>1
  <2>2. CASE p # Len(c) + 1
    <3>1. p \in 1..Len(c) /\ d[p] = c[p]
      BY <1>1, <2>2
    <3>2. PICK i \in 1..(n - 1) : q[i] = c[p]
      BY <3>1 DEF Sublist
    <3> QED BY <3>1, <3>2
  <2> QED BY <2>1, <2>2
<1>3. \A p1, p2 \in 1..Len(d) : p1 < p2 =>
        \E i, j \in 1..n : i < j /\ q[i] = d[p1] /\ q[j] = d[p2]
  <2> TAKE p1, p2 \in 1..Len(d)
  <2> HAVE p1 < p2
  <2>1. p1 \in 1..Len(c) /\ d[p1] = c[p1]
    BY <1>1
  <2>2. CASE p2 = Len(c) + 1
    <3>1. PICK i \in 1..(n - 1) : q[i] = c[p1]
      BY <2>1 DEF Sublist
    <3> QED BY <1>1, <2>1, <2>2, <3>1
  <2>3. CASE p2 # Len(c) + 1
    <3>1. p2 \in 1..Len(c) /\ d[p2] = c[p2]
      BY <1>1, <2>3
    <3>2. PICK i, j \in 1..(n - 1) : i < j /\ q[i] = c[p1] /\ q[j] = c[p2]
      BY <2>1, <3>1 DEF Sublist
    <3> QED BY <2>1, <3>1, <3>2
  <2> QED BY <2>2, <2>3
<1>4. \A i \in 1..n : q[i] \notin closed => \E p \in 1..Len(d) : d[p] = q[i]
  <2> TAKE i \in 1..n
  <2> HAVE q[i] \notin closed
  <2>1. CASE i = n
    BY <1>1, <2>1
  <2>2. CASE i # n
    <3>1. PICK p \in 1..Len(c) : c[p] = q[i]
      BY <2>2 DEF Sublist
    <3> QED BY <1>1, <3>1
  <2> QED BY <2>1, <2>2
<1> QED BY <1>2, <1>3, <1>4 DEF Sublist, d

\* After the entry loop, the batch and the entries put back are the queue without
\* some of the entries whose client is gone.
LEMMA LoopOrder ==
    ASSUME NEW R, NEW queue \in Seq(R), NEW closed, NEW start,
           Placed(start, R), All(start) = <<>>
    PROVE  LET w == LoopStates(queue, closed, start)[Len(queue)]
           IN  Placed(w, R) /\ Sublist(All(w), queue, closed, Len(queue))
<1> DEFINE n == Len(queue)
           w == LoopStates(queue, closed, start)
           S == {i \in 0..n : Placed(w[i], R) /\ Sublist(All(w[i]), queue, closed, i)}
<1>1. n \in Nat /\ \A i \in 1..n : queue[i] \in R
  OBVIOUS
<1>2. w[0] = start /\ \A i \in 1..n : w[i] = Scan(w[i - 1], queue[i], closed)
  BY <1>1, LoopStatesDef
<1> HIDE DEF w
<1>3. 0 \in S
  <2>1. Sublist(<<>>, queue, closed, 0)
    BY DEF Sublist
  <2>2. 0 \in 0..n
    BY <1>1
  <2> QED BY <1>2, <2>1, <2>2, Zenon
<1>4. ASSUME NEW i \in 1..n, i - 1 \in S PROVE i \in S
  <2> DEFINE v == w[i - 1]
             r == queue[i]
  <2>1. Placed(v, R) /\ Sublist(All(v), queue, closed, i - 1)
    BY <1>4
  <2>2. w[i] = Scan(v, r, closed) /\ r \in R
    BY <1>1, <1>2
  <2>3. /\ Placed(w[i], R)
        /\ \/ r \in closed /\ All(w[i]) = All(v)
           \/ All(w[i]) = Append(All(v), r)
    <3> HIDE DEF v, r
    <3>1. /\ Placed(Scan(v, r, closed), R)
          /\ \/ r \in closed /\ All(Scan(v, r, closed)) = All(v)
             \/ All(Scan(v, r, closed)) = Append(All(v), r)
      BY <2>1, <2>2, ScanOrder
    <3> QED BY <2>2, <3>1, Zenon
  <2>4. All(v) \in Seq(R)
    <3>1. v.batch \in Seq(R) /\ v.rest \in Seq(R)
      BY <2>1 DEF Placed
    <3> HIDE DEF v
    <3> QED BY <3>1, ConcatProperties, Zenon DEF All
  <2>5. i \in Nat \ {0} /\ i \in 0..n
    BY <1>1
  <2>6. Sublist(All(w[i]), queue, closed, i)
    <3>1. CASE r \in closed /\ All(w[i]) = All(v)
      BY <2>1, <2>5, <3>1, SublistSkip, Zenon
    <3>2. CASE All(w[i]) = Append(All(v), r)
      <4> DEFINE c == All(v)
      <4>1. Sublist(Append(c, queue[i]), queue, closed, i)
        <5> HIDE DEF c
        <5> QED BY <2>1, <2>2, <2>4, <2>5, SublistAppend, Zenon DEF c
      <4> QED BY <3>2, <4>1, Zenon
    <3> QED BY <2>3, <3>1, <3>2
  <2> QED BY <2>3, <2>5, <2>6, Zenon
<1>5. 0..n \subseteq S
  <2> HIDE DEF S, n
  <2>1. \A m \in 1..n : m - 1 \in S => m \in S
    BY <1>4
  <2> QED BY <1>1, <1>3, <2>1, IntervalInduction
<1>6. n \in S
  BY <1>1, <1>5
<1> QED BY <1>6 DEF w

\* What next_batch returns, seen from the queue it was given.
Ordered(nb, queue, closed, R) ==
    /\ nb.batch \in Seq(R) /\ nb.queue \in Seq(R)
    /\ Sublist(nb.batch \o nb.queue, queue, closed, Len(queue))

\* An answer without a batch, given before the loop, leaves the queue as it is.
LEMMA UntouchedOrdered ==
    ASSUME NEW R, NEW queue \in Seq(R), NEW closed
    PROVE  Ordered([batch |-> NoBatch, queue |-> queue, chunk |-> 0], queue, closed, R)
<1>1. <<>> \in Seq(R) /\ <<>> \o queue = queue
  BY ConcatEmptySeq
<1>2. Sublist(queue, queue, closed, Len(queue))
  BY DEF Sublist
<1> QED BY <1>1, <1>2 DEF Ordered, NoBatch

\* A batch that is too small goes back to the front: the order stays.
LEMMA DecideOrdered ==
    ASSUME NEW R, NEW queue, NEW closed, NEW w, NEW min,
           Placed(w, R), Sublist(All(w), queue, closed, Len(queue))
    PROVE  Ordered(Decide(w, min), queue, closed, R)
<1> DEFINE b == w.batch
           t == w.rest
           nb == Decide(w, min)
<1>1. b \in Seq(R) /\ t \in Seq(R)
  BY DEF Placed
<1>2. b \o t \in Seq(R) /\ <<>> \in Seq(R) /\ <<>> \o (b \o t) = b \o t
  <2> HIDE DEF b, t
  <2> QED BY <1>1, ConcatProperties, ConcatEmptySeq
<1>3. CASE w.batch = NoBatch \/ Len(w.batch) < min
  <2>1. nb.batch = <<>> /\ nb.queue = b \o t
    BY <1>3 DEF Decide, NoBatch
  <2> HIDE DEF nb
  <2> QED BY <1>2, <2>1 DEF Ordered, All, nb
<1>4. CASE ~(w.batch = NoBatch \/ Len(w.batch) < min)
  <2>1. nb.batch = b /\ nb.queue = t
    BY <1>4 DEF Decide
  <2> HIDE DEF nb
  <2> QED BY <1>1, <2>1 DEF Ordered, All, nb
<1> QED BY <1>3, <1>4

\* next_batch keeps the order of the queue and loses no entry whose client is
\* there, whatever the budgets: the batch, followed by the entries that stay,
\* is the queue without some of the entries whose client is gone.
THEOREM NextBatchOrdered ==
    ASSUME NEW R, NEW queue \in Seq(R), NEW closed, NEW min, NEW max,
           NEW prefillBudget, NEW tokenBudget, NEW room
    PROVE  Ordered(NextBatch(queue, closed, min, max, prefillBudget, tokenBudget, room),
                   queue, closed, R)
<1> DEFINE start == LoopStart(max, prefillBudget, tokenBudget, room)
           w == EntryLoop(queue, closed, max, prefillBudget, tokenBudget, room)
<1>1. Ordered(Decide(w, min), queue, closed, R)
  <2>1. Placed(start, R) /\ All(start) = <<>>
    <3>1. /\ Fields \subseteq DOMAIN start
          /\ start.batch = <<>> /\ start.rest = <<>> /\ start.stop = FALSE
      BY DEF LoopStart, Fields
    <3>2. <<>> \in Seq(R) /\ <<>> \o <<>> = <<>>
      BY ConcatEmptySeq
    <3> HIDE DEF start
    <3>3. Placed(start, R)
      BY <3>1, <3>2, Zenon DEF Placed
    <3>4. start.batch \o start.rest = <<>> \o <<>>
      BY <3>1, Zenon
    <3> QED BY <3>2, <3>3, <3>4, Zenon DEF All
  <2>2. Placed(w, R) /\ Sublist(All(w), queue, closed, Len(queue))
    <3> HIDE DEF start
    <3> QED BY <2>1, LoopOrder DEF EntryLoop, start
  <2> HIDE DEF w
  <2> QED BY <2>2, DecideOrdered
<1> QED
  <2> HIDE DEF w
  <2>1. CASE prefillBudget = 0 \/ tokenBudget = 0 \/ Len(queue) < min \/ max = 0
    BY <2>1, UntouchedOrdered, Zenon DEF NextBatch, StateNextBatch
  <2>2. CASE ~(prefillBudget = 0 \/ tokenBudget = 0 \/ Len(queue) < min \/ max = 0)
    BY <1>1, <2>2, Zenon DEF NextBatch, StateNextBatch, w
  <2> QED BY <2>1, <2>2

\* A queue q without duplicates taken apart: the set B of entries that leave it,
\* and the queue t that stays; the entries of C may go.
Apart(B, t, q, C) ==
    /\ \A i, j \in 1..Len(t) : t[i] = t[j] => i = j
    /\ \A r \in B : \E k \in 1..Len(q) : q[k] = r
    /\ \A i \in 1..Len(t) : \E k \in 1..Len(q) : q[k] = t[i]
    /\ \A i \in 1..Len(t) : t[i] \notin B
    /\ \A k \in 1..Len(q) : q[k] \notin C =>
         q[k] \in B \/ \E i \in 1..Len(t) : t[i] = q[k]
    /\ \A k, l \in 1..Len(q) : k < l /\ q[l] \in B =>
         \A i \in 1..Len(t) : t[i] # q[k]
    /\ \A k, l \in 1..Len(q) : k < l =>
         ~\E i, j \in 1..Len(t) : i < j /\ t[i] = q[l] /\ t[j] = q[k]

\* What a call of next_batch does to a queue without duplicates.
LEMMA PulledApart ==
    ASSUME NEW R, NEW nb, NEW C, NEW q \in Seq(R), Ordered(nb, q, C, R),
           \A i, j \in 1..Len(q) : q[i] = q[j] => i = j
    PROVE  nb.queue \in Seq(R) /\ Apart(Range(nb.batch), nb.queue, q, C)
<1> DEFINE b == nb.batch
           t == nb.queue
           c == b \o t
           m == Len(b)
           n == Len(q)
<1>1. b \in Seq(R) /\ t \in Seq(R) /\ Sublist(c, q, C, n)
  BY DEF Ordered
<1> HIDE DEF b, t
<1>2. /\ m \in Nat /\ Len(t) \in Nat /\ Len(c) = m + Len(t)
      /\ \A p \in 1..m : c[p] = b[p]
      /\ \A p \in 1..Len(t) : c[m + p] = t[p]
  BY <1>1, ConcatProperties
<1>3. Range(b) = {b[p] : p \in 1..m}
  BY <1>1 DEF Range
<1>4. n \in Nat
  OBVIOUS
<1> HIDE DEF c, m, n
<1>5. /\ \A p \in 1..Len(c) : \E i \in 1..n : q[i] = c[p]
      /\ \A p1, p2 \in 1..Len(c) : p1 < p2 =>
           \E i, j \in 1..n : i < j /\ q[i] = c[p1] /\ q[j] = c[p2]
      /\ \A i \in 1..n : q[i] \notin C => \E p \in 1..Len(c) : c[p] = q[i]
  BY <1>1 DEF Sublist
<1>6. ASSUME NEW p1 \in 1..Len(c), NEW p2 \in 1..Len(c), p1 < p2,
             NEW k \in 1..n, NEW l \in 1..n, q[k] = c[p1], q[l] = c[p2]
      PROVE  k < l
  <2>1. PICK i, j \in 1..n : i < j /\ q[i] = c[p1] /\ q[j] = c[p2]
    BY <1>5, <1>6
  <2>2. i = k /\ j = l
    BY <1>6, <2>1 DEF n
  <2> QED BY <2>1, <2>2
<1>7. \A p \in 1..m : p \in 1..Len(c)
  BY <1>2
<1>8. \A p \in 1..Len(t) : m + p \in 1..Len(c)
  BY <1>2
<1>9. \A i, j \in 1..Len(t) : t[i] = t[j] => i = j
  <2>1. ASSUME NEW i \in 1..Len(t), NEW j \in 1..Len(t), i < j PROVE t[i] # t[j]
    <3>1. m + i \in 1..Len(c) /\ m + j \in 1..Len(c) /\ m + i < m + j
      BY <1>2, <1>8, <2>1
    <3>2. PICK k \in 1..n : q[k] = c[m + i]
      BY <1>5, <3>1
    <3>3. PICK l \in 1..n : q[l] = c[m + j]
      BY <1>5, <3>1
    <3>4. k < l
      BY <1>6, <3>1, <3>2, <3>3
    <3>5. q[k] # q[l]
      BY <1>4, <3>4 DEF n
    <3> QED BY <1>2, <3>2, <3>3, <3>5
  <2> QED BY <1>2, <2>1
<1>10. \A r \in Range(b) : \E k \in 1..n : q[k] = r
  <2> TAKE r \in Range(b)
  <2>1. PICK p \in 1..m : b[p] = r
    BY <1>3
  <2>2. p \in 1..Len(c) /\ c[p] = r
    BY <1>2, <1>7, <2>1
  <2> QED BY <1>5, <2>2
<1>11. \A i \in 1..Len(t) : \E k \in 1..n : q[k] = t[i]
  BY <1>2, <1>5, <1>8
<1>12. ASSUME NEW k \in 1..n, NEW l \in 1..n, NEW i \in 1..Len(t),
              q[k] = t[i], q[l] \in Range(b)
       PROVE  l < k
  <2>1. PICK p \in 1..m : b[p] = q[l]
    BY <1>3, <1>12
  <2>2. p \in 1..Len(c) /\ m + i \in 1..Len(c) /\ p < m + i
    BY <1>2, <1>7, <1>8
  <2>3. q[l] = c[p] /\ q[k] = c[m + i]
    BY <1>2, <1>12, <2>1
  <2> QED BY <1>6, <2>2, <2>3
<1>13. \A i \in 1..Len(t) : t[i] \notin Range(b)
  <2> SUFFICES ASSUME NEW i \in 1..Len(t), t[i] \in Range(b) PROVE FALSE
    OBVIOUS
  <2>1. PICK k \in 1..n : q[k] = t[i]
    BY <1>11
  <2>2. k < k
    BY <1>12, <2>1
  <2> QED BY <2>2
<1>14. \A k \in 1..n : q[k] \notin C =>
           q[k] \in Range(b) \/ \E i \in 1..Len(t) : t[i] = q[k]
  <2> TAKE k \in 1..n
  <2> HAVE q[k] \notin C
  <2>1. PICK p \in 1..Len(c) : c[p] = q[k]
    BY <1>5
  <2>2. CASE p <= m
    BY <1>2, <1>3, <2>1, <2>2
  <2>3. CASE p > m
    <3>1. p - m \in 1..Len(t) /\ m + (p - m) = p
      BY <1>2, <2>3
    <3> QED BY <1>2, <2>1, <3>1
  <2> QED BY <1>2, <2>2, <2>3
<1>15. \A k, l \in 1..n : k < l /\ q[l] \in Range(b) =>
           \A i \in 1..Len(t) : t[i] # q[k]
  <2> SUFFICES ASSUME NEW k \in 1..n, NEW l \in 1..n, k < l, q[l] \in Range(b),
                      NEW i \in 1..Len(t), t[i] = q[k]
               PROVE  FALSE
    OBVIOUS
  <2>1. l < k
    BY <1>12
  <2> QED BY <2>1
<1>16. \A k, l \in 1..n : k < l =>
           ~\E i, j \in 1..Len(t) : i < j /\ t[i] = q[l] /\ t[j] = q[k]
  <2> SUFFICES ASSUME NEW k \in 1..n, NEW l \in 1..n, k < l,
                      NEW i \in 1..Len(t), NEW j \in 1..Len(t),
                      i < j, t[i] = q[l], t[j] = q[k]
               PROVE  FALSE
    OBVIOUS
  <2>1. m + i \in 1..Len(c) /\ m + j \in 1..Len(c) /\ m + i < m + j
    BY <1>2, <1>8
  <2>2. q[l] = c[m + i] /\ q[k] = c[m + j]
    BY <1>2
  <2>3. l < k
    BY <1>6, <2>1, <2>2
  <2> QED BY <2>3
<1> QED
  BY <1>1, <1>9, <1>10, <1>11, <1>13, <1>14, <1>15, <1>16, Zenon DEF Apart, b, t, n

-----------------------------------------------------------------------------
(* Only *)

\* The states of the filter over a list, each from the one before.
LEMMA OnlyStatesDef ==
    ASSUME NEW s, NEW S, Len(s) \in Nat
    PROVE  /\ OnlyStates(s, S)[0] = <<>>
           /\ \A i \in 1..Len(s) :
                OnlyStates(s, S)[i] =
                    OnlyStep(OnlyStates(s, S)[i - 1], s[i], S)
<1> DEFINE n == Len(s)
           Step(g, i) == IF i = 0 THEN <<>> ELSE OnlyStep(g[i - 1], s[i], S)
           Run(m, g) == g = [i \in 0..m |-> Step(g, i)]
           M == {m \in 0..n : \E g : Run(m, g)}
<1>1. 0 \in M
  <2> DEFINE g == [i \in 0..0 |-> <<>>]
  <2>1. Run(0, g)
    BY SMT
  <2>2. \E f : Run(0, f)
    BY <2>1, Zenon
  <2>3. 0 \in 0..n
    OBVIOUS
  <2> QED BY <2>2, <2>3, Zenon
<1>2. ASSUME NEW m \in 1..n, m - 1 \in M PROVE m \in M
  <2>1. PICK g : Run(m - 1, g)
    BY <1>2
  <2> DEFINE k == [i \in 0..m |-> IF i = m THEN Step(g, m) ELSE g[i]]
  <2>2. ASSUME NEW i \in 0..m PROVE k[i] = Step(k, i)
    <3>1. CASE i = 0
      <4>1. g[0] = <<>>
        BY <2>1
      <4> QED BY <3>1, <4>1
    <3>2. CASE i # 0
      <4>1. k[i - 1] = g[i - 1]
        BY <3>2
      <4>2. CASE i = m
        BY <3>2, <4>1, <4>2
      <4>3. CASE i # m
        <5>1. i \in 0..(m - 1) /\ k[i] = g[i]
          BY <4>3
        <5>2. g[i] = Step(g, i)
          BY <2>1, <5>1
        <5> QED BY <3>2, <4>1, <5>1, <5>2
      <4> QED BY <4>2, <4>3
    <3> QED BY <3>1, <3>2
  <2>3. Run(m, k)
    BY <2>2
  <2>4. \E f : Run(m, f)
    BY <2>3, Zenon
  <2>5. m \in 0..n
    OBVIOUS
  <2> QED BY <2>4, <2>5, Zenon
<1>3. \E g : Run(n, g)
  <2>1. 0..n \subseteq M
    <3> HIDE DEF M
    <3>1. \A m \in 1..n : m - 1 \in M => m \in M
      BY <1>2
    <3> QED BY <1>1, <3>1, IntervalInduction
  <2>2. n \in M
    BY <2>1
  <2> QED BY <2>2
<1> DEFINE w == OnlyStates(s, S)
<1>4. w = CHOOSE g : Run(n, g)
  BY DEF OnlyStates
<1>5. Run(n, w)
  BY <1>3, <1>4, Zenon
<1> HIDE DEF w
<1> QED BY <1>5 DEF w

\* A filtered list has the elements of the list.
LEMMA OnlyType ==
    ASSUME NEW R, NEW s \in Seq(R), NEW S
    PROVE  \A i \in 0..Len(s) : OnlyStates(s, S)[i] \in Seq(R)
<1> DEFINE n == Len(s)
           f == OnlyStates(s, S)
           T == {i \in 0..n : f[i] \in Seq(R)}
<1>1. n \in Nat /\ <<>> \in Seq(R) /\ \A i \in 1..n : s[i] \in R
  OBVIOUS
<1>2. f[0] = <<>> /\ \A i \in 1..n : f[i] = OnlyStep(f[i - 1], s[i], S)
  BY <1>1, OnlyStatesDef
<1> HIDE DEF f
<1>3. 0 \in T
  <2>1. 0 \in 0..n
    BY <1>1
  <2> QED BY <1>1, <1>2, <2>1, Zenon
<1>4. ASSUME NEW i \in 1..n, i - 1 \in T PROVE i \in T
  <2>1. f[i - 1] \in Seq(R) /\ s[i] \in R /\ f[i] = OnlyStep(f[i - 1], s[i], S)
    BY <1>1, <1>2, <1>4
  <2>2. f[i] \in Seq(R)
    BY <2>1, AppendProperties DEF OnlyStep
  <2> QED BY <1>1, <2>2
<1>5. 0..n \subseteq T
  <2> HIDE DEF T, n
  <2> QED BY <1>1, <1>3, <1>4, IntervalInduction
<1> QED BY <1>5 DEF f

\* Filtering a list with one more element filters that element last.
LEMMA OnlyAppend ==
    ASSUME NEW R, NEW s \in Seq(R), NEW e \in R, NEW S
    PROVE  /\ Only(s, S) \in Seq(R)
           /\ Only(Append(s, e), S) = OnlyStep(Only(s, S), e, S)
<1> DEFINE n == Len(s)
           t == Append(s, e)
           f == OnlyStates(s, S)
           g == OnlyStates(t, S)
<1>1. /\ t \in Seq(R) /\ n \in Nat /\ Len(t) = n + 1
      /\ t[n + 1] = e /\ \A i \in 1..n : t[i] = s[i]
  BY AppendProperties
<1> HIDE DEF t
<1>2. f[0] = <<>> /\ \A i \in 1..n : f[i] = OnlyStep(f[i - 1], s[i], S)
  BY <1>1, OnlyStatesDef
<1>3. g[0] = <<>> /\ \A i \in 1..(n + 1) : g[i] = OnlyStep(g[i - 1], t[i], S)
  <2>1. g[0] = <<>> /\ \A i \in 1..Len(t) : g[i] = OnlyStep(g[i - 1], t[i], S)
    BY <1>1, OnlyStatesDef
  <2> QED BY <1>1, <2>1
<1> HIDE DEF f, g, n
<1>4. 0..n \subseteq {i \in 0..n : f[i] = g[i]}
  <2> DEFINE T == {i \in 0..n : f[i] = g[i]}
  <2>1. 0 \in T
    BY <1>1, <1>2, <1>3
  <2>2. ASSUME NEW i \in 1..n, i - 1 \in T PROVE i \in T
    <3>1. i \in 1..(n + 1) /\ i \in 0..n /\ f[i - 1] = g[i - 1] /\ t[i] = s[i]
      BY <1>1, <2>2
    <3>2. f[i] = g[i]
      BY <1>2, <1>3, <3>1
    <3> QED BY <3>1, <3>2
  <2>3. 0..n \subseteq T
    <3> HIDE DEF T
    <3> QED BY <1>1, <2>1, <2>2, IntervalInduction
  <2> QED BY <2>3
<1>5. f[n] = g[n] /\ n + 1 \in 1..(n + 1) /\ (n + 1) - 1 = n
  BY <1>1, <1>4
<1>6. g[n + 1] = OnlyStep(f[n], e, S)
  BY <1>1, <1>3, <1>5
<1>7. Only(s, S) = f[n] /\ Only(t, S) = g[n + 1]
  BY <1>1 DEF Only, f, g, n
<1>8. f[n] \in Seq(R)
  BY <1>1, OnlyType DEF f, n
<1> QED BY <1>6, <1>7, <1>8 DEF t

\* The entries of the loop in O: those of the batch, and those that stay.
Kept(w, O) == w.batch \o Only(w.rest, O)

\* An iteration of the entry loop keeps its entry when the client is there.
LEMMA ScanKept ==
    ASSUME NEW R, NEW w, NEW r \in R, NEW closed, Placed(w, R), NEW O, O = R \ closed
    PROVE  Kept(Scan(w, r, closed), O) = OnlyStep(Kept(w, O), r, O)
<1> DEFINE s == Scan(w, r, closed)
           b == w.batch
           t == w.rest
           d == s.batch
           u == s.rest
<1>1. b \in Seq(R) /\ t \in Seq(R)
  BY DEF Placed
<1>2. \/ d = b /\ u = Append(t, r)
      \/ r \in closed /\ t = <<>> /\ d = b /\ u = t
      \/ r \notin closed /\ t = <<>> /\ d = Append(b, r) /\ u = <<>>
      \/ r \notin closed /\ t = <<>> /\ d = b /\ u = <<r>>
  <2> HIDE DEF s
  <2> QED BY ScanCases DEF s
<1> SUFFICES d \o Only(u, O) = OnlyStep(b \o Only(t, O), r, O)
  BY DEF Kept
<1> HIDE DEF b, t, d, u
<1>3. Only(<<>>, O) = <<>> /\ <<>> \in Seq(R)
  BY OnlyStatesDef DEF Only
<1>4. /\ Only(t, O) \in Seq(R)
      /\ Only(Append(t, r), O) = OnlyStep(Only(t, O), r, O)
  BY <1>1, OnlyAppend
<1>5. Only(<<r>>, O) = OnlyStep(<<>>, r, O)
  <2>1. Append(<<>>, r) = <<r>>
    OBVIOUS
  <2>2. Only(Append(<<>>, r), O) = OnlyStep(Only(<<>>, O), r, O)
    <3> DEFINE e == <<>>
    <3>1. e \in Seq(R)
      BY <1>3
    <3> HIDE DEF e
    <3>2. Only(Append(e, r), O) = OnlyStep(Only(e, O), r, O)
      BY <3>1, OnlyAppend
    <3> QED BY <3>2 DEF e
  <2> QED BY <1>3, <2>1, <2>2, Zenon
<1>6. b \o Append(Only(t, O), r) = Append(b \o Only(t, O), r)
  <2> DEFINE c == Only(t, O)
  <2> HIDE DEF c
  <2> QED BY <1>1, <1>4, AppendConcat DEF c
<1>7. /\ b \o <<>> = b /\ b \o <<r>> = Append(b, r)
      /\ Append(b, r) \o <<>> = Append(b, r)
  BY <1>1, AppendFacts
<1>8. CASE d = b /\ u = Append(t, r)
  BY <1>4, <1>6, <1>8 DEF OnlyStep
<1>9. CASE r \in closed /\ t = <<>> /\ d = b /\ u = t
  BY <1>9 DEF OnlyStep
<1>10. CASE r \notin closed /\ t = <<>> /\ d = Append(b, r) /\ u = <<>>
  <2>1. d \o Only(u, O) = Append(b, r) /\ b \o Only(t, O) = b
    BY <1>3, <1>7, <1>10
  <2>2. OnlyStep(b, r, O) = Append(b, r)
    BY <1>10 DEF OnlyStep
  <2> QED BY <2>1, <2>2
<1>11. CASE r \notin closed /\ t = <<>> /\ d = b /\ u = <<r>>
  <2>1. r \in O /\ OnlyStep(<<>>, r, O) = <<r>>
    BY <1>11 DEF OnlyStep
  <2>2. d \o Only(u, O) = Append(b, r) /\ b \o Only(t, O) = b
    BY <1>3, <1>5, <1>7, <1>11, <2>1
  <2>3. OnlyStep(b, r, O) = Append(b, r)
    BY <2>1 DEF OnlyStep
  <2> QED BY <2>2, <2>3
<1> QED BY <1>2, <1>8, <1>9, <1>10, <1>11

\* After the entry loop every entry whose client is there is in the batch or was
\* put back, in the order of the queue.
LEMMA LoopKept ==
    ASSUME NEW R, NEW queue \in Seq(R), NEW closed, NEW start, NEW O, O = R \ closed,
           Placed(start, R), start.batch = <<>>, start.rest = <<>>
    PROVE  LET w == LoopStates(queue, closed, start)[Len(queue)]
           IN  /\ Placed(w, R)
               /\ Kept(w, O) = Only(queue, O)
               /\ Only(All(w), O) = Only(queue, O)
<1> DEFINE n == Len(queue)
           w == LoopStates(queue, closed, start)
           f == OnlyStates(queue, O)
           Good(v, i) == Placed(v, R) /\ Kept(v, O) = f[i] /\ Only(All(v), O) = f[i]
           S == {i \in 0..n : Good(w[i], i)}
<1>1. n \in Nat /\ \A i \in 1..n : queue[i] \in R
  OBVIOUS
<1>2. w[0] = start /\ \A i \in 1..n : w[i] = Scan(w[i - 1], queue[i], closed)
  BY <1>1, LoopStatesDef
<1>3. f[0] = <<>> /\ \A i \in 1..n : f[i] = OnlyStep(f[i - 1], queue[i], O)
  BY <1>1, OnlyStatesDef
<1> HIDE DEF w, f
<1>4. 0 \in S
  <2>1. Only(<<>>, O) = <<>> /\ <<>> \in Seq(R) /\ <<>> \o <<>> = <<>>
    BY OnlyStatesDef DEF Only
  <2>2. All(start) = <<>> \o <<>> /\ Kept(start, O) = <<>> \o Only(<<>>, O)
    BY DEF All, Kept
  <2>3. 0 \in 0..n
    BY <1>1
  <2>4. Good(start, 0)
    BY <1>3, <2>1, <2>2
  <2> QED BY <1>2, <2>3, <2>4, Zenon
<1>5. ASSUME NEW i \in 1..n, i - 1 \in S PROVE i \in S
  <2> DEFINE v == w[i - 1]
             r == queue[i]
             s == Scan(v, r, closed)
  <2>1. Good(v, i - 1)
    BY <1>5
  <2>2. w[i] = s /\ r \in R /\ f[i] = OnlyStep(f[i - 1], r, O)
    BY <1>1, <1>2, <1>3
  <2>3. All(v) \in Seq(R)
    <3>1. v.batch \in Seq(R) /\ v.rest \in Seq(R)
      BY <2>1 DEF Placed
    <3> HIDE DEF v
    <3> QED BY <3>1, ConcatProperties, Zenon DEF All
  <2> HIDE DEF v, r
  <2>4. Placed(s, R) /\ (All(s) = Append(All(v), r) \/ (r \in closed /\ All(s) = All(v)))
    BY <2>1, <2>2, ScanOrder
  <2>5. Kept(s, O) = OnlyStep(Kept(v, O), r, O)
    BY <2>1, <2>2, ScanKept
  <2> HIDE DEF s
  <2>6. Only(All(s), O) = OnlyStep(Only(All(v), O), r, O)
    <3>1. CASE All(s) = Append(All(v), r)
      <4> DEFINE c == All(v)
      <4>1. c \in Seq(R)
        BY <2>3
      <4> HIDE DEF c
      <4>2. Only(Append(c, r), O) = OnlyStep(Only(c, O), r, O)
        BY <2>2, <4>1, OnlyAppend
      <4> QED BY <3>1, <4>2 DEF c
    <3>2. CASE r \in closed /\ All(s) = All(v)
      BY <3>2 DEF OnlyStep
    <3> QED BY <2>4, <3>1, <3>2
  <2>7. Good(s, i)
    BY <2>1, <2>2, <2>4, <2>5, <2>6
  <2>8. i \in 0..n
    BY <1>1
  <2> QED BY <2>2, <2>7, <2>8, Zenon
<1>6. 0..n \subseteq S
  <2> HIDE DEF S, n
  <2>1. \A m \in 1..n : m - 1 \in S => m \in S
    BY <1>5
  <2> QED BY <1>1, <1>4, <2>1, IntervalInduction
<1>7. n \in S
  <2> HIDE DEF S, n
  <2> QED BY <1>1, <1>6
<1>8. f[n] = Only(queue, O)
  BY DEF Only, f
<1> QED BY <1>7, <1>8 DEF w

\* The same for what next_batch returns.
Returned(nb, O) == nb.batch \o Only(nb.queue, O)

\* So it is when the batch goes back to the queue because it is too small.
LEMMA DecideKept ==
    ASSUME NEW R, NEW queue, NEW w, NEW min, NEW O, Placed(w, R),
           Kept(w, O) = Only(queue, O), Only(All(w), O) = Only(queue, O)
    PROVE  Returned(Decide(w, min), O) = Only(queue, O)
<1> DEFINE nb == Decide(w, min)
<1>1. CASE w.batch = NoBatch \/ Len(w.batch) < min
  <2>1. nb.batch = <<>> /\ nb.queue = All(w)
    BY <1>1 DEF Decide, NoBatch, All
  <2>2. All(w) \in Seq(R)
    <3> DEFINE b == w.batch
               t == w.rest
    <3>1. b \in Seq(R) /\ t \in Seq(R)
      BY DEF Placed
    <3> HIDE DEF b, t
    <3>2. b \o t \in Seq(R)
      BY <3>1, ConcatProperties
    <3> QED BY <3>2 DEF All, b, t
  <2> DEFINE c == All(w)
             d == Only(c, O)
  <2>3. d \in Seq(R)
    <3> HIDE DEF c
    <3>1. c \in Seq(R)
      BY <2>2 DEF c
    <3> QED BY <3>1, OnlyType DEF Only
  <2>4. <<>> \o d = d
    <3> HIDE DEF d
    <3> QED BY <2>3, ConcatEmptySeq
  <2> HIDE DEF nb
  <2> QED BY <2>1, <2>4 DEF Returned, nb
<1>2. CASE ~(w.batch = NoBatch \/ Len(w.batch) < min)
  <2>1. nb.batch = w.batch /\ nb.queue = w.rest
    BY <1>2 DEF Decide
  <2> HIDE DEF nb
  <2> QED BY <2>1 DEF Kept, Returned, nb
<1> QED BY <1>1, <1>2

\* What next_batch hands out followed by what stays is, as far as the clients are
\* there, the queue as it was: it loses no entry, invents none, duplicates none
\* and lets none overtake another, whatever the queue and the budgets.
THEOREM NextBatchKeeps ==
    ASSUME NEW R, NEW queue \in Seq(R), NEW closed, NEW min, NEW max,
           NEW prefillBudget, NEW tokenBudget, NEW room
    PROVE  Returned(NextBatch(queue, closed, min, max, prefillBudget, tokenBudget, room),
                    R \ closed) = Only(queue, R \ closed)
<1> DEFINE start == LoopStart(max, prefillBudget, tokenBudget, room)
           w == EntryLoop(queue, closed, max, prefillBudget, tokenBudget, room)
           nb == NextBatch(queue, closed, min, max, prefillBudget, tokenBudget, room)
           O == R \ closed
           Goal(x) == Returned(x, O) = Only(queue, O)
<1>1. Goal(Decide(w, min))
  <2>1. /\ Fields \subseteq DOMAIN start
        /\ start.batch = <<>> /\ start.rest = <<>> /\ start.stop = FALSE
    BY DEF LoopStart, Fields
  <2>2. <<>> \in Seq(R)
    OBVIOUS
  <2>3. Placed(start, R)
    <3> HIDE DEF start
    <3> QED BY <2>1, <2>2, Zenon DEF Placed
  <2>4. Placed(w, R) /\ Kept(w, O) = Only(queue, O) /\ Only(All(w), O) = Only(queue, O)
    <3>1. w = LoopStates(queue, closed, start)[Len(queue)]
      BY DEF EntryLoop
    <3> DEFINE v == LoopStates(queue, closed, start)[Len(queue)]
    <3>2. Placed(v, R) /\ Kept(v, O) = Only(queue, O) /\ Only(All(v), O) = Only(queue, O)
      <4> HIDE DEF start, O
      <4>1. O = R \ closed
        BY DEF O
      <4> QED BY <2>1, <2>3, <4>1, LoopKept
    <3> HIDE DEF w, v
    <3> QED BY <3>1, <3>2 DEF v
  <2> HIDE DEF w, O
  <2>5. ASSUME Placed(w, R), Kept(w, O) = Only(queue, O), Only(All(w), O) = Only(queue, O)
        PROVE  Returned(Decide(w, min), O) = Only(queue, O)
    BY <2>5, DecideKept
  <2> QED BY <2>4, <2>5
<1>2. Goal([batch |-> NoBatch, queue |-> queue, chunk |-> 0])
  <2> DEFINE d == Only(queue, O)
  <2>1. d \in Seq(R)
    BY OnlyType DEF Only
  <2>2. <<>> \o d = d
    <3> HIDE DEF d
    <3> QED BY <2>1, ConcatEmptySeq
  <2> QED BY <2>2 DEF NoBatch, Returned
<1>3. nb = Decide(w, min) \/ nb = [batch |-> NoBatch, queue |-> queue, chunk |-> 0]
  BY DEF NextBatch, StateNextBatch
<1> HIDE DEF nb, w, O
<1> QED BY <1>1, <1>2, <1>3, Zenon DEF nb, O

-----------------------------------------------------------------------------
(* The size of a batch                                                     *)

\* The fields an iteration never writes.
MaxKept(w, s) == DOMAIN s = DOMAIN w /\ s.max = w.max

\* Putting an entry back leaves the maximal size alone.
LEMMA PutBackMax ==
    ASSUME NEW w, NEW r, "max" \in DOMAIN w
    PROVE  MaxKept(w, PutBack(w, r))
  BY Zenon DEF PutBack, MaxKept

\* So does an iteration for a model with paged attention.
LEMMA ScanPagedMax ==
    ASSUME NEW w, NEW r, "max" \in DOMAIN w
    PROVE  MaxKept(w, ScanPaged(w, r))
<1>1. CASE BlocksOf(r) > w.room
  BY <1>1, PutBackMax, Zenon DEF ScanPaged
<1>2. CASE ~(BlocksOf(r) > w.room) /\ w.prefill + InputLength[r] <= w.budget
  <2>1. ScanPaged(w, r) = [w EXCEPT !.batch = Append(@, r), !.room = @ - BlocksOf(r),
                   !.prefill = @ + InputLength[r]]
    BY <1>2, Zenon DEF ScanPaged
  <2> QED BY <2>1, Zenon DEF MaxKept
<1>3. CASE /\ ~(BlocksOf(r) > w.room) /\ ~(w.prefill + InputLength[r] <= w.budget)
           /\ SupportChunking /\ w.prefill < w.budget
  <2>1. ScanPaged(w, r) = [w EXCEPT !.batch = Append(@, r), !.stop = TRUE,
                                    !.chunk = w.budget - w.prefill]
    BY <1>3, Zenon DEF ScanPaged
  <2> QED BY <2>1, Zenon DEF MaxKept
<1>4. CASE /\ ~(BlocksOf(r) > w.room) /\ ~(w.prefill + InputLength[r] <= w.budget)
           /\ ~(SupportChunking /\ w.prefill < w.budget)
  BY <1>4, PutBackMax, Zenon DEF ScanPaged
<1> QED BY <1>1, <1>2, <1>3, <1>4, Zenon

\* So does an iteration for a model that pads.
LEMMA ScanPaddedMax ==
    ASSUME NEW w, NEW r, "max" \in DOMAIN w
    PROVE  MaxKept(w, ScanPadded(w, r))
<1> DEFINE longest == Maximum(w.longest, InputLength[r])
           prefill == (Len(w.batch) + 1) * longest
           decode == w.decode + MaxNewTokens[r]
           seen == [w EXCEPT !.longest = longest, !.prefill = prefill, !.decode = decode]
           full == prefill > w.budget \/ prefill + decode + Speculate > w.tokens
<1>1. DOMAIN seen = DOMAIN w /\ seen.max = w.max
  BY Zenon
<1>2. ScanPadded(w, r) = IF full THEN PutBack(seen, r)
                         ELSE [seen EXCEPT !.batch = Append(@, r)]
  BY Zenon DEF ScanPadded
<1> HIDE DEF seen, full
<1>3. CASE full
  <2>1. MaxKept(seen, PutBack(seen, r))
    BY <1>1, PutBackMax, Zenon
  <2> QED BY <1>1, <1>2, <1>3, <2>1, Zenon DEF MaxKept
<1>4. CASE ~full
  BY <1>1, <1>2, <1>4, Zenon DEF MaxKept
<1> QED BY <1>3, <1>4

\* The batch has at most max entries, and fewer while the loop goes on.
Sized(w, R, max) ==
    /\ Placed(w, R) /\ "max" \in DOMAIN w /\ w.max = max
    /\ Len(w.batch) <= max
    /\ ~w.stop => Len(w.batch) < max

\* The check at the end of an iteration stops the loop at the maximal size.
LEMMA ScanSized ==
    ASSUME NEW R, NEW w, NEW r \in R, NEW closed, NEW max \in Nat, NEW s,
           s = Scan(w, r, closed), Sized(w, R, max)
    PROVE  Sized(s, R, max)
<1>1. Placed(w, R) /\ "max" \in DOMAIN w /\ w.max = max
  BY DEF Sized
<1>2. /\ Placed(s, R)
      /\ \/ w.stop /\ s.batch = w.batch /\ s.rest = Append(w.rest, r)
         \/ r \in closed /\ w.rest = <<>> /\ s.batch = w.batch /\ s.rest = w.rest
         \/ /\ r \notin closed /\ w.rest = <<>>
            /\ \/ s.batch = Append(w.batch, r) /\ s.rest = <<>>
               \/ s.batch = w.batch /\ s.rest = <<r>>
  BY <1>1, ScanCases
<1>3. Fields \subseteq DOMAIN w /\ w.stop \in BOOLEAN /\ w.batch \in Seq(R)
  BY <1>1 DEF Placed
<1>4. CASE w.stop
  <2>1. s = [w EXCEPT !.rest = Append(@, r)]
    BY <1>4, Zenon DEF Scan
  <2>2. "max" \in DOMAIN s /\ s.max = w.max /\ s.batch = w.batch /\ s.stop = w.stop
    BY <1>1, <1>3, <2>1, Zenon DEF Fields
  <2> QED BY <1>1, <1>2, <1>4, <2>2, Zenon DEF Sized
<1>5. CASE ~w.stop /\ r \in closed
  <2>1. s = w
    BY <1>5, Zenon DEF Scan
  <2> QED BY <2>1, Zenon
<1>6. CASE ~w.stop /\ r \notin closed
  <2> DEFINE t == IF RequiresPadding THEN ScanPadded(w, r) ELSE ScanPaged(w, r)
  <2>1. s = [t EXCEPT !.stop = @ \/ Len(t.batch) = w.max]
    BY <1>6, Zenon DEF Scan
  <2>2. Places(w, t, r) /\ MaxKept(w, t)
    <3>1. CASE RequiresPadding
      BY <1>1, <1>3, <3>1, ScanPaddedPlaces, ScanPaddedMax, Zenon
    <3>2. CASE ~RequiresPadding
      BY <1>1, <1>3, <3>2, ScanPagedPlaces, ScanPagedMax, Zenon
    <3> QED BY <3>1, <3>2
  <2> HIDE DEF t
  <2>3. /\ "max" \in DOMAIN s /\ s.max = max /\ s.batch = t.batch
        /\ s.stop = (t.stop \/ Len(t.batch) = max)
    BY <1>1, <2>1, <2>2, Zenon DEF Places, MaxKept, Fields
  <2>4. t.batch = Append(w.batch, r) \/ (t.batch = w.batch /\ t.stop = TRUE)
    BY <2>2, Zenon DEF Places
  <2>5. CASE t.batch = w.batch /\ t.stop = TRUE
    <3>1. s.stop = TRUE
      BY <2>3, <2>5, Zenon
    <3>2. Len(s.batch) <= max
      BY <2>3, <2>5 DEF Sized
    <3> QED BY <1>2, <2>3, <3>1, <3>2, Zenon DEF Sized
  <2>6. CASE t.batch = Append(w.batch, r)
    <3> DEFINE b == w.batch
    <3>1. Len(b) < max /\ b \in Seq(R) /\ s.batch = Append(b, r)
      BY <1>3, <1>6, <2>3, <2>6 DEF Sized
    <3> HIDE DEF b
    <3>2. Len(Append(b, r)) = Len(b) + 1 /\ Len(b) \in Nat
      BY <3>1
    <3>3. Len(s.batch) <= max
      BY <3>1, <3>2
    <3>4. ~s.stop => Len(s.batch) # max
      BY <2>3, Zenon
    <3>5. ~s.stop => Len(s.batch) < max
      BY <3>1, <3>2, <3>3, <3>4
    <3> QED BY <1>2, <2>3, <3>3, <3>5, Zenon DEF Sized
  <2> QED BY <2>4, <2>5, <2>6
<1> QED BY <1>3, <1>4, <1>5, <1>6, Zenon

\* The entry loop never takes more entries than the maximal size.
LEMMA LoopSized ==
    ASSUME NEW R, NEW queue \in Seq(R), NEW closed, NEW start, NEW max \in Nat,
           Sized(start, R, max)
    PROVE  Sized(LoopStates(queue, closed, start)[Len(queue)], R, max)
<1> DEFINE n == Len(queue)
           w == LoopStates(queue, closed, start)
           S == {i \in 0..n : Sized(w[i], R, max)}
<1>1. n \in Nat /\ \A i \in 1..n : queue[i] \in R
  OBVIOUS
<1>2. w[0] = start /\ \A i \in 1..n : w[i] = Scan(w[i - 1], queue[i], closed)
  BY <1>1, LoopStatesDef
<1> HIDE DEF w
<1>3. 0 \in S
  <2>1. 0 \in 0..n
    BY <1>1
  <2> QED BY <1>2, <2>1, Zenon
<1>4. ASSUME NEW i \in 1..n, i - 1 \in S PROVE i \in S
  <2> DEFINE v == w[i - 1]
             r == queue[i]
             s == w[i]
  <2>1. Sized(v, R, max) /\ r \in R /\ s = Scan(v, r, closed) /\ i \in 0..n
    BY <1>1, <1>2, <1>4
  <2> HIDE DEF v, r
  <2>2. Sized(s, R, max)
    <3> HIDE DEF s
    <3> QED BY <2>1, ScanSized
  <2> QED BY <2>1, <2>2
<1>5. 0..n \subseteq S
  <2> HIDE DEF S, n
  <2>1. \A m \in 1..n : m - 1 \in S => m \in S
    BY <1>4
  <2> QED BY <1>1, <1>3, <2>1, IntervalInduction
<1>6. n \in S
  BY <1>1, <1>5
<1> QED BY <1>6 DEF w

\* next_batch returns no more than max_size entries.
THEOREM NextBatchSized ==
    ASSUME NEW R, NEW queue \in Seq(R), NEW closed, NEW min, NEW max \in Nat,
           NEW prefillBudget, NEW tokenBudget, NEW room
    PROVE  Len(NextBatch(queue, closed, min, max, prefillBudget, tokenBudget, room).batch) <= max
<1> DEFINE start == LoopStart(max, prefillBudget, tokenBudget, room)
           w == EntryLoop(queue, closed, max, prefillBudget, tokenBudget, room)
           nb == NextBatch(queue, closed, min, max, prefillBudget, tokenBudget, room)
           none == [batch |-> NoBatch, queue |-> queue, chunk |-> 0]
<1>0. Len(<<>>) = 0 /\ 0 <= max
  OBVIOUS
<1>1. CASE prefillBudget = 0 \/ tokenBudget = 0 \/ Len(queue) < min \/ max = 0
  <2>1. nb = none
    BY <1>1, Zenon DEF NextBatch, StateNextBatch
  <2>2. none.batch = <<>>
    BY DEF NoBatch
  <2> HIDE DEF nb, none
  <2>3. nb.batch = <<>>
    BY <2>1, <2>2
  <2>4. Len(nb.batch) <= max
    BY <1>0, <2>3
  <2> QED BY <2>4 DEF nb
<1>2. CASE ~(prefillBudget = 0 \/ tokenBudget = 0 \/ Len(queue) < min \/ max = 0)
  <2>1. nb = Decide(w, min)
    BY <1>2, Zenon DEF NextBatch, StateNextBatch
  <2>2. Sized(start, R, max)
    <3>1. /\ Fields \subseteq DOMAIN start /\ "max" \in DOMAIN start /\ start.max = max
          /\ start.batch = <<>> /\ start.rest = <<>> /\ start.stop = FALSE
      BY DEF LoopStart, Fields
    <3>2. <<>> \in Seq(R) /\ 0 < max
      BY <1>2
    <3> HIDE DEF start
    <3>3. Placed(start, R)
      BY <3>1, <3>2, Zenon DEF Placed
    <3>4. Len(start.batch) <= max /\ Len(start.batch) < max
      BY <1>0, <3>1, <3>2
    <3> QED BY <3>1, <3>3, <3>4, Zenon DEF Sized
  <2>3. Sized(w, R, max)
    <3> HIDE DEF start
    <3> QED BY <2>2, LoopSized DEF EntryLoop, start
  <2> HIDE DEF w
  <2>4. CASE w.batch = NoBatch \/ Len(w.batch) < min
    <3> HIDE DEF nb
    <3>1. nb.batch = <<>>
      BY <2>1, <2>4 DEF Decide, NoBatch
    <3>2. Len(nb.batch) <= max
      BY <1>0, <3>1
    <3> QED BY <3>2 DEF nb
  <2>5. CASE ~(w.batch = NoBatch \/ Len(w.batch) < min)
    <3> HIDE DEF nb
    <3>1. nb.batch = w.batch
      BY <2>1, <2>5 DEF Decide
    <3>2. Len(nb.batch) <= max
      BY <2>3, <3>1 DEF Sized
    <3> QED BY <3>2 DEF nb
  <2> QED BY <2>4, <2>5
<1> QED BY <1>1, <1>2

-----------------------------------------------------------------------------
(* Sums over a list                                                        *)

\* The sums over a list start at zero and add one member at a time.
LEMMA SumsDef ==
    ASSUME NEW weight, NEW s, Len(s) \in Nat
    PROVE  /\ Sums(weight, s)[0] = 0
           /\ \A i \in 1..Len(s) : Sums(weight, s)[i] = Sums(weight, s)[i - 1] + weight[s[i]]
<1> DEFINE n == Len(s)
           Step(g, i) == IF i = 0 THEN 0 ELSE g[i - 1] + weight[s[i]]
           Run(m, g) == g = [i \in 0..m |-> Step(g, i)]
           M == {m \in 0..n : \E g : Run(m, g)}
<1>1. 0 \in M
  <2> DEFINE g == [i \in 0..0 |-> 0]
  <2>1. Run(0, g)
    BY SMT
  <2>2. \E f : Run(0, f)
    BY <2>1, Zenon
  <2>3. 0 \in 0..n
    OBVIOUS
  <2> QED BY <2>2, <2>3, Zenon
<1>2. ASSUME NEW m \in 1..n, m - 1 \in M PROVE m \in M
  <2>1. PICK g : Run(m - 1, g)
    BY <1>2
  <2> DEFINE k == [i \in 0..m |-> IF i = m THEN Step(g, m) ELSE g[i]]
  <2>2. ASSUME NEW i \in 0..m PROVE k[i] = Step(k, i)
    <3>1. CASE i = 0
      <4>1. g[0] = 0
        BY <2>1
      <4> QED BY <3>1, <4>1
    <3>2. CASE i # 0
      <4>1. k[i - 1] = g[i - 1]
        BY <3>2
      <4>2. CASE i = m
        BY <3>2, <4>1, <4>2
      <4>3. CASE i # m
        <5>1. i \in 0..(m - 1) /\ k[i] = g[i]
          BY <4>3
        <5>2. g[i] = Step(g, i)
          BY <2>1, <5>1
        <5> QED BY <3>2, <4>1, <5>1, <5>2
      <4> QED BY <4>2, <4>3
    <3> QED BY <3>1, <3>2
  <2>3. Run(m, k)
    BY <2>2
  <2>4. \E f : Run(m, f)
    BY <2>3, Zenon
  <2>5. m \in 0..n
    OBVIOUS
  <2> QED BY <2>4, <2>5, Zenon
<1>3. \E g : Run(n, g)
  <2>1. 0..n \subseteq M
    <3> HIDE DEF M
    <3>1. \A m \in 1..n : m - 1 \in M => m \in M
      BY <1>2
    <3> QED BY <1>1, <3>1, IntervalInduction
  <2>2. n \in M
    BY <2>1
  <2> QED BY <2>2
<1> DEFINE w == Sums(weight, s)
<1>4. w = CHOOSE g : Run(n, g)
  BY DEF Sums
<1>5. Run(n, w)
  BY <1>3, <1>4, Zenon
<1> HIDE DEF w
<1> QED BY <1>5 DEF w

\* No members weigh nothing.
LEMMA TotalEmpty ==
    ASSUME NEW weight
    PROVE  Total(weight, <<>>) = 0
  BY SumsDef DEF Total

\* The sums are numbers when the weights are.
LEMMA TotalNat ==
    ASSUME NEW R, NEW weight \in [R -> Nat], NEW s \in Seq(R)
    PROVE  Total(weight, s) \in Nat
<1> DEFINE n == Len(s)
           f == Sums(weight, s)
           T == {i \in 0..n : f[i] \in Nat}
<1>1. n \in Nat /\ \A i \in 1..n : s[i] \in R
  OBVIOUS
<1>2. f[0] = 0 /\ \A i \in 1..n : f[i] = f[i - 1] + weight[s[i]]
  BY <1>1, SumsDef
<1> HIDE DEF f
<1>3. 0 \in T
  BY <1>1, <1>2
<1>4. ASSUME NEW i \in 1..n, i - 1 \in T PROVE i \in T
  <2>1. f[i - 1] \in Nat /\ weight[s[i]] \in Nat /\ f[i] = f[i - 1] + weight[s[i]]
    BY <1>1, <1>2, <1>4
  <2> QED BY <1>1, <2>1
<1>5. 0..n \subseteq T
  <2> HIDE DEF T, n
  <2> QED BY <1>1, <1>3, <1>4, IntervalInduction
<1>6. n \in 0..n
  BY <1>1
<1> QED BY <1>5, <1>6 DEF f, Total

\* One more member adds its weight.
LEMMA TotalAppend ==
    ASSUME NEW R, NEW weight, NEW s \in Seq(R), NEW e \in R
    PROVE  Total(weight, Append(s, e)) = Total(weight, s) + weight[e]
<1> DEFINE n == Len(s)
           t == Append(s, e)
           f == Sums(weight, s)
           g == Sums(weight, t)
<1>1. /\ t \in Seq(R) /\ n \in Nat /\ Len(t) = n + 1
      /\ t[n + 1] = e /\ \A i \in 1..n : t[i] = s[i]
  BY AppendProperties
<1> HIDE DEF t
<1>2. f[0] = 0 /\ \A i \in 1..n : f[i] = f[i - 1] + weight[s[i]]
  BY <1>1, SumsDef
<1>3. g[0] = 0 /\ \A i \in 1..(n + 1) : g[i] = g[i - 1] + weight[t[i]]
  <2>1. g[0] = 0 /\ \A i \in 1..Len(t) : g[i] = g[i - 1] + weight[t[i]]
    BY <1>1, SumsDef
  <2> QED BY <1>1, <2>1
<1> HIDE DEF f, g, n
<1>4. 0..n \subseteq {i \in 0..n : f[i] = g[i]}
  <2> DEFINE T == {i \in 0..n : f[i] = g[i]}
  <2>1. 0 \in T
    BY <1>1, <1>2, <1>3
  <2>2. ASSUME NEW i \in 1..n, i - 1 \in T PROVE i \in T
    <3>1. i \in 1..(n + 1) /\ i \in 0..n /\ f[i - 1] = g[i - 1] /\ t[i] = s[i]
      BY <1>1, <2>2
    <3>2. f[i] = g[i]
      BY <1>2, <1>3, <3>1
    <3> QED BY <3>1, <3>2
  <2>3. 0..n \subseteq T
    <3> HIDE DEF T
    <3> QED BY <1>1, <2>1, <2>2, IntervalInduction
  <2> QED BY <2>3
<1>5. f[n] = g[n] /\ n + 1 \in 1..(n + 1) /\ (n + 1) - 1 = n
  BY <1>1, <1>4
<1>6. g[n + 1] = f[n] + weight[e]
  BY <1>1, <1>3, <1>5
<1>7. Total(weight, s) = f[n] /\ Total(weight, t) = g[n + 1]
  BY <1>1 DEF Total, f, g, n
<1> QED BY <1>6, <1>7 DEF t

\* The first member of a list that is kept is the first of what is kept.
LEMMA OnlyHead ==
    ASSUME NEW R, NEW s \in Seq(R), NEW S, s # <<>>, s[1] \in S
    PROVE  Only(s, S) # <<>> /\ Only(s, S)[1] = s[1]
<1> DEFINE n == Len(s)
           f == OnlyStates(s, S)
           Good(t) == t \in Seq(R) /\ Len(t) >= 1 /\ t[1] = s[1]
           T == {i \in 0..n : i = 0 \/ Good(f[i])}
<1>1. n \in Nat /\ n >= 1 /\ <<>> \in Seq(R) /\ \A i \in 1..n : s[i] \in R
  BY EmptySeq
<1>2. f[0] = <<>> /\ \A i \in 1..n : f[i] = OnlyStep(f[i - 1], s[i], S)
  BY <1>1, OnlyStatesDef
<1> HIDE DEF f
<1>3. 0 \in T
  BY <1>1
<1>4. ASSUME NEW i \in 1..n, i - 1 \in T PROVE i \in T
  <2>1. s[i] \in R /\ f[i] = OnlyStep(f[i - 1], s[i], S)
    BY <1>1, <1>2
  <2>2. CASE i = 1
    <3>1. f[i] = Append(<<>>, s[1])
      BY <1>2, <2>1, <2>2 DEF OnlyStep
    <3>2. Good(f[i])
      BY <1>1, <3>1
    <3> QED BY <1>1, <3>2
  <2>3. CASE i # 1
    <3> DEFINE t == f[i - 1]
    <3>1. t \in Seq(R) /\ Len(t) >= 1 /\ t[1] = s[1]
      BY <1>4, <2>3
    <3>2. f[i] = t \/ f[i] = Append(t, s[i])
      BY <2>1 DEF OnlyStep
    <3> HIDE DEF t
    <3>3. ASSUME NEW e \in R PROVE Append(t, e) \in Seq(R) /\ Len(Append(t, e)) >= 1 /\ Append(t, e)[1] = t[1]
      BY <3>1, AppendProperties
    <3>4. Good(t) /\ Good(Append(t, s[i]))
      BY <2>1, <3>1, <3>3, Zenon
    <3>5. Good(f[i])
      BY <3>2, <3>4, Zenon
    <3> QED BY <1>1, <3>5
  <2> QED BY <2>2, <2>3
<1>5. 0..n \subseteq T
  <2> HIDE DEF T, n
  <2> QED BY <1>1, <1>3, <1>4, IntervalInduction
<1>6. Good(f[n])
  BY <1>1, <1>5
<1> QED BY <1>6 DEF f, Only

\* Weights that agree on the members give the same sum.
LEMMA TotalSame ==
    ASSUME NEW R, NEW s \in Seq(R), NEW v, NEW w, \A i \in 1..Len(s) : v[s[i]] = w[s[i]]
    PROVE  Total(v, s) = Total(w, s)
<1> DEFINE n == Len(s)
           f == Sums(v, s)
           g == Sums(w, s)
           T == {i \in 0..n : f[i] = g[i]}
<1>1. n \in Nat
  OBVIOUS
<1>2. f[0] = 0 /\ \A i \in 1..n : f[i] = f[i - 1] + v[s[i]]
  BY <1>1, SumsDef
<1>3. g[0] = 0 /\ \A i \in 1..n : g[i] = g[i - 1] + w[s[i]]
  BY <1>1, SumsDef
<1>4. \A i \in 1..n : v[s[i]] = w[s[i]]
  OBVIOUS
<1> HIDE DEF f, g, n
<1>5. 0 \in T
  BY <1>1, <1>2, <1>3
<1>6. ASSUME NEW i \in 1..n, i - 1 \in T PROVE i \in T
  <2>1. f[i] = f[i - 1] + v[s[i]] /\ g[i] = g[i - 1] + w[s[i]] /\ v[s[i]] = w[s[i]]
    BY <1>2, <1>3, <1>4
  <2> QED BY <1>1, <1>6, <2>1
<1>7. 0..n \subseteq T
  <2> HIDE DEF T
  <2> QED BY <1>1, <1>5, <1>6, IntervalInduction
<1> QED BY <1>1, <1>7 DEF f, g, n, Total

\* The sum over two lists in a row is the sum of their sums.
LEMMA TotalConcat ==
    ASSUME NEW R, NEW w \in [R -> Nat], NEW s \in Seq(R), NEW t \in Seq(R)
    PROVE  Total(w, s \o t) = Total(w, s) + Total(w, t)
<1> DEFINE m == Len(s)
           n == Len(t)
           u == s \o t
           f == Sums(w, s)
           g == Sums(w, t)
           h == Sums(w, u)
<1>1. /\ m \in Nat /\ n \in Nat /\ u \in Seq(R) /\ Len(u) = m + n
      /\ \A i \in 1..m : u[i] = s[i]
      /\ \A i \in 1..n : u[m + i] = t[i]
      /\ \A i \in 1..m : s[i] \in R
      /\ \A i \in 1..n : t[i] \in R
  BY ConcatProperties
<1> HIDE DEF u
<1>2. f[0] = 0 /\ \A i \in 1..m : f[i] = f[i - 1] + w[s[i]]
  BY <1>1, SumsDef
<1>3. g[0] = 0 /\ \A i \in 1..n : g[i] = g[i - 1] + w[t[i]]
  BY <1>1, SumsDef
<1>4. h[0] = 0 /\ \A i \in 1..(m + n) : h[i] = h[i - 1] + w[u[i]]
  <2>1. Len(u) \in Nat
    BY <1>1
  <2>2. h[0] = 0 /\ \A i \in 1..Len(u) : h[i] = h[i - 1] + w[u[i]]
    BY <2>1, SumsDef
  <2> QED BY <1>1, <2>2
<1>5. Total(w, s) = f[m] /\ Total(w, t) = g[n] /\ Total(w, u) = h[m + n]
  BY <1>1 DEF Total
<1> HIDE DEF f, g, h, m, n
<1>6. f[m] = h[m] /\ f[m] \in Nat
  <2> DEFINE T == {i \in 0..m : f[i] = h[i] /\ f[i] \in Nat}
  <2>1. 0 \in T
    BY <1>1, <1>2, <1>4
  <2>2. ASSUME NEW i \in 1..m, i - 1 \in T PROVE i \in T
    <3>1. i \in 1..(m + n) /\ u[i] = s[i] /\ w[s[i]] \in Nat
      BY <1>1
    <3>2. f[i] = f[i - 1] + w[s[i]] /\ h[i] = h[i - 1] + w[s[i]]
      BY <1>2, <1>4, <3>1
    <3> QED BY <1>1, <2>2, <3>1, <3>2
  <2>3. 0..m \subseteq T
    <3> HIDE DEF T
    <3> QED BY <1>1, <2>1, <2>2, IntervalInduction
  <2> QED BY <1>1, <2>3
<1>7. h[m + n] = f[m] + g[n]
  <2> DEFINE T == {i \in 0..n : h[m + i] = f[m] + g[i] /\ g[i] \in Nat}
  <2>1. 0 \in T
    BY <1>1, <1>3, <1>6
  <2>2. ASSUME NEW i \in 1..n, i - 1 \in T PROVE i \in T
    <3>1. m + i \in 1..(m + n) /\ u[m + i] = t[i] /\ (m + i) - 1 = m + (i - 1) /\ w[t[i]] \in Nat
      <4>1. m \in Nat /\ n \in Nat
        BY <1>1
      <4>2. m + i \in 1..(m + n) /\ (m + i) - 1 = m + (i - 1)
        BY <4>1
      <4>3. u[m + i] = t[i] /\ t[i] \in R
        BY <1>1, Zenon
      <4>4. w[t[i]] \in Nat
        BY <4>3
      <4> QED BY <4>2, <4>3, <4>4
    <3>2. g[i] = g[i - 1] + w[t[i]] /\ h[m + i] = h[m + (i - 1)] + w[t[i]]
      BY <1>3, <1>4, <3>1
    <3>3. h[m + (i - 1)] = f[m] + g[i - 1] /\ g[i - 1] \in Nat
      BY <2>2
    <3>4. h[m + i] = f[m] + g[i] /\ g[i] \in Nat
      BY <1>6, <3>1, <3>2, <3>3
    <3> QED BY <1>1, <3>4
  <2>3. 0..n \subseteq T
    <3> HIDE DEF T
    <3> QED BY <1>1, <2>1, <2>2, IntervalInduction
  <2> QED BY <1>1, <2>3
<1> QED BY <1>5, <1>6, <1>7 DEF u

\* Leaving members out of a list saves at least one for each of them, when each
\* weighs something.
LEMMA TotalOnly ==
    ASSUME NEW R, NEW s \in Seq(R), NEW S, NEW w \in [R -> Nat],
           \A i \in 1..Len(s) : w[s[i]] >= 1
    PROVE  /\ Len(Only(s, S)) <= Len(s)
           /\ Total(w, Only(s, S)) + (Len(s) - Len(Only(s, S))) <= Total(w, s)
<1> DEFINE n == Len(s)
           f == OnlyStates(s, S)
           g == Sums(w, s)
           Good(t, i) == /\ Len(t) <= i /\ Total(w, t) \in Nat /\ g[i] \in Nat
                         /\ Total(w, t) + (i - Len(t)) <= g[i]
           T == {i \in 0..n : Good(f[i], i)}
<1>1. /\ n \in Nat /\ <<>> \in Seq(R)
      /\ \A i \in 1..n : s[i] \in R /\ w[s[i]] \in Nat /\ w[s[i]] >= 1
  BY EmptySeq
<1>2. f[0] = <<>> /\ \A i \in 1..n : f[i] = OnlyStep(f[i - 1], s[i], S)
  BY <1>1, OnlyStatesDef
<1>3. g[0] = 0 /\ \A i \in 1..n : g[i] = g[i - 1] + w[s[i]]
  BY <1>1, SumsDef
<1>4. \A i \in 0..n : f[i] \in Seq(R)
  BY OnlyType
<1> HIDE DEF f, g
<1>5. 0 \in T
  <2>1. Total(w, <<>>) = 0 /\ Len(<<>>) = 0
    BY TotalEmpty
  <2>2. Total(w, f[0]) = 0 /\ Len(f[0]) = 0
    BY <1>2, <2>1
  <2> QED BY <1>1, <1>3, <2>2
<1>6. ASSUME NEW i \in 1..n, i - 1 \in T PROVE i \in T
  <2> DEFINE t == f[i - 1]
             e == s[i]
  <2>1. /\ t \in Seq(R) /\ e \in R /\ w[e] \in Nat /\ w[e] >= 1
        /\ f[i] = OnlyStep(t, e, S) /\ g[i] = g[i - 1] + w[e]
        /\ Good(t, i - 1)
    BY <1>1, <1>2, <1>3, <1>4, <1>6
  <2>2. /\ Total(w, Append(t, e)) = Total(w, t) + w[e]
        /\ Len(Append(t, e)) = Len(t) + 1 /\ Len(t) \in Nat
    <3> HIDE DEF t, e
    <3> QED BY <2>1, TotalAppend, AppendProperties
  <2> DEFINE x == Total(w, t)
             y == Len(t)
             z == g[i - 1]
             v == w[e]
  <2>3. x \in Nat /\ y \in Nat /\ z \in Nat /\ v \in Nat /\ v >= 1 /\ y <= i - 1 /\ x + ((i - 1) - y) <= z
    BY <2>1, <2>2
  <2>4. g[i] = z + v
    BY <2>1
  <2>5. CASE f[i] = t
    <3>1. Total(w, f[i]) = x /\ Len(f[i]) = y
      BY <2>5
    <3> HIDE DEF x, y, z, v, t, e
    <3>2. Good(f[i], i)
      BY <2>3, <2>4, <3>1
    <3> QED BY <1>1, <3>2
  <2>6. CASE f[i] = Append(t, e)
    <3>1. Total(w, f[i]) = x + v /\ Len(f[i]) = y + 1
      BY <2>2, <2>6
    <3> HIDE DEF x, y, z, v, t, e
    <3>2. Good(f[i], i)
      BY <2>3, <2>4, <3>1
    <3> QED BY <1>1, <3>2
  <2> QED BY <2>1, <2>5, <2>6 DEF OnlyStep
<1>7. 0..n \subseteq T
  <2> HIDE DEF T, n
  <2> QED BY <1>1, <1>5, <1>6, IntervalInduction
<1>8. Good(f[n], n)
  BY <1>1, <1>7
<1> QED BY <1>8 DEF f, g, Only, Total

-----------------------------------------------------------------------------
(* What the prefill of a batch costs, with paged attention                 *)

\* The prompts of the batch, the last one cut to its chunk if there is one, are
\* within the budget.
Priced(b, chunk, budget, R) ==
    \/ chunk = 0 /\ Total(InputLength, b) <= budget
    \/ /\ chunk \in Nat \ {0}
       /\ \E c \in Seq(R), e \in R : b = Append(c, e) /\ Total(InputLength, c) + chunk <= budget

\* The loop's state: an entry is cut only when the loop stops with it.
Costed(w, R, budget) ==
    /\ Placed(w, R) /\ "budget" \in DOMAIN w /\ w.budget = budget
    /\ Priced(w.batch, w.chunk, budget, R)
    /\ ~w.stop => w.chunk = 0 /\ w.prefill = Total(InputLength, w.batch)

\* The entry is put back, taken whole, or cut.
CostStep(w, s, r) ==
    /\ Fields \subseteq DOMAIN s /\ "budget" \in DOMAIN s /\ s.budget = w.budget
    /\ \/ s.batch = w.batch /\ s.chunk = w.chunk /\ s.stop = TRUE
       \/ /\ s.batch = Append(w.batch, r) /\ s.chunk = w.chunk
          /\ s.prefill = w.prefill + InputLength[r]
          /\ w.prefill + InputLength[r] <= w.budget
       \/ /\ s.batch = Append(w.batch, r) /\ s.stop = TRUE
          /\ w.prefill < w.budget /\ s.chunk = w.budget - w.prefill

\* An iteration does one of the three.
LEMMA ScanPagedCost ==
    ASSUME NEW w, NEW r, Fields \subseteq DOMAIN w, "budget" \in DOMAIN w
    PROVE  CostStep(w, ScanPaged(w, r), r)
<1>0. CostStep(w, PutBack(w, r), r)
  BY Zenon DEF PutBack, CostStep, Fields
<1>1. CASE BlocksOf(r) > w.room
  BY <1>0, <1>1, Zenon DEF ScanPaged
<1>2. CASE ~(BlocksOf(r) > w.room) /\ w.prefill + InputLength[r] <= w.budget
  <2>1. ScanPaged(w, r) = [w EXCEPT !.batch = Append(@, r), !.room = @ - BlocksOf(r),
                   !.prefill = @ + InputLength[r]]
    BY <1>2, Zenon DEF ScanPaged
  <2> QED BY <1>2, <2>1, Zenon DEF CostStep, Fields
<1>3. CASE /\ ~(BlocksOf(r) > w.room) /\ ~(w.prefill + InputLength[r] <= w.budget)
           /\ SupportChunking /\ w.prefill < w.budget
  <2>1. ScanPaged(w, r) = [w EXCEPT !.batch = Append(@, r), !.stop = TRUE,
                                    !.chunk = w.budget - w.prefill]
    BY <1>3, Zenon DEF ScanPaged
  <2> QED BY <1>3, <2>1, Zenon DEF CostStep, Fields
<1>4. CASE /\ ~(BlocksOf(r) > w.room) /\ ~(w.prefill + InputLength[r] <= w.budget)
           /\ ~(SupportChunking /\ w.prefill < w.budget)
  BY <1>0, <1>4, Zenon DEF ScanPaged
<1> QED BY <1>1, <1>2, <1>3, <1>4, Zenon

\* It keeps the batch within the budget.
LEMMA ScanCosted ==
    ASSUME NEW R, NEW w, NEW r \in R, NEW closed, NEW budget \in Nat, NEW s,
           ~RequiresPadding, InputLength \in [R -> Nat],
           s = Scan(w, r, closed), Costed(w, R, budget)
    PROVE  Costed(s, R, budget)
<1>1. Placed(w, R) /\ "budget" \in DOMAIN w /\ w.budget = budget
  BY DEF Costed
<1>2. Placed(s, R)
  BY <1>1, ScanCases
<1>3. Fields \subseteq DOMAIN w /\ w.stop \in BOOLEAN /\ w.batch \in Seq(R)
  BY <1>1 DEF Placed
<1>4. CASE w.stop
  <2>1. s = [w EXCEPT !.rest = Append(@, r)]
    BY <1>4, Zenon DEF Scan
  <2>2. /\ "budget" \in DOMAIN s /\ s.budget = w.budget /\ s.batch = w.batch
        /\ s.stop = w.stop /\ s.chunk = w.chunk
    BY <1>1, <1>3, <2>1, Zenon DEF Fields
  <2> QED BY <1>1, <1>2, <1>4, <2>2, Zenon DEF Costed
<1>5. CASE ~w.stop /\ r \in closed
  <2>1. s = w
    BY <1>5, Zenon DEF Scan
  <2> QED BY <2>1, Zenon
<1>6. CASE ~w.stop /\ r \notin closed
  <2> DEFINE t == ScanPaged(w, r)
  <2>1. s = [t EXCEPT !.stop = @ \/ Len(t.batch) = w.max]
    BY <1>6, Zenon DEF Scan
  <2>2. CostStep(w, t, r)
    BY <1>1, <1>3, ScanPagedCost
  <2> HIDE DEF t
  <2>3. /\ "budget" \in DOMAIN s /\ s.budget = budget /\ s.batch = t.batch
        /\ s.chunk = t.chunk /\ s.prefill = t.prefill
        /\ t.stop = TRUE => s.stop = TRUE
    BY <1>1, <2>1, <2>2, Zenon DEF CostStep, Fields
  <2> DEFINE b == w.batch
             p == w.prefill
  <2>4. /\ w.chunk = 0 /\ p = Total(InputLength, b) /\ Priced(b, 0, budget, R)
        /\ b \in Seq(R)
    BY <1>3, <1>6 DEF Costed
  <2>5. \/ s.batch = b /\ s.chunk = 0 /\ s.stop = TRUE
        \/ /\ s.batch = Append(b, r) /\ s.chunk = 0
           /\ s.prefill = p + InputLength[r] /\ p + InputLength[r] <= budget
        \/ /\ s.batch = Append(b, r) /\ s.stop = TRUE
           /\ p < budget /\ s.chunk = budget - p
    BY <1>1, <2>2, <2>3, <2>4, Zenon DEF CostStep
  <2> HIDE DEF b, p
  <2>6. p \in Nat /\ Total(InputLength, Append(b, r)) = p + InputLength[r]
    BY <2>4, TotalNat, TotalAppend
  <2>7. CASE s.batch = b /\ s.chunk = 0 /\ s.stop = TRUE
    BY <1>2, <2>3, <2>4, <2>7, Zenon DEF Costed
  <2>8. CASE /\ s.batch = Append(b, r) /\ s.chunk = 0
             /\ s.prefill = p + InputLength[r] /\ p + InputLength[r] <= budget
    <3>1. Priced(s.batch, s.chunk, budget, R) /\ s.prefill = Total(InputLength, s.batch)
      BY <2>6, <2>8 DEF Priced
    <3> QED BY <1>2, <2>3, <2>8, <3>1, Zenon DEF Costed
  <2>9. CASE /\ s.batch = Append(b, r) /\ s.stop = TRUE
             /\ p < budget /\ s.chunk = budget - p
    <3>1. s.chunk \in Nat \ {0} /\ Total(InputLength, b) + s.chunk <= budget
      BY <2>4, <2>6, <2>9
    <3>2. Priced(s.batch, s.chunk, budget, R)
      BY <2>4, <2>9, <3>1, Zenon DEF Priced
    <3> QED BY <1>2, <2>3, <2>9, <3>2, Zenon DEF Costed
  <2> QED BY <2>5, <2>7, <2>8, <2>9
<1> QED BY <1>3, <1>4, <1>5, <1>6, Zenon

\* The entry loop stays within the budget.
LEMMA LoopCosted ==
    ASSUME NEW R, NEW queue \in Seq(R), NEW closed, NEW start, NEW budget \in Nat,
           ~RequiresPadding, InputLength \in [R -> Nat], Costed(start, R, budget)
    PROVE  Costed(LoopStates(queue, closed, start)[Len(queue)], R, budget)
<1> DEFINE n == Len(queue)
           w == LoopStates(queue, closed, start)
           S == {i \in 0..n : Costed(w[i], R, budget)}
<1>1. n \in Nat /\ \A i \in 1..n : queue[i] \in R
  OBVIOUS
<1>2. w[0] = start /\ \A i \in 1..n : w[i] = Scan(w[i - 1], queue[i], closed)
  BY <1>1, LoopStatesDef
<1> HIDE DEF w
<1>3. 0 \in S
  <2>1. 0 \in 0..n
    BY <1>1
  <2> QED BY <1>2, <2>1, Zenon
<1>4. ASSUME NEW i \in 1..n, i - 1 \in S PROVE i \in S
  <2> DEFINE v == w[i - 1]
             r == queue[i]
             s == w[i]
  <2>1. Costed(v, R, budget) /\ r \in R /\ s = Scan(v, r, closed) /\ i \in 0..n
    BY <1>1, <1>2, <1>4
  <2> HIDE DEF v, r
  <2>2. Costed(s, R, budget)
    <3> HIDE DEF s
    <3> QED BY <2>1, ScanCosted
  <2> QED BY <2>1, <2>2
<1>5. 0..n \subseteq S
  <2> HIDE DEF S, n
  <2>1. \A m \in 1..n : m - 1 \in S => m \in S
    BY <1>4
  <2> QED BY <1>1, <1>3, <2>1, IntervalInduction
<1>6. n \in S
  BY <1>1, <1>5
<1> QED BY <1>6 DEF w

\* The prefill budget as the loop uses it, in whole blocks.
Rounded(tokens) == CeilDivision(tokens, BlockSize) * BlockSize

\* Rounding adds less than a block.
LEMMA RoundedBound ==
    ASSUME NEW tokens \in Nat, BlockSize \in Nat \ {0}
    PROVE  Rounded(tokens) \in Nat /\ Rounded(tokens) <= tokens + BlockSize - 1
<1> DEFINE x == tokens + BlockSize - 1
           q == x \div BlockSize
<1>1. x \in Nat
  OBVIOUS
<1>2. q \in Nat /\ q * BlockSize <= x /\ q * BlockSize \in Nat
  <2> HIDE DEF x
  <2> QED BY <1>1
<1> QED BY <1>2 DEF Rounded, CeilDivision

\* next_batch takes prompts within the prefill budget, rounded up to whole blocks:
\* all of them whole, or all but the last, which then gets what is left.
THEOREM NextBatchPriced ==
    ASSUME NEW R, NEW queue \in Seq(R), NEW closed, NEW min, NEW max,
           NEW prefillBudget \in Nat, NEW tokenBudget, NEW room,
           ~RequiresPadding, InputLength \in [R -> Nat], BlockSize \in Nat \ {0}
    PROVE  LET nb == NextBatch(queue, closed, min, max, prefillBudget, tokenBudget, room)
           IN  /\ Priced(nb.batch, nb.chunk, Rounded(prefillBudget), R)
               /\ nb.batch # <<>> => prefillBudget # 0
<1> DEFINE start == LoopStart(max, prefillBudget, tokenBudget, room)
           w == EntryLoop(queue, closed, max, prefillBudget, tokenBudget, room)
           nb == NextBatch(queue, closed, min, max, prefillBudget, tokenBudget, room)
           none == [batch |-> NoBatch, queue |-> queue, chunk |-> 0]
           budget == Rounded(prefillBudget)
<1>0. budget \in Nat
  BY RoundedBound
<1>1. Priced(<<>>, 0, budget, R)
  <2> HIDE DEF budget
  <2> QED BY <1>0, TotalEmpty DEF Priced
<1>2. none.batch = <<>> /\ none.chunk = 0
  BY DEF NoBatch
<1>3. CASE prefillBudget = 0 \/ tokenBudget = 0 \/ Len(queue) < min \/ max = 0
  <2>1. nb = none
    BY <1>3, Zenon DEF NextBatch, StateNextBatch
  <2> HIDE DEF nb, none, budget
  <2>2. Priced(nb.batch, nb.chunk, budget, R) /\ nb.batch = <<>>
    BY <1>1, <1>2, <2>1
  <2> QED BY <2>2 DEF nb, budget
<1>4. CASE ~(prefillBudget = 0 \/ tokenBudget = 0 \/ Len(queue) < min \/ max = 0)
  <2>1. nb = Decide(w, min)
    BY <1>4, Zenon DEF NextBatch, StateNextBatch
  <2>2. Costed(start, R, budget)
    <3>1. /\ Fields \subseteq DOMAIN start /\ "budget" \in DOMAIN start /\ start.budget = budget
          /\ start.batch = <<>> /\ start.rest = <<>> /\ start.stop = FALSE
          /\ start.chunk = 0 /\ start.prefill = 0
      BY DEF LoopStart, Fields, Rounded
    <3>2. <<>> \in Seq(R) /\ Total(InputLength, <<>>) = 0
      BY TotalEmpty, EmptySeq
    <3> HIDE DEF start
    <3>3. Placed(start, R)
      BY <3>1, <3>2, Zenon DEF Placed
    <3> QED BY <1>1, <3>1, <3>2, <3>3, Zenon DEF Costed
  <2>3. Costed(w, R, budget)
    <3> HIDE DEF start, budget
    <3> QED BY <1>0, <2>2, LoopCosted DEF EntryLoop, start
  <2> HIDE DEF w, budget
  <2>4. CASE w.batch = NoBatch \/ Len(w.batch) < min
    <3> HIDE DEF nb
    <3>1. nb.batch = <<>> /\ nb.chunk = 0
      BY <2>1, <2>4 DEF Decide, NoBatch
    <3> QED BY <1>1, <1>4, <3>1 DEF nb, budget
  <2>5. CASE ~(w.batch = NoBatch \/ Len(w.batch) < min)
    <3> HIDE DEF nb
    <3>1. nb.batch = w.batch /\ nb.chunk = w.chunk
      BY <2>1, <2>5 DEF Decide
    <3>2. Priced(nb.batch, nb.chunk, budget, R)
      BY <2>3, <3>1 DEF Costed
    <3> QED BY <1>4, <3>2 DEF nb, budget
  <2> QED BY <2>4, <2>5
<1> QED BY <1>3, <1>4
=============================================================================
