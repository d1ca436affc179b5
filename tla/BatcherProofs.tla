--------------------------- MODULE BatcherProofs ----------------------------
(***************************************************************************)
(* What the batching task keeps for any number of requests and shards and  *)
(* any budgets.  Every step is a submission, a call of next_batch or one   *)
(* that leaves the queue alone (StepKinds).  Inv says where an entry can   *)
(* be, ChunkInv how the task, the entries and the caches of the shards go  *)
(* together on a server with chunking, BudgetInv how many tokens its next  *)
(* pass can take, SizeInv which requests can be in the batches of a server *)
(* without it.                                                             *)
(***************************************************************************)
EXTENDS Batcher, RequestQueueProofs, FiniteSetTheorems

\* Where the task owns no entries.
Resting == {"start", "idle", "outer"}

\* No entry is in the queue twice.
QueueInv ==
    /\ queue \in Seq(Requests)
    /\ \A i, j \in 1..Len(queue) : queue[i] = queue[j] => i = j

\* An entry is in the queue or with the task, not in both.
OwnerInv ==
    /\ entries \subseteq Requests
    /\ \A i \in 1..Len(queue) : queue[i] \notin entries
    /\ pc \in Resting => entries = {}

\* A request whose client waits for an answer is in the queue or with the task.
ClientInv ==
    /\ client \in [Requests -> Streams]
    /\ \A r \in entries : client[r] # "absent"
    /\ \A i \in 1..Len(queue) : client[queue[i]] # "absent"
    /\ \A r \in Requests : client[r] = "open" =>
         r \in entries \/ \E i \in 1..Len(queue) : queue[i] = r

\* The inductive invariant behind Accounted and FirstComeFirstServed.
Inv == QueueInv /\ OwnerInv /\ ClientInv

\* A step that leaves the queue alone: entries may end, none is taken over.
QuietStep ==
    /\ queue' = queue /\ entries' \subseteq entries
    /\ client' \in [Requests -> Streams]
    /\ \A r \in Requests :
         /\ client'[r] = "absent" => client[r] = "absent"
         /\ client'[r] = "open" => client[r] = "open" /\ (r \in entries => r \in entries')
    /\ pc' \in Resting => entries' = {}

\* A call of next_batch.
PullStep ==
    \E nb : /\ Ordered(nb, queue, Closed, Requests)
            /\ queue' = nb.queue /\ entries' = entries \cup Range(nb.batch)
            /\ client' = client
            /\ pc' \in Resting => entries' = {}

\* The invariant holds before the first request.
LEMMA InitInv == Init => Inv
  BY DEF Init, Inv, QueueInv, OwnerInv, ClientInv, Streams

\* Dropping the map of entries takes over none.
LEMMA AbandonQuiet ==
    ASSUME Inv, Abandon, queue' = queue
    PROVE  QuietStep
  BY DEF Inv, QueueInv, OwnerInv, ClientInv, Abandon, QuietStep, Streams

\* Sending an error to every entry takes over none.
LEMMA SendErrorsQuiet ==
    ASSUME Inv, SendErrors, queue' = queue
    PROVE  QuietStep
  BY DEF Inv, QueueInv, OwnerInv, ClientInv, SendErrors, QuietStep, Streams

\* Sending the generations of a call takes over none, and the ones it removes
\* have stopped or lost their client.
LEMMA SendGenerationsQuiet ==
    ASSUME Inv, NEW reqs, NEW S, NEW next, SendGenerations(reqs, S, next), queue' = queue,
           next \notin Resting
    PROVE  QuietStep
<1>1. CASE Emitting(reqs) \subseteq entries
  <2> DEFINE E == Emitting(reqs)
  <2>1. /\ client' = [r \in Requests |->
                         IF r \in S /\ client[r] = "open" THEN "ended" ELSE client[r]]
        /\ entries' = entries \ (S \cup (E \cap Closed))
        /\ pc' = next
    BY <1>1 DEF SendGenerations
  <2> HIDE DEF E
  <2> QED BY <2>1 DEF Inv, ClientInv, QuietStep, Streams, Closed
<1>2. CASE ~(Emitting(reqs) \subseteq entries)
  <2>1. Abandon
    BY <1>2 DEF SendGenerations
  <2> QED BY <2>1, AbandonQuiet
<1> QED BY <1>1, <1>2

\* Both ends of a call of next_batch, with a batch and without, are a PullStep.
LEMMA PullIsStep ==
    ASSUME NEW nb, Ordered(nb, queue, Closed, Requests),
           \/ /\ nb.batch = NoBatch /\ queue' = nb.queue
              /\ pc' \in Resting => entries = {}
              /\ UNCHANGED <<clientVars, entries>>
           \/ Admit(nb) /\ entries' = entries \cup Range(nb.batch)
    PROVE  PullStep
<1>1. CASE /\ nb.batch = NoBatch /\ queue' = nb.queue
           /\ pc' \in Resting => entries = {}
           /\ UNCHANGED <<clientVars, entries>>
  <2>1. Range(nb.batch) = {}
    BY <1>1 DEF NoBatch, Range
  <2>2. /\ queue' = nb.queue /\ entries' = entries \cup Range(nb.batch)
        /\ client' = client
        /\ pc' \in Resting => entries' = {}
    BY <1>1, <2>1 DEF clientVars
  <2> QED BY <2>2 DEF PullStep
<1>2. CASE Admit(nb) /\ entries' = entries \cup Range(nb.batch)
  <2>1. /\ queue' = nb.queue /\ client' = client /\ pc' = "prefill"
    BY <1>2 DEF Admit, clientVars
  <2> QED BY <1>2, <2>1 DEF PullStep, Resting
<1> QED BY <1>1, <1>2

\* Every step submits a request, leaves the queue alone or calls next_batch.
LEMMA StepKinds ==
    ASSUME Inv, [Next]_vars
    PROVE  (\E r \in Requests : Schedule(r)) \/ QuietStep \/ PullStep
<1>1. CASE UNCHANGED vars
  BY <1>1 DEF vars, clientVars, taskVars, Inv, OwnerInv, ClientInv, QuietStep
<1>2. ASSUME NEW r \in Requests, NotifyOne(r) PROVE QuietStep
  BY <1>2 DEF NotifyOne, taskVars, Inv, OwnerInv, ClientInv, QuietStep
<1>3. ASSUME NEW r \in Requests, Disconnect(r) PROVE QuietStep
  BY <1>3 DEF Disconnect, taskVars, Inv, OwnerInv, ClientInv, QuietStep, Streams
<1>4. CASE StartWait
  BY <1>4 DEF StartWait, clientVars, Inv, OwnerInv, ClientInv, QuietStep, Resting
<1>5. CASE Wake
  BY <1>5 DEF Wake, Inv, OwnerInv, ClientInv, QuietStep, Resting
<1>6. CASE PullFirst
  <2> DEFINE nb == NextBatch(queue, Closed, 0, MaxBatchSize, MaxBatchPrefillTokens,
                             MaxBatchTotalTokens, FreeBlocks)
  <2>1. Ordered(nb, queue, Closed, Requests)
    BY NextBatchOrdered DEF Inv, QueueInv
  <2>2. \/ /\ nb.batch = NoBatch /\ queue' = nb.queue
           /\ UNCHANGED <<clientVars, entries>>
        \/ /\ Admit(nb) /\ entries' = Range(nb.batch)
    BY <1>6, Zenon DEF PullFirst
  <2>3. entries = {}
    BY <1>6 DEF PullFirst, Inv, OwnerInv, Resting
  <2> HIDE DEF nb
  <2> QED BY <2>1, <2>2, <2>3, PullIsStep
<1>7. CASE PullMore
  <2> DEFINE b == batches[1]
             nb == NextBatch(queue, Closed, MinSize(b), MaxSize(b), PrefillBudget(b),
                             Minus(MaxBatchTotalTokens, BatchTokens(b)), FreeBlocks)
  <2>1. Ordered(nb, queue, Closed, Requests)
    BY NextBatchOrdered DEF Inv, QueueInv
  <2>2. \/ /\ nb.batch = NoBatch /\ queue' = nb.queue /\ pc' = "decode"
           /\ UNCHANGED <<clientVars, entries>>
        \/ /\ Admit(nb) /\ entries' = entries \cup Range(nb.batch)
    BY <1>7, Zenon DEF PullMore
  <2> HIDE DEF nb
  <2> QED BY <2>1, <2>2, PullIsStep DEF Resting
<1>8. ASSUME NEW S \in SUBSET Requests, PrefillSucceeds(S) PROVE QuietStep
  BY <1>8, SendGenerationsQuiet DEF PrefillSucceeds, Resting
<1>9. ASSUME NEW S \in SUBSET Requests, DecodeSucceeds(S) PROVE QuietStep
  BY <1>9, SendGenerationsQuiet DEF DecodeSucceeds, Resting
<1>10. ASSUME NEW S, NEW o, PrefillFails(o, S) PROVE QuietStep
  BY <1>10, SendErrorsQuiet DEF PrefillFails
<1>11. ASSUME NEW S, NEW o, DecodeFails(o, S) PROVE QuietStep
  BY <1>11, SendErrorsQuiet DEF DecodeFails
<1>12. CASE Filter
  <2>1. /\ queue' = queue
        /\ pc' \in {"decode", "loop", "outer"}
        /\ IF pc' = "outer" THEN Abandon ELSE UNCHANGED <<client, entries>>
    BY <1>12, Zenon DEF Filter, AfterEmptyPrefill
  <2>2. CASE pc' = "outer"
    BY <2>1, <2>2, AbandonQuiet
  <2>3. CASE pc' # "outer"
    BY <2>1, <2>3 DEF Inv, OwnerInv, ClientInv, QuietStep, Resting
  <2> QED BY <2>2, <2>3
<1>13. CASE Quiescent
  BY <1>1, <1>13 DEF Quiescent
<1> QED
  BY <1>1, <1>2, <1>3, <1>4, <1>5, <1>6, <1>7, <1>8, <1>9, <1>10, <1>11, <1>12, <1>13, Zenon
     DEF Next, Task

\* Submitting a request appends one that was nowhere.
LEMMA ScheduleInv ==
    ASSUME Inv, NEW r \in Requests, Schedule(r)
    PROVE  Inv'
<1>1. /\ client[r] = "absent" /\ client' = [client EXCEPT ![r] = "open"]
      /\ queue' = Append(queue, r) /\ entries' = entries /\ pc' = pc
  BY DEF Schedule, taskVars
<1>2. /\ queue \in Seq(Requests) /\ Len(queue) \in Nat
      /\ Len(queue') = Len(queue) + 1 /\ queue' \in Seq(Requests)
      /\ \A i \in 1..Len(queue) : queue'[i] = queue[i]
      /\ queue'[Len(queue) + 1] = r
  BY <1>1 DEF Inv, QueueInv
<1>3. \A i \in 1..Len(queue') : i \in 1..Len(queue) \/ i = Len(queue) + 1
  BY <1>2
<1>4. r \notin entries /\ \A i \in 1..Len(queue) : queue[i] # r
  BY <1>1 DEF Inv, ClientInv
<1>5. QueueInv'
  BY <1>2, <1>3, <1>4 DEF Inv, QueueInv
<1>6. OwnerInv'
  BY <1>1, <1>2, <1>3, <1>4 DEF Inv, OwnerInv
<1>7. ClientInv'
  <2>1. client' \in [Requests -> Streams]
    BY <1>1 DEF Inv, ClientInv, Streams
  <2>2. \A s \in entries' : client'[s] # "absent"
    BY <1>1, <1>4 DEF Inv, ClientInv, OwnerInv
  <2>3. \A i \in 1..Len(queue') : client'[queue'[i]] # "absent"
    BY <1>1, <1>2, <1>3, <1>4 DEF Inv, ClientInv
  <2>4. \A s \in Requests : client'[s] = "open" =>
          s \in entries' \/ \E i \in 1..Len(queue') : queue'[i] = s
    BY <1>1, <1>2 DEF Inv, ClientInv
  <2> QED BY <2>1, <2>2, <2>3, <2>4 DEF ClientInv
<1> QED BY <1>5, <1>6, <1>7 DEF Inv

\* A step that leaves the queue alone keeps the invariant.
LEMMA QuietInv == Inv /\ QuietStep => Inv'
  BY DEF Inv, QueueInv, OwnerInv, ClientInv, QuietStep

\* next_batch moves entries from the queue to the task, and drops only those
\* whose client is gone.
LEMMA PullInv ==
    ASSUME Inv, PullStep
    PROVE  Inv'
<1>1. PICK nb : /\ Ordered(nb, queue, Closed, Requests)
                /\ queue' = nb.queue /\ entries' = entries \cup Range(nb.batch)
                /\ client' = client
                /\ pc' \in Resting => entries' = {}
  BY DEF PullStep
<1> DEFINE B == Range(nb.batch)
<1>2. /\ queue' \in Seq(Requests)
      /\ \A i, j \in 1..Len(queue') : queue'[i] = queue'[j] => i = j
      /\ \A r \in B : \E k \in 1..Len(queue) : queue[k] = r
      /\ \A i \in 1..Len(queue') : \E k \in 1..Len(queue) : queue[k] = queue'[i]
      /\ \A i \in 1..Len(queue') : queue'[i] \notin B
      /\ \A k \in 1..Len(queue) : queue[k] \notin Closed =>
           queue[k] \in B \/ \E i \in 1..Len(queue') : queue'[i] = queue[k]
  <2>1. nb.queue \in Seq(Requests) /\ Apart(B, nb.queue, queue, Closed)
    BY <1>1, PulledApart DEF Inv, QueueInv
  <2>2. Apart(B, queue', queue, Closed)
    BY <1>1, <2>1
  <2> QED BY <1>1, <2>1, <2>2, Zenon DEF Apart
<1> HIDE DEF B
<1>3. entries' = entries \cup B
  BY <1>1 DEF B
<1>4. QueueInv'
  BY <1>2 DEF QueueInv
<1>5. OwnerInv'
  <2>1. \A k \in 1..Len(queue) : queue[k] \in Requests /\ queue[k] \notin entries
    BY DEF Inv, QueueInv, OwnerInv
  <2>2. entries' \subseteq Requests
    BY <1>2, <1>3, <2>1 DEF Inv, OwnerInv
  <2>3. \A i \in 1..Len(queue') : queue'[i] \notin entries'
    BY <1>2, <1>3, <2>1
  <2> QED BY <1>1, <2>2, <2>3 DEF OwnerInv
<1>6. ClientInv'
  <2>1. \A k \in 1..Len(queue) : client[queue[k]] # "absent"
    BY DEF Inv, ClientInv
  <2>2. \A s \in entries' : client'[s] # "absent"
    BY <1>1, <1>2, <1>3, <2>1 DEF Inv, ClientInv
  <2>3. \A i \in 1..Len(queue') : client'[queue'[i]] # "absent"
    BY <1>1, <1>2, <2>1
  <2>4. \A s \in Requests : client'[s] = "open" =>
          s \in entries' \/ \E i \in 1..Len(queue') : queue'[i] = s
    <3> SUFFICES ASSUME NEW s \in Requests, client[s] = "open", s \notin entries
                 PROVE  s \in B \/ \E i \in 1..Len(queue') : queue'[i] = s
      BY <1>1, <1>3
    <3>1. PICK k \in 1..Len(queue) : queue[k] = s
      BY DEF Inv, ClientInv
    <3>2. s \notin Closed
      BY DEF Closed
    <3> QED BY <1>2, <3>1, <3>2
  <2>5. client' \in [Requests -> Streams]
    BY <1>1 DEF Inv, ClientInv
  <2> QED BY <2>2, <2>3, <2>4, <2>5 DEF ClientInv
<1> QED BY <1>4, <1>5, <1>6 DEF Inv

\* Inv is an invariant: an entry is in one place, and a client that waits has one.
THEOREM InvCorrect == Spec => []Inv
<1>1. Inv /\ [Next]_vars => Inv'
  BY StepKinds, ScheduleInv, QuietInv, PullInv
<1> QED BY InitInv, <1>1, PTL DEF Spec

\* Accounted: an entry a client still waits for is in one place.
THEOREM AccountedCorrect == Spec => []Accounted
<1>1. Inv => Accounted
  <2> SUFFICES ASSUME Inv, NEW r \in Requests, client[r] = "open"
               PROVE  Cardinality({i \in DOMAIN queue : queue[i] = r})
                          + (IF r \in entries THEN 1 ELSE 0) = 1
    BY DEF Accounted
  <2> DEFINE P == {i \in DOMAIN queue : queue[i] = r}
  <2>1. DOMAIN queue = 1..Len(queue)
    BY DEF Inv, QueueInv
  <2>2. CASE r \in entries
    <3>1. P = {}
      BY <2>1, <2>2 DEF Inv, OwnerInv
    <3>2. Cardinality(P) = 0
      BY <3>1, FS_EmptySet
    <3> QED BY <2>2, <3>2
  <2>3. CASE r \notin entries
    <3>1. PICK i \in 1..Len(queue) : queue[i] = r
      BY <2>3 DEF Inv, ClientInv
    <3>2. P = {i}
      BY <2>1, <3>1 DEF Inv, QueueInv
    <3>3. Cardinality(P) = 1
      BY <3>2, FS_Singleton
    <3> QED BY <2>3, <3>3
  <2> QED BY <2>2, <2>3
<1> QED BY InvCorrect, <1>1, PTL

\* FirstComeFirstServed: an entry neither starts before one that waits in front of
\* it, nor changes places with it.
THEOREM FirstComeFirstServedCorrect == Spec => FirstComeFirstServed
<1> DEFINE Fair == \A r, s \in Requests : Before(queue, r, s) =>
                     /\ s \in entries' => r \notin Range(queue')
                     /\ ~Before(queue', s, r)
<1>1. ASSUME Inv, [Next]_vars PROVE Fair
  <2> SUFFICES ASSUME NEW r \in Requests, NEW s \in Requests,
                      NEW k \in 1..Len(queue), NEW l \in 1..Len(queue),
                      k < l, queue[k] = r, queue[l] = s
               PROVE  /\ s \in entries' => r \notin Range(queue')
                      /\ ~Before(queue', s, r)
    BY <1>1 DEF Before, Inv, QueueInv
  <2>1. queue \in Seq(Requests) /\ s \notin entries
    BY <1>1 DEF Inv, QueueInv, OwnerInv
  <2>2. ~Before(queue, s, r)
    BY <1>1, <2>1 DEF Before, Inv, QueueInv
  <2>3. ASSUME NEW x \in Requests, Schedule(x)
        PROVE  s \notin entries' /\ ~Before(queue', s, r)
    <3>1. client[x] = "absent" /\ queue' = Append(queue, x) /\ entries' = entries
      BY <2>3 DEF Schedule, taskVars
    <3>2. x # r /\ x # s
      BY <1>1, <3>1 DEF Inv, ClientInv
    <3>3. /\ Len(queue) \in Nat /\ DOMAIN queue = 1..Len(queue)
          /\ DOMAIN queue' = 1..(Len(queue) + 1)
          /\ \A i \in 1..Len(queue) : queue'[i] = queue[i]
          /\ queue'[Len(queue) + 1] = x
      BY <2>1, <3>1
    <3>4. ~Before(queue', s, r)
      BY <2>2, <3>2, <3>3 DEF Before
    <3> QED BY <2>1, <3>1, <3>4
  <2>4. CASE QuietStep
    BY <2>1, <2>2, <2>4 DEF QuietStep
  <2>5. CASE PullStep
    <3>1. PICK nb : /\ Ordered(nb, queue, Closed, Requests)
                    /\ queue' = nb.queue /\ entries' = entries \cup Range(nb.batch)
      BY <2>5 DEF PullStep
    <3> DEFINE B == Range(nb.batch)
    <3>2. nb.queue \in Seq(Requests) /\ Apart(B, nb.queue, queue, Closed)
      BY <1>1, <3>1, PulledApart DEF Inv, QueueInv
    <3> HIDE DEF B
    <3>3. queue' \in Seq(Requests) /\ Apart(B, queue', queue, Closed)
      BY <3>1, <3>2
    <3>4. DOMAIN queue' = 1..Len(queue')
      BY <3>3
    <3>5. s \in entries' => r \notin Range(queue')
      <4> SUFFICES ASSUME s \in entries', r \in Range(queue') PROVE FALSE
        OBVIOUS
      <4>1. s \in B
        BY <2>1, <3>1 DEF B
      <4>2. PICK i \in 1..Len(queue') : queue'[i] = r
        BY <3>4 DEF Range
      <4> QED BY <3>3, <4>1, <4>2 DEF Apart
    <3>6. ~Before(queue', s, r)
      <4>1. ~\E i, j \in 1..Len(queue') : i < j /\ queue'[i] = s /\ queue'[j] = r
        <5>1. \A m, n \in 1..Len(queue) : m < n =>
                ~\E i, j \in 1..Len(queue') :
                    i < j /\ queue'[i] = queue[n] /\ queue'[j] = queue[m]
          BY <3>3, Zenon DEF Apart
        <5> QED BY <5>1, Zenon
      <4> QED BY <3>4, <4>1, Zenon DEF Before
    <3> QED BY <3>5, <3>6
  <2> QED BY <1>1, <2>1, <2>3, <2>4, <2>5, StepKinds
<1>2. Inv /\ [Next]_vars => [Fair]_vars
  BY <1>1
<1> QED BY InvCorrect, <1>2, PTL DEF Spec, FirstComeFirstServed

-----------------------------------------------------------------------------
(* The server with chunking; its caches, until a prefill fails              *)

\* A batch with requests, each once.
Real(b) ==
    /\ b = Batch(b.id, b.reqs)
    /\ b.reqs \in Seq(Requests) /\ b.reqs # <<>> /\ IsInjective(b.reqs)

\* No prefill call has failed yet: after one that did, the shards may be left with
\* a batch the task no longer knows (the run batcher_prefill_error).
NoPrefillFailed == errors.prefill = 0

\* The cache of a shard that holds one batch.
Held(id, reqs) == [i \in {id} |-> reqs]

\* No shard caches a batch.
AllEmpty == NoPrefillFailed => cache = [s \in Shards |-> <<>>]
\* Every shard caches b and nothing else.
AllHold(b) == NoPrefillFailed => cache = [s \in Shards |-> Held(b.id, b.reqs)]

\* Between two rounds nothing runs and nothing is cached.
RestInv ==
    pc \in Resting => batches = <<>> /\ entries = {} /\ AllEmpty

\* b is the running batch, and what the shards cache.
Running(b) == batches = <<b>> /\ Real(b) /\ AllHold(b)

\* The entries are the requests of the running batch.
RunInv ==
    pc \in {"loop", "decode"} => Running(batches[1]) /\ entries = Ids(batches[1])

\* The new batch and the running one share no request, and the entries are theirs.
PrefillInv ==
    pc = "prefill" =>
        /\ Real(fresh)
        /\ \/ batches = <<>> /\ AllEmpty /\ entries = Ids(fresh)
           \/ /\ Running(batches[1])
              /\ Ids(batches[1]) \cap Ids(fresh) = {}
              /\ entries = Ids(batches[1]) \cup Ids(fresh)

\* After a call one batch is cached, and the entries are those of its requests
\* that go on.
FilterInv ==
    pc \in {"filterPrefill", "filterDecode"} =>
        /\ batches = <<>>
        /\ \/ fresh = None /\ AllEmpty /\ entries = {}
           \/ Real(fresh) /\ AllHold(fresh) /\ entries \subseteq Ids(fresh)

\* The inductive invariant of a server with chunking: it relates the entries of the
\* task, the batches it knows and, until a prefill fails, the caches of the shards.
ChunkInv ==
    /\ pc \in Locations \ {"dead"}
    /\ {"prefill", "decode"} \subseteq DOMAIN errors /\ errors.prefill \in Nat
    /\ NoStreamCut
    /\ RestInv /\ RunInv /\ PrefillInv /\ FilterInv

\* Concatenating no batch to the new one.
LEMMA ConcatNone ==
    ASSUME NEW R, NEW t \in Seq(R)
    PROVE  Concat(<<>>, t) = t
<1>1. [i \in DOMAIN <<>> |-> <<>>[i].reqs] = <<>>
  OBVIOUS
<1>2. FlattenSeq(<<>>) = <<>>
  BY DEF FlattenSeq
<1> QED BY <1>1, <1>2, ConcatEmptySeq DEF Concat

\* Concatenating the running batch and the new one.
LEMMA ConcatOne ==
    ASSUME NEW R, NEW b, b.reqs \in Seq(R), NEW t \in Seq(R)
    PROVE  Concat(<<b>>, t) = b.reqs \o t
<1> DEFINE q == b.reqs
           s == <<q>>
           Step(g, i) == IF i = 1 THEN s[i] ELSE g[i-1] \o s[i]
           Run(g) == g = [i \in 1..Len(s) |-> Step(g, i)]
<1>1. [i \in DOMAIN <<b>> |-> <<b>>[i].reqs] = s
  OBVIOUS
<1>2. Len(s) = 1 /\ s[1] = q
  OBVIOUS
<1>3. \E g : Run(g)
  <2> DEFINE g == [i \in 1..1 |-> q]
  <2>1. Run(g)
    BY <1>2
  <2> QED BY <2>1, Zenon
<1> DEFINE f == CHOOSE g : Run(g)
<1>4. Run(f)
  BY <1>3, Zenon
<1>5. FlattenSeq(s) = f[Len(s)]
  BY <1>2 DEF FlattenSeq
<1> HIDE DEF f, s
<1>6. f[1] = q
  BY <1>2, <1>4
<1> QED BY <1>1, <1>2, <1>5, <1>6 DEF Concat

\* Two batches that share no request have each request once together.
LEMMA ConcatInjective ==
    ASSUME NEW R, NEW a \in Seq(R), NEW b \in Seq(R), IsInjective(a), IsInjective(b),
           Range(a) \cap Range(b) = {}
    PROVE  /\ a \o b \in Seq(R) /\ IsInjective(a \o b)
           /\ Range(a \o b) = Range(a) \cup Range(b)
<1> DEFINE c == a \o b
           m == Len(a)
           n == Len(b)
<1>1. /\ c \in Seq(R) /\ m \in Nat /\ n \in Nat /\ DOMAIN c = 1..(m + n)
      /\ DOMAIN a = 1..m /\ DOMAIN b = 1..n
      /\ \A p \in 1..m : c[p] = a[p]
      /\ \A p \in 1..n : c[m + p] = b[p]
  BY ConcatProperties
<1> HIDE DEF c, m, n
<1>2. \A p \in 1..(m + n) :
        \/ p \in 1..m /\ c[p] = a[p]
        \/ p > m /\ p - m \in 1..n /\ c[p] = b[p - m]
  <2> TAKE p \in 1..(m + n)
  <2>1. CASE p <= m
    BY <1>1, <2>1
  <2>2. CASE p > m
    <3>1. p - m \in 1..n /\ m + (p - m) = p
      BY <1>1, <2>2
    <3> QED BY <1>1, <2>2, <3>1
  <2> QED BY <1>1, <2>1, <2>2
<1>3. \A p \in 1..m, o \in 1..n : a[p] # b[o]
  BY <1>1 DEF Range
<1>4. IsInjective(c)
  <2> SUFFICES ASSUME NEW p \in 1..(m + n), NEW o \in 1..(m + n), c[p] = c[o]
               PROVE  p = o
    BY <1>1 DEF IsInjective
  <2>1. CASE p \in 1..m /\ o \in 1..m
    BY <1>1, <2>1 DEF IsInjective
  <2>2. CASE p \in 1..m /\ o \notin 1..m
    <3>1. o - m \in 1..n /\ c[o] = b[o - m] /\ c[p] = a[p]
      BY <1>1, <1>2, <2>2
    <3> QED BY <1>3, <2>2, <3>1
  <2>3. CASE p \notin 1..m /\ o \in 1..m
    <3>1. p - m \in 1..n /\ c[p] = b[p - m] /\ c[o] = a[o]
      BY <1>1, <1>2, <2>3
    <3> QED BY <1>3, <2>3, <3>1
  <2>4. CASE p \notin 1..m /\ o \notin 1..m
    <3>1. p - m \in 1..n /\ o - m \in 1..n /\ b[p - m] = b[o - m]
      BY <1>2, <2>4
    <3>2. p - m = o - m
      BY <1>1, <3>1 DEF IsInjective
    <3> QED BY <1>1, <3>2
  <2> QED BY <2>1, <2>2, <2>3, <2>4
<1>5. Range(c) = Range(a) \cup Range(b)
  <2>1. \A p \in 1..m : p \in 1..(m + n)
    BY <1>1
  <2>2. \A p \in 1..n : m + p \in 1..(m + n)
    BY <1>1
  <2>3. /\ Range(c) = {c[p] : p \in 1..(m + n)}
        /\ Range(a) = {a[p] : p \in 1..m} /\ Range(b) = {b[p] : p \in 1..n}
    BY <1>1 DEF Range
  <2>4. \A x \in Range(c) : x \in Range(a) \/ x \in Range(b)
    BY <1>2, <2>3
  <2>5. \A x \in Range(a) : x \in Range(c)
    BY <1>1, <2>1, <2>3
  <2>6. \A x \in Range(b) : x \in Range(c)
    BY <1>1, <2>2, <2>3
  <2> QED BY <2>4, <2>5, <2>6
<1> QED BY <1>1, <1>4, <1>5 DEF c

\* A sublist of a queue without duplicates has none.
LEMMA SublistInjective ==
    ASSUME NEW R, NEW c \in Seq(R), NEW q \in Seq(R), NEW C, Sublist(c, q, C, Len(q)),
           IsInjective(q)
    PROVE  IsInjective(c)
<1>1. /\ DOMAIN c = 1..Len(c) /\ DOMAIN q = 1..Len(q)
      /\ Len(c) \in Nat /\ Len(q) \in Nat
  OBVIOUS
<1>2. \A p1, p2 \in 1..Len(c) : p1 < p2 => c[p1] # c[p2]
  <2> SUFFICES ASSUME NEW p1 \in 1..Len(c), NEW p2 \in 1..Len(c), p1 < p2
               PROVE  c[p1] # c[p2]
    OBVIOUS
  <2>1. PICK i, j \in 1..Len(q) : i < j /\ q[i] = c[p1] /\ q[j] = c[p2]
    BY DEF Sublist
  <2>2. q[i] # q[j]
    BY <1>1, <2>1 DEF IsInjective
  <2> QED BY <2>1, <2>2
<1> QED BY <1>1, <1>2 DEF IsInjective

\* next_batch returns each request once.
LEMMA PulledInjective ==
    ASSUME NEW R, NEW nb, NEW C, NEW q \in Seq(R), Ordered(nb, q, C, R), IsInjective(q)
    PROVE  nb.batch \in Seq(R) /\ IsInjective(nb.batch)
<1> DEFINE b == nb.batch
           t == nb.queue
           c == b \o t
<1>1. b \in Seq(R) /\ t \in Seq(R) /\ Sublist(c, q, C, Len(q))
  BY DEF Ordered
<1> HIDE DEF b, t
<1>2. /\ c \in Seq(R) /\ DOMAIN b = 1..Len(b) /\ DOMAIN c = 1..(Len(b) + Len(t))
      /\ Len(b) \in Nat /\ Len(t) \in Nat
      /\ \A p \in 1..Len(b) : c[p] = b[p]
  BY <1>1, ConcatProperties
<1> HIDE DEF c
<1>3. IsInjective(c)
  BY <1>1, <1>2, SublistInjective
<1>4. \A p \in 1..Len(b) : p \in DOMAIN c
  BY <1>2
<1>5. IsInjective(b)
  BY <1>2, <1>3, <1>4 DEF IsInjective
<1> QED BY <1>1, <1>5 DEF b

\* Filtering a batch leaves exactly the requests it is asked to keep, each once.
LEMMA OnlySublist ==
    ASSUME NEW R, NEW s \in Seq(R), NEW S, IsInjective(s)
    PROVE  /\ Only(s, S) \in Seq(R) /\ IsInjective(Only(s, S))
           /\ Range(Only(s, S)) = Range(s) \cap S
<1> DEFINE n == Len(s)
           f == OnlyStates(s, S)
           Good(c, i) == /\ c \in Seq(R) /\ Sublist(c, s, R \ S, i)
                         /\ \A p \in 1..Len(c) : c[p] \in S
           T == {i \in 0..n : Good(f[i], i)}
<1>1. n \in Nat /\ \A i \in 1..n : s[i] \in R
  OBVIOUS
<1>2. f[0] = <<>> /\ \A i \in 1..n : f[i] = OnlyStep(f[i - 1], s[i], S)
  BY <1>1, OnlyStatesDef
<1> HIDE DEF f
<1>3. 0 \in T
  <2>1. <<>> \in Seq(R) /\ Len(<<>>) = 0 /\ 1..0 = {}
    OBVIOUS
  <2>2. Sublist(<<>>, s, R \ S, 0)
    BY <2>1 DEF Sublist
  <2>3. Good(<<>>, 0)
    BY <2>1, <2>2
  <2>4. 0 \in 0..n
    BY <1>1
  <2> QED BY <1>2, <2>3, <2>4, Zenon
<1>4. ASSUME NEW i \in 1..n, i - 1 \in T PROVE i \in T
  <2> DEFINE c == f[i - 1]
             x == s[i]
  <2>1. Good(c, i - 1)
    BY <1>4
  <2>2. x \in R /\ f[i] = OnlyStep(c, x, S) /\ i \in Nat \ {0} /\ i \in 0..n
    BY <1>1, <1>2
  <2>3. CASE x \in S
    <3>1. f[i] = Append(c, x)
      BY <2>2, <2>3 DEF OnlyStep
    <3>2. Sublist(Append(c, x), s, R \ S, i)
      BY <2>1, <2>2, SublistAppend
    <3> HIDE DEF c, x
    <3>3. Append(c, x) \in Seq(R) /\ \A p \in 1..Len(Append(c, x)) : Append(c, x)[p] \in S
      BY <2>1, <2>2, <2>3
    <3>4. Good(f[i], i)
      BY <3>1, <3>2, <3>3, Zenon
    <3> QED BY <2>2, <3>4
  <2>4. CASE x \notin S
    <3>1. f[i] = c
      BY <2>2, <2>4 DEF OnlyStep
    <3>2. Sublist(c, s, R \ S, i)
      BY <2>1, <2>2, <2>4, SublistSkip
    <3> HIDE DEF c
    <3>3. Good(f[i], i)
      BY <2>1, <3>1, <3>2, Zenon
    <3> QED BY <2>2, <3>3
  <2> QED BY <2>3, <2>4
<1>5. Good(f[n], n)
  <2>1. 0..n \subseteq T
    <3> HIDE DEF T
    <3>1. \A m \in 1..n : m - 1 \in T => m \in T
      BY <1>4
    <3> QED BY <1>1, <1>3, <3>1, IntervalInduction
  <2>2. n \in 0..n
    BY <1>1
  <2> QED BY <2>1, <2>2
<1> DEFINE c == Only(s, S)
<1>6. c = f[n]
  BY DEF Only, f
<1>7. Good(c, n)
  BY <1>5, <1>6
<1> HIDE DEF c
<1>8. IsInjective(c)
  BY <1>7, SublistInjective
<1>9. Range(c) = Range(s) \cap S
  <2>1. DOMAIN c = 1..Len(c) /\ DOMAIN s = 1..n
    BY <1>7
  <2>2. ASSUME NEW x \in Range(c) PROVE x \in Range(s) \cap S
    BY <1>7, <2>1, <2>2 DEF Range, Sublist
  <2>3. ASSUME NEW x \in Range(s), x \in S PROVE x \in Range(c)
    <3>1. PICK i \in 1..n : s[i] = x
      BY <2>1 DEF Range
    <3>2. s[i] \notin R \ S
      BY <2>3, <3>1
    <3>3. PICK p \in 1..Len(c) : c[p] = s[i]
      BY <1>7, <3>2 DEF Sublist
    <3> QED BY <2>1, <3>1, <3>3 DEF Range
  <2> QED BY <2>2, <2>3
<1> QED BY <1>7, <1>8, <1>9 DEF c

\* The comparison of lengths in filter_batch: entries that are as many as the
\* requests of a batch, and among them, are those requests.
LEMMA SameLength ==
    ASSUME NEW R, NEW s \in Seq(R), IsInjective(s), NEW E, E \subseteq Range(s)
    PROVE  /\ IsFiniteSet(E) /\ Cardinality(E) <= Len(s)
           /\ Cardinality(E) = Len(s) => E = Range(s)
<1> DEFINE n == Len(s)
           Q == Range(s)
<1>1. n \in Nat /\ DOMAIN s = 1..n /\ Q = {s[i] : i \in 1..n}
  BY DEF Range
<1>2. s \in Bijection(1..n, Q)
  BY <1>1 DEF Bijection, Injection, Surjection, IsInjective
<1>3. ExistsBijection(1..n, Q)
  BY <1>2 DEF ExistsBijection
<1>4. IsFiniteSet(Q) /\ Cardinality(Q) = n
  BY <1>1, <1>3, FS_CountingElements, FS_NatBijection
<1> HIDE DEF Q, n
<1>5. E \subseteq Q
  BY DEF Q
<1>6. /\ IsFiniteSet(E) /\ Cardinality(E) <= n
      /\ Cardinality(E) = n => E = Q
  BY <1>4, <1>5, FS_Subset
<1> QED BY <1>6 DEF n, Q

\* Taking a batch out of an empty cache.
LEMMA PopNone ==
    ASSUME NEW ids
    PROVE  Pop(<<>>, ids) = <<>>
  BY DEF Pop

\* Taking out the only batch leaves the cache empty.
LEMMA PopHeld ==
    ASSUME NEW id, NEW reqs
    PROVE  Pop(Held(id, reqs), {id}) = <<>>
  BY DEF Pop, Held

\* A batch whose requests all stopped is not cached.
LEMMA KeepStopped ==
    ASSUME NEW id, NEW reqs, NEW S, S = Range(reqs)
    PROVE  Keep(<<>>, id, reqs, S) = <<>>
  BY DEF Keep

\* A batch that goes on is cached under its id.
LEMMA KeepHeld ==
    ASSUME NEW id, NEW reqs, NEW S, S # Range(reqs)
    PROVE  Keep(<<>>, id, reqs, S) = Held(id, reqs)
  BY DEF Keep, Held

\* After a forward pass over exactly the requests of the entries the task does not
\* panic, cuts no stream, and is ready to filter.
LEMMA PassStep ==
    ASSUME NEW reqs \in Seq(Requests), reqs # <<>>, IsInjective(reqs),
           NEW id, NEW S \in Stops(reqs), NEW next, next \in {"filterPrefill", "filterDecode"},
           entries = Range(reqs), NoStreamCut,
           NoPrefillFailed => cache' = [s \in Shards |-> Keep(<<>>, id, reqs, S)],
           SendGenerations(reqs, S, next),
           fresh' = IF S = Range(reqs) THEN None ELSE Batch(id, reqs),
           batches' = <<>>, errors' = errors
    PROVE  pc' = next /\ FilterInv' /\ NoStreamCut'
<1>1. S \subseteq Emitting(reqs) /\ Emitting(reqs) \subseteq Range(reqs)
  BY DEF Stops, Emitting
<1> DEFINE E == Emitting(reqs)
<1>2. /\ client' = [r \in Requests |->
                       IF r \in S /\ client[r] = "open" THEN "ended" ELSE client[r]]
      /\ entries' = entries \ (S \cup (E \cap Closed))
      /\ pc' = next
  BY <1>1 DEF SendGenerations
<1>3. NoStreamCut'
  BY <1>2 DEF NoStreamCut
<1>4. CASE S = Range(reqs)
  <2>1. Keep(<<>>, id, reqs, S) = <<>>
    BY <1>4, KeepStopped
  <2>2. fresh' = None /\ AllEmpty' /\ entries' = {}
    BY <1>2, <1>4, <2>1 DEF AllEmpty, NoPrefillFailed
  <2> QED BY <1>2, <1>3, <2>2 DEF FilterInv
<1>5. CASE S # Range(reqs)
  <2>1. Keep(<<>>, id, reqs, S) = Held(id, reqs)
    BY <1>5, KeepHeld
  <2>2. fresh' = Batch(id, reqs) /\ fresh'.id = id /\ fresh'.reqs = reqs
    BY <1>5 DEF Batch
  <2>3. Real(fresh)'
    BY <2>2 DEF Real
  <2>4. AllHold(fresh)'
    BY <2>1, <2>2 DEF AllHold, NoPrefillFailed
  <2>5. entries' \subseteq Ids(fresh)'
    BY <1>2, <2>2 DEF Ids
  <2> QED BY <1>2, <1>3, <2>3, <2>4, <2>5 DEF FilterInv
<1> QED BY <1>4, <1>5

\* What the running batch and the new one are together, as a pass sees them.
LEMMA TogetherFacts ==
    ASSUME NEW a, NEW b, Real(a), Real(b), Ids(a) \cap Ids(b) = {}
    PROVE  /\ Concat(<<a>>, b.reqs) = a.reqs \o b.reqs
           /\ a.reqs \o b.reqs \in Seq(Requests) /\ a.reqs \o b.reqs # <<>>
           /\ IsInjective(a.reqs \o b.reqs)
           /\ Range(a.reqs \o b.reqs) = Ids(a) \cup Ids(b)
<1> DEFINE q == a.reqs
           t == b.reqs
<1>1. /\ q \in Seq(Requests) /\ q # <<>> /\ IsInjective(q)
      /\ t \in Seq(Requests) /\ t # <<>> /\ IsInjective(t)
      /\ Range(q) \cap Range(t) = {}
  BY DEF Real, Ids
<1>2. Concat(<<a>>, b.reqs) = q \o t
  BY <1>1, ConcatOne
<1> HIDE DEF q, t
<1>3. /\ q \o t \in Seq(Requests) /\ IsInjective(q \o t)
      /\ Range(q \o t) = Range(q) \cup Range(t)
  BY <1>1, ConcatInjective
<1>4. q \o t # <<>>
  BY <1>1
<1> QED BY <1>2, <1>3, <1>4 DEF q, t, Ids

\* Decoding a single batch is decoding its requests.
LEMMA AloneFacts ==
    ASSUME NEW a, Real(a)
    PROVE  Concat(<<a>>, <<>>) = a.reqs
<1> DEFINE q == a.reqs
<1>1. q \in Seq(Requests) /\ <<>> \in Seq(Requests)
  BY DEF Real
<1>2. Concat(<<a>>, <<>>) = q \o <<>>
  BY <1>1, ConcatOne
<1> HIDE DEF q
<1>3. q \o <<>> = q
  BY <1>1, ConcatEmptySeq
<1> QED BY <1>2, <1>3 DEF q

\* A call with the running batch takes it out of every cache.
LEMMA HoldPop ==
    ASSUME NEW b, Running(b)
    PROVE  /\ CachedIds(batches) = {b.id} /\ batches[1] = b /\ batches # <<>>
           /\ NoPrefillFailed => \A s \in Shards : Pop(cache[s], {b.id}) = <<>>
<1>1. batches = <<b>>
  BY DEF Running
<1>2. CachedIds(batches) = {b.id} /\ batches[1] = b /\ batches # <<>>
  BY <1>1 DEF CachedIds
<1> DEFINE id == b.id
           reqs == b.reqs
<1>3. NoPrefillFailed => \A s \in Shards : cache[s] = Held(id, reqs)
  BY DEF Running, AllHold
<1> HIDE DEF id, reqs
<1>4. NoPrefillFailed => \A s \in Shards : Pop(cache[s], {id}) = <<>>
  BY <1>3, PopHeld
<1> QED BY <1>2, <1>4 DEF id

\* A prefill that succeeds keeps the invariant: the running batch goes along.
LEMMA ChunkPrefill ==
    ASSUME SupportChunking, ChunkInv, NEW S, PrefillSucceeds(S)
    PROVE  ChunkInv'
<1>1. /\ pc = "prefill" /\ Real(fresh) /\ NoStreamCut
      /\ \/ batches = <<>> /\ AllEmpty /\ entries = Ids(fresh)
         \/ /\ Running(batches[1]) /\ Ids(batches[1]) \cap Ids(fresh) = {}
            /\ entries = Ids(batches[1]) \cup Ids(fresh)
  BY DEF PrefillSucceeds, ChunkInv, PrefillInv
<1> DEFINE reqs == PrefillReqs
           id == PrefillId
<1>2. /\ reqs \in Seq(Requests) /\ reqs # <<>> /\ IsInjective(reqs)
      /\ entries = Range(reqs)
      /\ NoPrefillFailed => \A s \in Shards : Pop(cache[s], PrefillIds) = <<>>
  <2>1. CASE batches = <<>> /\ AllEmpty /\ entries = Ids(fresh)
    <3>1. reqs = fresh.reqs
      <4> DEFINE t == fresh.reqs
      <4>1. t \in Seq(Requests)
        BY <1>1 DEF Real
      <4>2. reqs = Concat(<<>>, t)
        BY <2>1 DEF PrefillReqs
      <4> HIDE DEF t
      <4>3. reqs = t
        BY <4>1, <4>2, ConcatNone
      <4> QED BY <4>3 DEF t
    <3>2. NoPrefillFailed => \A s \in Shards : Pop(cache[s], PrefillIds) = <<>>
      BY <2>1, PopNone DEF AllEmpty
    <3> QED BY <1>1, <2>1, <3>1, <3>2 DEF Real, Ids
  <2>2. CASE /\ Running(batches[1]) /\ Ids(batches[1]) \cap Ids(fresh) = {}
             /\ entries = Ids(batches[1]) \cup Ids(fresh)
    <3> DEFINE b == batches[1]
    <3>1. Real(b) /\ batches = <<b>>
      BY <2>2 DEF Running
    <3>2. reqs = Concat(<<b>>, fresh.reqs)
      BY <3>1 DEF PrefillReqs
    <3>3. /\ Concat(<<b>>, fresh.reqs) = b.reqs \o fresh.reqs
          /\ b.reqs \o fresh.reqs \in Seq(Requests) /\ b.reqs \o fresh.reqs # <<>>
          /\ IsInjective(b.reqs \o fresh.reqs)
          /\ Range(b.reqs \o fresh.reqs) = Ids(b) \cup Ids(fresh)
      BY <1>1, <2>2, <3>1, TogetherFacts
    <3>4. PrefillIds = {b.id}
      BY <2>2, HoldPop DEF PrefillIds
    <3>5. NoPrefillFailed => \A s \in Shards : Pop(cache[s], PrefillIds) = <<>>
      BY <2>2, <3>4, HoldPop
    <3> HIDE DEF b
    <3> QED BY <2>2, <3>2, <3>3, <3>5, Zenon DEF b
  <2> QED BY <1>1, <2>1, <2>2
<1>3. /\ S \in Stops(reqs)
      /\ cache' = [s \in Shards |-> Keep(Pop(cache[s], PrefillIds), id, reqs, S)]
      /\ SendGenerations(reqs, S, "filterPrefill")
      /\ fresh' = IF S = Range(reqs) THEN None ELSE Batch(id, reqs)
      /\ batches' = <<>> /\ errors' = errors
  BY DEF PrefillSucceeds
<1> HIDE DEF reqs, id
<1>4. NoPrefillFailed => cache' = [s \in Shards |-> Keep(<<>>, id, reqs, S)]
  BY <1>2, <1>3
<1>5. pc' = "filterPrefill" /\ FilterInv' /\ NoStreamCut'
  <2>1. NoStreamCut /\ "filterPrefill" \in {"filterPrefill", "filterDecode"}
    BY <1>1
  <2>2. /\ reqs \in Seq(Requests) /\ reqs # <<>> /\ IsInjective(reqs)
        /\ entries = Range(reqs)
    BY <1>2
  <2>3. /\ S \in Stops(reqs) /\ SendGenerations(reqs, S, "filterPrefill")
        /\ fresh' = IF S = Range(reqs) THEN None ELSE Batch(id, reqs)
        /\ batches' = <<>> /\ errors' = errors
    BY <1>3
  <2> QED BY <1>4, <2>1, <2>2, <2>3, PassStep
<1> QED BY <1>3, <1>5 DEF ChunkInv, RestInv, RunInv, PrefillInv, Resting, Locations

\* A decode that succeeds keeps the invariant.
LEMMA ChunkDecode ==
    ASSUME ChunkInv, NEW S, DecodeSucceeds(S)
    PROVE  ChunkInv'
<1> DEFINE b == batches[1]
           reqs == DecodeReqs
           id == b.id
<1>1. pc = "decode" /\ Running(b) /\ entries = Ids(b) /\ NoStreamCut
  BY DEF DecodeSucceeds, ChunkInv, RunInv
<1>2. Real(b) /\ batches = <<b>>
  BY <1>1 DEF Running
<1>3. reqs = b.reqs
  BY <1>2, AloneFacts DEF DecodeReqs
<1>4. /\ CachedIds(batches) = {b.id}
      /\ NoPrefillFailed => \A s \in Shards : Pop(cache[s], CachedIds(batches)) = <<>>
  BY <1>1, HoldPop
<1>5. /\ S \in Stops(reqs)
      /\ cache' = [s \in Shards |-> Keep(Pop(cache[s], CachedIds(batches)), id, reqs, S)]
      /\ SendGenerations(reqs, S, "filterDecode")
      /\ fresh' = IF S = Range(reqs) THEN None ELSE Batch(id, reqs)
      /\ batches' = <<>> /\ errors' = errors
  BY DEF DecodeSucceeds
<1>6. /\ reqs \in Seq(Requests) /\ reqs # <<>> /\ IsInjective(reqs)
      /\ entries = Range(reqs)
  BY <1>1, <1>2, <1>3 DEF Real, Ids
<1> HIDE DEF reqs, b, id
<1>7. NoPrefillFailed => cache' = [s \in Shards |-> Keep(<<>>, id, reqs, S)]
  BY <1>4, <1>5
<1>8. pc' = "filterDecode" /\ FilterInv' /\ NoStreamCut'
  BY <1>1, <1>5, <1>6, <1>7, PassStep
<1> QED BY <1>5, <1>8 DEF ChunkInv, RestInv, RunInv, PrefillInv, Resting, Locations

\* A decode that fails on some shards is followed by a clear_cache on all of them.
LEMMA ChunkDecodeFails ==
    ASSUME ChunkInv, NEW S, NEW o, DecodeFails(o, S)
    PROVE  ChunkInv'
<1> DEFINE b == batches[1]
           id == b.id
           reqs == DecodeReqs
<1>1. pc = "decode" /\ Running(b) /\ NoStreamCut
  BY DEF DecodeFails, ChunkInv, RunInv
<1>2. /\ CachedIds(batches) = {id}
      /\ NoPrefillFailed => \A s \in Shards : Pop(cache[s], {id}) = <<>>
  BY <1>1, HoldPop
<1>3. /\ o \in [Shards -> {"done", "early", "late"}]
      /\ cache' = [s \in Shards |->
            Pop(CacheAfter(s, o, CachedIds(batches), id, reqs, S), CachedIds(batches))]
      /\ SendErrors /\ errors' = [errors EXCEPT !.decode = @ + 1]
      /\ batches' = <<>> /\ pc' = "outer"
  BY DEF DecodeFails, Outcomes
<1> HIDE DEF b, id, reqs
<1>4. ASSUME NEW s \in Shards, NoPrefillFailed
      PROVE  Pop(CacheAfter(s, o, {id}, id, reqs, S), {id}) = <<>>
  <2>1. o[s] \in {"done", "early", "late"}
    BY <1>3
  <2>2. CASE o[s] = "done"
    <3>1. CacheAfter(s, o, {id}, id, reqs, S) = Keep(<<>>, id, reqs, S)
      BY <1>2, <1>4, <2>2 DEF CacheAfter
    <3>2. CASE S = Range(reqs)
      BY <3>1, <3>2, KeepStopped, PopNone
    <3>3. CASE S # Range(reqs)
      BY <3>1, <3>3, KeepHeld, PopHeld
    <3> QED BY <3>2, <3>3
  <2>3. CASE o[s] = "early"
    <3>1. CacheAfter(s, o, {id}, id, reqs, S) = cache[s]
      BY <2>3 DEF CacheAfter
    <3> QED BY <1>2, <1>4, <3>1
  <2>4. CASE o[s] = "late"
    <3>1. CacheAfter(s, o, {id}, id, reqs, S) = <<>>
      BY <1>2, <1>4, <2>4 DEF CacheAfter
    <3> QED BY <3>1, PopNone
  <2> QED BY <2>1, <2>2, <2>3, <2>4
<1>5. AllEmpty'
  <2>1. errors'.prefill = errors.prefill
    BY <1>3, Zenon DEF ChunkInv
  <2> QED BY <1>2, <1>3, <1>4, <2>1 DEF AllEmpty, NoPrefillFailed
<1>6. entries' = {} /\ NoStreamCut'
  BY <1>1, <1>3 DEF SendErrors, NoStreamCut
<1>7. {"prefill", "decode"} \subseteq DOMAIN errors' /\ errors'.prefill \in Nat
  BY <1>3, Zenon DEF ChunkInv
<1> QED
  BY <1>3, <1>5, <1>6, <1>7
     DEF ChunkInv, RestInv, RunInv, PrefillInv, FilterInv, Resting, Locations

\* filter_batch leaves the same requests with the task and on every shard; with none
\* left it clears the cache, and the entries it drops have been answered.
LEMMA ChunkFilter ==
    ASSUME SupportChunking, ChunkInv, Filter
    PROVE  ChunkInv'
<1> DEFINE F == Filtered
<1>1. /\ batches = <<>> /\ NoStreamCut
      /\ \/ fresh = None /\ AllEmpty /\ entries = {}
         \/ Real(fresh) /\ AllHold(fresh) /\ entries \subseteq Ids(fresh)
  BY DEF Filter, ChunkInv, FilterInv
<1>2. /\ cache' = [s \in Shards |-> CacheFiltered(s)]
      /\ batches' = IF F = None THEN batches ELSE Append(batches, F)
      /\ IF F = None THEN pc' = "outer" ELSE pc' \in {"decode", "loop"}
      /\ IF pc' = "outer" THEN Abandon ELSE UNCHANGED <<client, entries>>
      /\ errors' = errors
  BY DEF Filter, AfterEmptyPrefill
<1>3. \/ F = None /\ entries = {} /\ AllEmpty'
      \/ Real(F) /\ F # None /\ entries = Ids(F)
         /\ (NoPrefillFailed => cache' = [s \in Shards |-> Held(F.id, F.reqs)])
  <2>1. CASE fresh = None /\ AllEmpty /\ entries = {}
    <3>1. F = None /\ \A s \in Shards : CacheFiltered(s) = cache[s]
      BY <2>1 DEF Filtered, CacheFiltered, NothingToFilter
    <3> QED BY <1>2, <2>1, <3>1 DEF AllEmpty, NoPrefillFailed
  <2>2. CASE Real(fresh) /\ AllHold(fresh) /\ entries \subseteq Ids(fresh)
    <3> DEFINE reqs == fresh.reqs
               id == fresh.id
    <3>1. /\ fresh = Batch(id, reqs) /\ reqs \in Seq(Requests) /\ reqs # <<>>
          /\ IsInjective(reqs) /\ entries \subseteq Range(reqs)
          /\ NoPrefillFailed => \A s \in Shards : cache[s] = Held(id, reqs)
      BY <2>2 DEF Real, AllHold, Ids
    <3>2. fresh # None
      BY <3>1 DEF None, Batch
    <3>3. Cardinality(entries) = Len(reqs) => entries = Range(reqs)
      BY <3>1, SameLength
    <3>4. CASE Len(reqs) = Cardinality(entries)
      <4>1. NothingToFilter
        BY <3>4 DEF NothingToFilter
      <4>2. F = fresh /\ \A s \in Shards : CacheFiltered(s) = cache[s]
        BY <4>1 DEF Filtered, CacheFiltered
      <4> QED BY <1>2, <2>2, <3>1, <3>2, <3>3, <3>4, <4>2 DEF Ids
    <3>5. CASE Len(reqs) # Cardinality(entries)
      <4>1. ~NothingToFilter
        BY <3>2, <3>5 DEF NothingToFilter
      <4>2. Retained = entries
        BY <2>2 DEF Retained
      <4>3. CASE entries = {}
        <5>1. F = None /\ \A s \in Shards : CacheFiltered(s) = Pop(cache[s], {id})
          BY <4>1, <4>2, <4>3 DEF Filtered, CacheFiltered
        <5> HIDE DEF id, reqs
        <5>2. ASSUME NoPrefillFailed, NEW s \in Shards PROVE Pop(cache[s], {id}) = <<>>
          BY <3>1, <5>2, PopHeld
        <5> QED BY <1>2, <4>3, <5>1, <5>2 DEF AllEmpty, NoPrefillFailed
      <4>4. CASE entries # {}
        <5> DEFINE left == Only(reqs, entries)
        <5>1. FilterShard(reqs, entries) = left
          BY <3>5 DEF FilterShard
        <5>2. F = Batch(id, left)
          BY <4>1, <4>2, <4>4, <5>1 DEF Filtered
        <5>3. ASSUME NoPrefillFailed, NEW s \in Shards
              PROVE  CacheFiltered(s) = Held(id, left)
          <6>1. CacheFiltered(s) = [cache[s] EXCEPT ![id] = FilterShard(cache[s][id], entries)]
            BY <4>1, <4>2, <4>4 DEF CacheFiltered
          <6> HIDE DEF id, reqs, left
          <6> QED BY <3>1, <5>1, <5>3, <6>1 DEF Held
        <5>4. /\ left \in Seq(Requests) /\ IsInjective(left)
              /\ Range(left) = entries
          <6> HIDE DEF reqs
          <6>1. /\ left \in Seq(Requests) /\ IsInjective(left)
                /\ Range(left) = Range(reqs) \cap entries
            BY <3>1, OnlySublist
          <6> HIDE DEF left
          <6> QED BY <3>1, <6>1
        <5> HIDE DEF left, id, reqs
        <5>5. left # <<>>
          BY <4>4, <5>4 DEF Range
        <5>6. F.id = id /\ F.reqs = left
          BY <5>2 DEF Batch
        <5>7. Real(F) /\ F # None /\ entries = Ids(F)
          BY <5>2, <5>4, <5>5, <5>6 DEF Real, None, Batch, Ids
        <5> QED BY <1>2, <5>3, <5>6, <5>7
      <4> QED BY <4>3, <4>4
    <3> QED BY <3>4, <3>5
  <2> QED BY <1>1, <2>1, <2>2
<1> HIDE DEF F
<1>4. CASE F = None /\ entries = {} /\ AllEmpty'
  <2>1. pc' = "outer" /\ Abandon /\ batches' = <<>>
    BY <1>1, <1>2, <1>4
  <2>2. entries' = {} /\ NoStreamCut'
    BY <1>1, <1>4, <2>1 DEF Abandon, NoStreamCut
  <2> QED
    BY <1>2, <1>4, <2>1, <2>2
       DEF ChunkInv, RestInv, RunInv, PrefillInv, FilterInv, Resting, Locations
<1>5. CASE /\ Real(F) /\ F # None /\ entries = Ids(F)
           /\ (NoPrefillFailed => cache' = [s \in Shards |-> Held(F.id, F.reqs)])
  <2>1. /\ pc' \in {"decode", "loop"} /\ batches' = <<F>>
        /\ client' = client /\ entries' = entries
    BY <1>1, <1>2, <1>5
  <2>2. batches'[1] = F
    BY <2>1
  <2>3. Running(batches[1])'
    BY <1>2, <1>5, <2>1, <2>2 DEF Running, AllHold, Real, NoPrefillFailed
  <2>4. entries' = Ids(batches[1])'
    BY <1>5, <2>1, <2>2 DEF Ids
  <2>5. NoStreamCut'
    BY <1>1, <2>1 DEF NoStreamCut
  <2> QED
    BY <1>2, <2>1, <2>3, <2>4, <2>5
       DEF ChunkInv, RestInv, RunInv, PrefillInv, FilterInv, Resting, Locations
<1> QED BY <1>3, <1>4, <1>5

\* The first pull of a round keeps the invariant.
LEMMA ChunkPullFirst ==
    ASSUME Inv, ChunkInv, PullFirst
    PROVE  ChunkInv'
<1> DEFINE nb == NextBatch(queue, Closed, 0, MaxBatchSize, MaxBatchPrefillTokens,
                           MaxBatchTotalTokens, FreeBlocks)
<1>1. pc = "outer" /\ batches = <<>> /\ entries = {} /\ AllEmpty /\ NoStreamCut
  BY DEF PullFirst, ChunkInv, RestInv, Resting
<1>2. \/ /\ pc' = "start"
         /\ UNCHANGED <<clientVars, entries, batches, cache, errors>>
      \/ nb.batch # NoBatch /\ Admit(nb) /\ entries' = Range(nb.batch)
  BY Zenon DEF PullFirst, shardVars
<1>3. queue \in Seq(Requests) /\ IsInjective(queue)
  BY DEF Inv, QueueInv, IsInjective
<1>4. Ordered(nb, queue, Closed, Requests)
  BY <1>3, NextBatchOrdered
<1> HIDE DEF nb
<1>5. CASE /\ pc' = "start"
           /\ UNCHANGED <<clientVars, entries, batches, cache, errors>>
  BY <1>1, <1>5
     DEF clientVars, ChunkInv, NoStreamCut, RestInv, RunInv, PrefillInv, FilterInv,
         AllEmpty, NoPrefillFailed, Resting, Locations
<1>6. CASE nb.batch # NoBatch /\ Admit(nb) /\ entries' = Range(nb.batch)
  <2>1. /\ fresh' = Batch(nextId, nb.batch) /\ pc' = "prefill"
        /\ UNCHANGED <<client, batches, cache, errors>>
    BY <1>6 DEF Admit, clientVars
  <2> DEFINE reqs == nb.batch
  <2>2. reqs \in Seq(Requests) /\ IsInjective(reqs) /\ reqs # <<>>
    BY <1>3, <1>4, <1>6, PulledInjective DEF NoBatch
  <2>3. fresh' = Batch(nextId, reqs) /\ entries' = Range(reqs)
    BY <1>6, <2>1
  <2> HIDE DEF reqs
  <2>4. fresh'.id = nextId /\ fresh'.reqs = reqs
    BY <2>3 DEF Batch
  <2>5. Real(fresh)' /\ entries' = Ids(fresh)'
    BY <2>2, <2>3, <2>4 DEF Real, Ids
  <2>6. batches' = <<>> /\ AllEmpty' /\ NoStreamCut'
    BY <1>1, <2>1 DEF AllEmpty, NoPrefillFailed, NoStreamCut
  <2> QED
    BY <2>1, <2>5, <2>6
       DEF ChunkInv, RestInv, RunInv, PrefillInv, FilterInv, Resting, Locations
<1> QED BY <1>2, <1>5, <1>6

\* Requests that join the running batch are not in it.
LEMMA ChunkPullMore ==
    ASSUME Inv, ChunkInv, PullMore
    PROVE  ChunkInv'
<1> DEFINE b == batches[1]
           nb == NextBatch(queue, Closed, MinSize(b), MaxSize(b), PrefillBudget(b),
                           Minus(MaxBatchTotalTokens, BatchTokens(b)), FreeBlocks)
<1>1. pc = "loop" /\ Running(b) /\ entries = Ids(b) /\ NoStreamCut
  BY DEF PullMore, ChunkInv, RunInv
<1>2. \/ /\ pc' = "decode"
         /\ UNCHANGED <<clientVars, entries, batches, cache, errors>>
      \/ nb.batch # NoBatch /\ Admit(nb) /\ entries' = entries \cup Range(nb.batch)
  BY Zenon DEF PullMore, shardVars
<1>3. queue \in Seq(Requests) /\ IsInjective(queue)
  BY DEF Inv, QueueInv, IsInjective
<1>4. Ordered(nb, queue, Closed, Requests)
  BY <1>3, NextBatchOrdered
<1> HIDE DEF nb
<1>5. CASE /\ pc' = "decode"
           /\ UNCHANGED <<clientVars, entries, batches, cache, errors>>
  BY <1>1, <1>5
     DEF clientVars, ChunkInv, NoStreamCut, RestInv, RunInv, PrefillInv, FilterInv,
         Running, AllHold, NoPrefillFailed, Resting, Locations
<1>6. CASE nb.batch # NoBatch /\ Admit(nb) /\ entries' = entries \cup Range(nb.batch)
  <2>1. /\ fresh' = Batch(nextId, nb.batch) /\ pc' = "prefill"
        /\ UNCHANGED <<client, batches, cache, errors>>
    BY <1>6 DEF Admit, clientVars
  <2> DEFINE reqs == nb.batch
  <2>2. reqs \in Seq(Requests) /\ IsInjective(reqs) /\ reqs # <<>>
    BY <1>3, <1>4, <1>6, PulledInjective DEF NoBatch
  <2>3. fresh' = Batch(nextId, reqs) /\ entries' = entries \cup Range(reqs)
    BY <1>6, <2>1
  <2>4. Apart(Range(reqs), nb.queue, queue, Closed)
    BY <1>3, <1>4, PulledApart DEF IsInjective
  <2> HIDE DEF reqs
  <2>5. entries \cap Range(reqs) = {}
    BY <2>4 DEF Apart, Inv, OwnerInv
  <2>6. fresh'.id = nextId /\ fresh'.reqs = reqs
    BY <2>3 DEF Batch
  <2>7. Real(fresh)' /\ Ids(fresh)' = Range(reqs)
    BY <2>2, <2>3, <2>6 DEF Real, Ids
  <2>8. batches'[1] = b /\ Running(batches[1])' /\ NoStreamCut'
    BY <1>1, <2>1 DEF Running, AllHold, NoPrefillFailed, NoStreamCut
  <2>9. /\ Ids(batches[1])' \cap Ids(fresh)' = {}
        /\ entries' = Ids(batches[1])' \cup Ids(fresh)'
    BY <1>1, <2>1, <2>3, <2>5, <2>7, <2>8 DEF Ids
  <2> QED
    BY <2>1, <2>7, <2>8, <2>9
       DEF ChunkInv, RestInv, RunInv, PrefillInv, FilterInv, Resting, Locations
<1> QED BY <1>2, <1>5, <1>6

\* Steps of the clients and of the task at rest keep the invariant.
LEMMA ChunkQuiet ==
    ASSUME ChunkInv, UNCHANGED <<entries, batches, fresh, cache, errors>>,
           \/ pc' = pc
           \/ pc \in Resting /\ pc' \in Resting,
           \A r \in Requests : client'[r] = "cut" => client[r] = "cut"
    PROVE  ChunkInv'
<1>1. NoStreamCut'
  BY DEF ChunkInv, NoStreamCut
<1>2. CASE pc' = pc
  <2>1. RestInv'
    BY <1>2 DEF ChunkInv, RestInv, AllEmpty, NoPrefillFailed
  <2>2. RunInv'
    BY <1>2 DEF ChunkInv, RunInv, Running, AllHold, NoPrefillFailed, Real, Ids
  <2>3. PrefillInv'
    BY <1>2 DEF ChunkInv, PrefillInv, Running, AllHold, AllEmpty, NoPrefillFailed, Real, Ids
  <2>4. FilterInv'
    BY <1>2 DEF ChunkInv, FilterInv, AllHold, AllEmpty, NoPrefillFailed, Real, Ids
  <2> QED BY <1>1, <1>2, <2>1, <2>2, <2>3, <2>4 DEF ChunkInv
<1>3. CASE pc \in Resting /\ pc' \in Resting
  BY <1>1, <1>3
     DEF ChunkInv, RestInv, RunInv, PrefillInv, FilterInv, AllEmpty, NoPrefillFailed, Resting, Locations
<1> QED BY <1>2, <1>3

\* The invariant holds when the server starts.
LEMMA ChunkInit == Init => ChunkInv
  BY DEF Init, ChunkInv, RestInv, RunInv, PrefillInv, FilterInv, AllEmpty, NoPrefillFailed, NoStreamCut,
         Resting, Locations

\* A prefill that fails answers every entry with an error and forgets the batches.
LEMMA ChunkPrefillFails ==
    ASSUME SupportChunking, ChunkInv, NEW S, NEW o, PrefillFails(o, S)
    PROVE  ChunkInv'
<1>1. /\ errors.prefill < MaxPrefillErrors /\ SendErrors
      /\ errors' = [errors EXCEPT !.prefill = @ + 1]
      /\ batches' = <<>> /\ pc' = "outer"
  BY Zenon DEF PrefillFails, AfterEmptyPrefill
<1>2. errors.prefill \in Nat
  BY DEF ChunkInv
<1>3. AllEmpty'
  <2>1. errors'.prefill = errors.prefill + 1
    BY <1>1, Zenon DEF ChunkInv
  <2> QED BY <1>2, <2>1 DEF AllEmpty, NoPrefillFailed
<1>4. entries' = {} /\ NoStreamCut'
  BY <1>1 DEF SendErrors, ChunkInv, NoStreamCut
<1>5. {"prefill", "decode"} \subseteq DOMAIN errors' /\ errors'.prefill \in Nat
  <2>1. /\ {"prefill", "decode"} \subseteq DOMAIN errors'
        /\ errors'.prefill = errors.prefill + 1
    BY <1>1, Zenon DEF ChunkInv
  <2> QED BY <1>2, <2>1
<1> QED
  BY <1>1, <1>3, <1>4, <1>5
     DEF ChunkInv, RestInv, RunInv, PrefillInv, FilterInv, Resting, Locations

\* Every step of a server with chunking keeps the invariant.
LEMMA ChunkNext ==
    ASSUME SupportChunking, Inv, ChunkInv, [Next]_vars
    PROVE  ChunkInv'
<1>1. CASE UNCHANGED vars
  BY <1>1, ChunkQuiet DEF vars, clientVars, taskVars, shardVars
<1>2. ASSUME NEW r \in Requests, Schedule(r) PROVE ChunkInv'
  BY <1>2, ChunkQuiet DEF Schedule, taskVars, shardVars, Inv, ClientInv
<1>3. ASSUME NEW r \in Requests, NotifyOne(r) PROVE ChunkInv'
  BY <1>3, ChunkQuiet DEF NotifyOne, taskVars, shardVars
<1>4. ASSUME NEW r \in Requests, Disconnect(r) PROVE ChunkInv'
  BY <1>4, ChunkQuiet DEF Disconnect, taskVars, shardVars, Inv, ClientInv
<1>5. CASE StartWait
  BY <1>5, ChunkQuiet DEF StartWait, clientVars, shardVars, Resting
<1>6. CASE Wake
  BY <1>6, ChunkQuiet DEF Wake, shardVars, Resting
<1>7. CASE PullFirst
  BY <1>7, ChunkPullFirst
<1>8. CASE PullMore
  BY <1>8, ChunkPullMore
<1>9. ASSUME NEW S, PrefillSucceeds(S) PROVE ChunkInv'
  BY <1>9, ChunkPrefill
<1>10. ASSUME NEW S, DecodeSucceeds(S) PROVE ChunkInv'
  BY <1>10, ChunkDecode
<1>11. ASSUME NEW S, NEW o, PrefillFails(o, S) PROVE ChunkInv'
  BY <1>11, ChunkPrefillFails
<1>12. ASSUME NEW S, NEW o, DecodeFails(o, S) PROVE ChunkInv'
  BY <1>12, ChunkDecodeFails
<1>13. CASE Filter
  BY <1>13, ChunkFilter
<1>14. CASE Quiescent
  BY <1>1, <1>14 DEF Quiescent
<1> QED
  BY <1>1, <1>2, <1>3, <1>4, <1>5, <1>6, <1>7, <1>8, <1>9, <1>10, <1>11, <1>12, <1>13,
     <1>14, Zenon
     DEF Next, Task

\* ChunkInv is an invariant of every server with chunking.
THEOREM ChunkInvCorrect ==
    ASSUME SupportChunking
    PROVE  Spec => []ChunkInv
<1>1. Inv /\ ChunkInv /\ [Next]_vars => ChunkInv'
  BY ChunkNext
<1> QED BY InvCorrect, ChunkInit, <1>1, PTL DEF Spec

\* ShardsAgree follows from the invariant as long as no prefill has failed.
LEMMA ChunkAgrees == ChunkInv /\ NoPrefillFailed => ShardsAgree
<1> SUFFICES ASSUME ChunkInv, NoPrefillFailed, pc \in {"start", "idle", "outer", "loop", "decode"}
             PROVE  /\ \A s \in Shards : cache[s] = [id \in CachedIds(batches) |->
                           (CHOOSE b \in Range(batches) : b.id = id).reqs]
                    /\ entries = UNION {Ids(batches[i]) : i \in DOMAIN batches}
                    /\ IsInjective(DecodeReqs)
  BY DEF ShardsAgree
<1>1. CASE pc \in Resting
  <2>1. batches = <<>> /\ entries = {} /\ AllEmpty
    BY <1>1 DEF ChunkInv, RestInv
  <2>2. CachedIds(batches) = {} /\ DOMAIN batches = {}
    BY <2>1 DEF CachedIds
  <2>3. DecodeReqs = <<>>
    <3>1. <<>> \in Seq(Requests)
      OBVIOUS
    <3> QED BY <2>1, <3>1, ConcatNone, Zenon DEF DecodeReqs
  <2>4. IsInjective(DecodeReqs)
    BY <2>3 DEF IsInjective
  <2>5. \A s \in Shards : cache[s] = [id \in CachedIds(batches) |->
                           (CHOOSE b \in Range(batches) : b.id = id).reqs]
    <3>1. \A s \in Shards : cache[s] = <<>>
      BY <2>1 DEF AllEmpty
    <3> QED BY <2>2, <3>1
  <2> QED BY <2>1, <2>2, <2>4, <2>5
<1>2. CASE pc \in {"loop", "decode"}
  <2> DEFINE a == batches[1]
             C(id) == CHOOSE b \in Range(batches) : b.id = id
  <2>1. Running(a) /\ entries = Ids(a)
    BY <1>2 DEF ChunkInv, RunInv
  <2>2. batches = <<a>> /\ Real(a) /\ AllHold(a)
    BY <2>1 DEF Running
  <2>3. DecodeReqs = a.reqs
    BY <2>2, AloneFacts DEF DecodeReqs
  <2>4. IsInjective(DecodeReqs)
    BY <2>2, <2>3 DEF Real
  <2> HIDE DEF a
  <2>5. CachedIds(batches) = {a.id} /\ Range(batches) = {a} /\ DOMAIN batches = {1}
    BY <2>2 DEF CachedIds, Range
  <2>6. C(a.id) = a
    BY <2>5
  <2>7. [id \in CachedIds(batches) |-> C(id).reqs] = Held(a.id, a.reqs)
    <3> HIDE DEF C
    <3> QED BY <2>5, <2>6 DEF Held
  <2>8. \A s \in Shards : cache[s] = [id \in CachedIds(batches) |-> C(id).reqs]
    BY <2>2, <2>7 DEF AllHold
  <2>9. entries = UNION {Ids(batches[i]) : i \in DOMAIN batches}
    BY <2>1, <2>5 DEF a
  <2> QED BY <2>4, <2>8, <2>9
<1> QED BY <1>1, <1>2 DEF Resting

\* NoPanic and NoStreamCut for every server with chunking.
THEOREM ChunkedServesCorrect ==
    ASSUME SupportChunking
    PROVE  Spec => [](NoPanic /\ NoStreamCut)
<1>1. ChunkInv => NoPanic /\ NoStreamCut
  BY DEF ChunkInv, NoPanic
<1> QED BY ChunkInvCorrect, <1>1, PTL

\* ShardsAgree for every server with chunking, until a prefill call fails.
THEOREM ChunkedAgreesCorrect ==
    ASSUME SupportChunking
    PROVE  Spec => [](NoPrefillFailed => ShardsAgree)
<1>1. ChunkInv => (NoPrefillFailed => ShardsAgree)
  BY ChunkAgrees
<1> QED BY ChunkInvCorrect, <1>1, PTL
-----------------------------------------------------------------------------
(* The server without chunking and with a maximal batch size               *)

\* The requests that were submitted and have left the queue: they never come back.
Gone == {r \in Requests : client[r] # "absent" /\ \A i \in 1..Len(queue) : queue[i] # r}

\* No step puts a request back in the queue once it left it for a batch.
LEMMA GoneStays ==
    ASSUME Inv, [Next]_vars
    PROVE  Gone \subseteq Gone'
<1> SUFFICES ASSUME NEW r \in Requests, client[r] # "absent",
                    \A i \in 1..Len(queue) : queue[i] # r
             PROVE  client'[r] # "absent" /\ \A i \in 1..Len(queue') : queue'[i] # r
  BY DEF Gone
<1>1. ASSUME NEW x \in Requests, Schedule(x)
      PROVE  client'[r] # "absent" /\ \A i \in 1..Len(queue') : queue'[i] # r
  <2>1. /\ client[x] = "absent" /\ client' = [client EXCEPT ![x] = "open"]
        /\ queue' = Append(queue, x) /\ client \in [Requests -> Streams]
        /\ queue \in Seq(Requests)
    BY <1>1 DEF Schedule, Inv, ClientInv, QueueInv
  <2>2. x # r
    BY <2>1
  <2>3. /\ Len(queue') = Len(queue) + 1 /\ Len(queue) \in Nat
        /\ \A i \in 1..Len(queue) : queue'[i] = queue[i]
        /\ queue'[Len(queue) + 1] = x
    BY <2>1
  <2> QED BY <2>1, <2>2, <2>3
<1>2. CASE QuietStep
  BY <1>2 DEF QuietStep
<1>3. CASE PullStep
  <2>1. PICK nb : /\ Ordered(nb, queue, Closed, Requests)
                  /\ queue' = nb.queue /\ client' = client
    BY <1>3 DEF PullStep
  <2> DEFINE B == Range(nb.batch)
  <2>2. Apart(B, nb.queue, queue, Closed)
    BY <2>1, PulledApart DEF Inv, QueueInv
  <2> HIDE DEF B
  <2>3. Apart(B, queue', queue, Closed)
    BY <2>1, <2>2
  <2> QED BY <2>1, <2>3 DEF Apart
<1> QED BY <1>1, <1>2, <1>3, StepKinds

\* A batch of at most max_batch_size requests of G, each once.
Solo(a, G) == Real(a) /\ Ids(a) \subseteq G /\ Len(a.reqs) <= MaxBatchSize

\* Two batches that together are one.
Duo(a, b, G) ==
    /\ Real(a) /\ Real(b) /\ Ids(a) \subseteq G /\ Ids(b) \subseteq G
    /\ Ids(a) \cap Ids(b) = {} /\ Len(a.reqs) + Len(b.reqs) <= MaxBatchSize

\* One batch runs, or two that the next decode concatenates.
One(bs, G) == \E a : bs = <<a>> /\ Solo(a, G)
Two(bs, G) == \E a, b : bs = <<a, b>> /\ Duo(a, b, G)

\* The running batches and the new one; inner says that one was running.
With(bs, f, inn, G) ==
    \/ inn /\ \E a : bs = <<a>> /\ Duo(a, f, G)
    \/ ~inn /\ bs = <<>> /\ Solo(f, G)

\* What runs when prefill returned no batch.
Without(bs, inn, G) == (inn /\ One(bs, G)) \/ (~inn /\ bs = <<>>)

\* The inductive invariant of a server without chunking: the batches the task knows
\* have together at most max_batch_size requests, each once, and none of them waits.
\* A failed prefill leaves requests in them that the task has no entry for.
SizeInv ==
    /\ pc \in Locations
    /\ pc \in Resting => batches = <<>>
    /\ pc = "loop" => One(batches, Gone)
    /\ pc = "decode" => One(batches, Gone) \/ Two(batches, Gone)
    /\ pc = "prefill" => With(batches, fresh, inner, Gone)
    /\ pc = "filterPrefill" =>
         \/ fresh = None /\ Without(batches, inner, Gone)
         \/ With(batches, fresh, inner, Gone)
    /\ pc = "filterDecode" => batches = <<>> /\ (fresh = None \/ Solo(fresh, Gone))

\* Each of two batches that fit together fits.
LEMMA DuoParts ==
    ASSUME NEW a, NEW b, NEW G, Duo(a, b, G), MaxBatchSize \in Nat
    PROVE  Solo(a, G) /\ Solo(b, G)
<1>1. Len(a.reqs) \in Nat /\ Len(b.reqs) \in Nat
  BY DEF Duo, Real
<1>2. Len(a.reqs) <= MaxBatchSize /\ Len(b.reqs) <= MaxBatchSize
  <2> DEFINE m == Len(a.reqs)
             n == Len(b.reqs)
  <2>1. m \in Nat /\ n \in Nat /\ m + n <= MaxBatchSize
    BY <1>1 DEF Duo
  <2> HIDE DEF m, n
  <2>2. m <= MaxBatchSize /\ n <= MaxBatchSize
    BY <2>1
  <2> QED BY <2>2 DEF m, n
<1> QED BY <1>2, Zenon DEF Duo, Solo

\* The invariant stays when more requests leave the queue.
LEMMA MoreGone ==
    ASSUME NEW G, NEW H, G \subseteq H, NEW bs, NEW f, NEW inn
    PROVE  /\ Solo(f, G) => Solo(f, H)
           /\ One(bs, G) => One(bs, H)
           /\ Two(bs, G) => Two(bs, H)
           /\ With(bs, f, inn, G) => With(bs, f, inn, H)
           /\ Without(bs, inn, G) => Without(bs, inn, H)
<1>1. \A a : Solo(a, G) => Solo(a, H)
  BY DEF Solo
<1>2. \A a, b : Duo(a, b, G) => Duo(a, b, H)
  BY DEF Duo
<1> QED BY <1>1, <1>2, Zenon DEF One, Two, With, Without

\* Decoding two batches concatenates them.
LEMMA ConcatTwo ==
    ASSUME NEW R, NEW a, NEW b, a.reqs \in Seq(R), b.reqs \in Seq(R)
    PROVE  Concat(<<a, b>>, <<>>) = a.reqs \o b.reqs
<1> DEFINE p == a.reqs
           q == b.reqs
           s == <<p, q>>
           Step(g, i) == IF i = 1 THEN s[i] ELSE g[i-1] \o s[i]
           Run(g) == g = [i \in 1..Len(s) |-> Step(g, i)]
<1>1. [i \in DOMAIN <<a, b>> |-> <<a, b>>[i].reqs] = s
  OBVIOUS
<1>2. Len(s) = 2 /\ s[1] = p /\ s[2] = q
  OBVIOUS
<1>3. \E g : Run(g)
  <2> DEFINE c == p \o q
             g == [i \in 1..2 |-> IF i = 1 THEN p ELSE c]
  <2> HIDE DEF c
  <2>0. c = p \o q
    BY Zenon DEF c
  <2>1. g[1] = p /\ g[2] = c
    OBVIOUS
  <2>2. \A i \in 1..2 : i = 1 \/ i = 2
    OBVIOUS
  <2>3. \A i \in 1..2 : g[i] = Step(g, i)
    BY <1>2, <2>0, <2>1, <2>2
  <2>4. g = [i \in 1..Len(s) |-> Step(g, i)]
    BY <1>2, <2>3
  <2> QED BY <2>4, Zenon
<1> DEFINE f == CHOOSE g : Run(g)
<1>4. Run(f)
  BY <1>3, Zenon
<1>5. FlattenSeq(s) = f[Len(s)]
  BY <1>2 DEF FlattenSeq
<1> HIDE DEF f, s
<1>6. f[1] = p
  BY <1>2, <1>4
<1>7. f[2] = f[1] \o q
  BY <1>2, <1>4
<1>8. p \o q \in Seq(R) /\ (p \o q) \o <<>> = p \o q
  OBVIOUS
<1> QED BY <1>1, <1>2, <1>5, <1>6, <1>7, <1>8 DEF Concat

\* A batch with each request once has as many requests as it is long: the size the
\* task computes from the batch is the number of its requests.
LEMMA LengthOf ==
    ASSUME NEW R, NEW s \in Seq(R), IsInjective(s)
    PROVE  IsFiniteSet(Range(s)) /\ Cardinality(Range(s)) = Len(s)
<1> DEFINE n == Len(s)
           Q == Range(s)
<1>1. n \in Nat /\ DOMAIN s = 1..n /\ Q = {s[i] : i \in 1..n}
  BY DEF Range
<1>2. s \in Bijection(1..n, Q)
  BY <1>1 DEF Bijection, Injection, Surjection, IsInjective
<1>3. ExistsBijection(1..n, Q)
  BY <1>2 DEF ExistsBijection
<1> QED BY <1>1, <1>3, FS_CountingElements, FS_NatBijection

\* What the shards decode: one batch of at most max_batch_size requests.
LEMMA DecodedSolo ==
    ASSUME NEW G, One(batches, G) \/ Two(batches, G)
    PROVE  \A id : Solo(Batch(id, DecodeReqs), G)
<1>1. /\ DecodeReqs \in Seq(Requests) /\ DecodeReqs # <<>> /\ IsInjective(DecodeReqs)
      /\ Range(DecodeReqs) \subseteq G /\ Len(DecodeReqs) <= MaxBatchSize
  <2>1. CASE One(batches, G)
    <3>1. PICK a : batches = <<a>> /\ Solo(a, G)
      BY <2>1 DEF One
    <3>2. DecodeReqs = a.reqs
      BY <3>1, AloneFacts DEF DecodeReqs, Solo
    <3> QED BY <3>1, <3>2 DEF Solo, Real, Ids
  <2>2. CASE Two(batches, G)
    <3>1. PICK a, b : batches = <<a, b>> /\ Duo(a, b, G)
      BY <2>2 DEF Two
    <3> DEFINE p == a.reqs
               q == b.reqs
    <3>2. /\ p \in Seq(Requests) /\ q \in Seq(Requests) /\ p # <<>>
          /\ IsInjective(p) /\ IsInjective(q) /\ Range(p) \cap Range(q) = {}
          /\ Range(p) \subseteq G /\ Range(q) \subseteq G
          /\ Len(p) + Len(q) <= MaxBatchSize
      BY <3>1 DEF Duo, Real, Ids
    <3>3. DecodeReqs = p \o q
      BY <3>1, <3>2, ConcatTwo DEF DecodeReqs
    <3> HIDE DEF p, q
    <3>4. /\ p \o q \in Seq(Requests) /\ IsInjective(p \o q)
          /\ Range(p \o q) = Range(p) \cup Range(q)
      BY <3>2, ConcatInjective
    <3>5. Len(p \o q) = Len(p) + Len(q) /\ Len(p) # 0 /\ Len(p) \in Nat /\ Len(q) \in Nat
      BY <3>2
    <3>6. Len(p \o q) # 0
      BY <3>5
    <3>7. p \o q # <<>>
      BY <3>6
    <3> QED BY <3>2, <3>3, <3>4, <3>5, <3>7
  <2> QED BY <2>1, <2>2
<1> DEFINE d == DecodeReqs
<1> HIDE DEF d
<1>2. /\ d \in Seq(Requests) /\ d # <<>> /\ IsInjective(d)
      /\ Range(d) \subseteq G /\ Len(d) <= MaxBatchSize
  BY <1>1 DEF d
<1>3. ASSUME NEW id PROVE Solo(Batch(id, d), G)
  <2> DEFINE b == Batch(id, d)
  <2>1. b.id = id /\ b.reqs = d
    BY DEF Batch
  <2> HIDE DEF b
  <2>2. b = Batch(b.id, b.reqs)
    BY <2>1 DEF b
  <2>3. Solo(b, G)
    BY <1>2, <2>1, <2>2 DEF Solo, Real, Ids
  <2> QED BY <2>3 DEF b
<1> QED BY <1>3 DEF d

\* BatchSizeWithinMax follows from the invariant.
LEMMA SizeWithin ==
    ASSUME SizeInv, MaxBatchSize \in Nat
    PROVE  BatchSizeWithinMax
<1> SUFFICES ASSUME pc = "decode" PROVE Len(DecodeReqs) <= MaxBatchSize
  BY DEF BatchSizeWithinMax
<1>1. One(batches, Gone) \/ Two(batches, Gone)
  BY DEF SizeInv
<1> DEFINE b == Batch(0, DecodeReqs)
<1>2. Solo(b, Gone)
  BY <1>1, DecodedSolo
<1>3. b.reqs = DecodeReqs
  BY DEF Batch
<1> HIDE DEF b
<1> QED BY <1>2, <1>3 DEF Solo

\* What filter_batch leaves of a batch.
Shrunk(f, b) ==
    Real(f) /\ f # None /\ Ids(f) \subseteq Ids(b) /\ Len(f.reqs) <= Len(b.reqs)

\* filter_batch returns a part of the batch, or none.
LEMMA FilteredShrinks ==
    ASSUME Real(fresh)
    PROVE  Filtered = None \/ Shrunk(Filtered, fresh)
<1> DEFINE F == Filtered
           reqs == fresh.reqs
           id == fresh.id
           left == Only(reqs, Retained)
<1>1. /\ fresh = Batch(id, reqs) /\ reqs \in Seq(Requests) /\ reqs # <<>>
      /\ IsInjective(reqs)
  BY DEF Real
<1>2. fresh # None
  BY <1>1 DEF None, Batch
<1>3. CASE F = fresh
  <2>1. Len(reqs) \in Nat
    BY <1>1
  <2>2. Shrunk(fresh, fresh)
    BY <1>2, <2>1 DEF Shrunk
  <2> QED BY <1>3, <2>2
<1>4. CASE F = Batch(id, left) /\ Retained # {}
  <2>1. Retained \subseteq Range(reqs)
    BY DEF Retained, Ids
  <2> HIDE DEF F
  <2>2. F.id = id /\ F.reqs = left
    BY <1>4 DEF Batch
  <2> DEFINE T == Retained
  <2> HIDE DEF reqs, T
  <2>3. /\ left \in Seq(Requests) /\ IsInjective(left) /\ Range(left) = Range(reqs) \cap T
    BY <1>1, OnlySublist DEF T
  <2> HIDE DEF left
  <2>4. Range(left) = Retained
    BY <2>1, <2>3 DEF T
  <2>5. left # <<>>
    BY <1>4, <2>4 DEF Range
  <2>6. Cardinality(Range(left)) = Len(left)
    BY <2>3, LengthOf
  <2>7. Cardinality(Range(left)) <= Len(reqs)
    BY <1>1, <2>1, <2>4, SameLength
  <2>8. Len(left) <= Len(reqs)
    BY <2>6, <2>7
  <2>9. Real(F)
    BY <1>4, <2>2, <2>3, <2>5 DEF Real
  <2>10. F # None
    BY <2>2, <2>5 DEF None, Batch
  <2>11. Shrunk(F, fresh)
    BY <2>1, <2>2, <2>4, <2>8, <2>9, <2>10 DEF Shrunk, Ids, reqs
  <2> QED BY <2>11 DEF F
<1>5. CASE F = Batch(id, reqs)
  BY <1>1, <1>3, <1>5
<1>6. F = fresh \/ F = None \/ (Retained # {} /\ (F = Batch(id, reqs) \/ F = Batch(id, left)))
  BY DEF Filtered, FilterShard
<1> QED BY <1>3, <1>4, <1>5, <1>6

\* The filtered batch joins the one that is running.
LEMMA AppendOne ==
    ASSUME NEW x, NEW y
    PROVE  Append(<<x>>, y) = <<x, y>>
<1> DEFINE s == Append(<<x>>, y)
           t == <<x, y>>
<1>1. s \in Seq({x, y}) /\ t \in Seq({x, y}) /\ Len(s) = 2 /\ Len(t) = 2
  OBVIOUS
<1>2. s[1] = x /\ s[2] = y /\ t[1] = x /\ t[2] = y
  OBVIOUS
<1>3. \A i \in 1..2 : s[i] = t[i]
  BY <1>2
<1> HIDE DEF s, t
<1>4. s = t
  BY <1>1, <1>3, SeqEqual
<1> QED BY <1>4 DEF s, t

\* Steps that leave the batches alone keep the invariant.
LEMMA SizeQuiet ==
    ASSUME SizeInv, Gone \subseteq Gone', UNCHANGED <<batches, fresh, inner>>,
           pc' = pc \/ (pc \in Resting /\ pc' \in Resting)
    PROVE  SizeInv'
<1> DEFINE G == Gone
           H == Gone'
<1>1. /\ G \subseteq H
      /\ batches' = batches /\ fresh' = fresh /\ inner' = inner
  OBVIOUS
<1>2. /\ Solo(fresh, G) => Solo(fresh, H)
      /\ One(batches, G) => One(batches, H)
      /\ Two(batches, G) => Two(batches, H)
      /\ With(batches, fresh, inner, G) => With(batches, fresh, inner, H)
      /\ Without(batches, inner, G) => Without(batches, inner, H)
  <2> HIDE DEF G, H
  <2> QED BY <1>1, MoreGone
<1>3. CASE pc' = pc
  BY <1>1, <1>2, <1>3, Zenon DEF SizeInv
<1>4. CASE pc \in Resting /\ pc' \in Resting
  BY <1>1, <1>4 DEF SizeInv, Resting, Locations
<1> QED BY <1>3, <1>4

\* A prefill that succeeds leaves the running batch alone.
LEMMA SizePrefill ==
    ASSUME ~SupportChunking, MaxBatchSize \in Nat, SizeInv, Gone \subseteq Gone',
           NEW S, PrefillSucceeds(S)
    PROVE  SizeInv'
<1> DEFINE G == Gone
           H == Gone'
<1>1. /\ pc' = "filterPrefill" \/ pc' = "dead"
      /\ fresh' = None \/ fresh' = Batch(fresh.id, fresh.reqs)
      /\ batches' = batches /\ inner' = inner /\ pc = "prefill"
  BY Zenon DEF PrefillSucceeds, SendGenerations, PrefillId, PrefillReqs
<1>2. With(batches, fresh, inner, H)
  <2>1. With(batches, fresh, inner, G)
    BY <1>1 DEF SizeInv
  <2> HIDE DEF G, H
  <2>2. G \subseteq H
    BY DEF G, H
  <2> QED BY <2>1, <2>2, MoreGone
<1> HIDE DEF H
<1>3. Real(fresh) /\ Without(batches, inner, H)
  <2>1. ASSUME NEW a, batches = <<a>>, Duo(a, fresh, H) PROVE Real(fresh) /\ One(batches, H)
    BY <2>1, DuoParts, Zenon DEF One, Solo
  <2> QED BY <1>2, <2>1, Zenon DEF With, Without, Solo
<1>4. fresh' = None \/ fresh' = fresh
  BY <1>1, <1>3 DEF Real
<1>5. \/ fresh' = None /\ Without(batches', inner', H)
      \/ With(batches', fresh', inner', H)
  BY <1>1, <1>2, <1>3, <1>4
<1> QED BY <1>1, <1>5, Zenon DEF SizeInv, Resting, Locations, H

\* A prefill that fails leaves the running batch to be decoded.
LEMMA SizePrefillFails ==
    ASSUME ~SupportChunking, MaxBatchSize \in Nat, SizeInv, Gone \subseteq Gone',
           NEW S, NEW o, PrefillFails(o, S)
    PROVE  SizeInv'
<1> DEFINE G == Gone
           H == Gone'
<1>1. /\ pc' = IF ~inner THEN "outer" ELSE "decode"
      /\ batches' = batches /\ pc = "prefill"
  BY Zenon DEF PrefillFails, AfterEmptyPrefill
<1>2. With(batches, fresh, inner, H)
  <2>1. With(batches, fresh, inner, G)
    BY <1>1 DEF SizeInv
  <2> HIDE DEF G, H
  <2>2. G \subseteq H
    BY DEF G, H
  <2> QED BY <2>1, <2>2, MoreGone
<1> HIDE DEF H
<1>3. Without(batches, inner, H)
  <2>1. ASSUME NEW a, batches = <<a>>, Duo(a, fresh, H) PROVE One(batches, H)
    BY <2>1, DuoParts, Zenon DEF One
  <2> QED BY <1>2, <2>1, Zenon DEF With, Without
<1>4. \/ pc' = "outer" /\ batches' = <<>>
      \/ pc' = "decode" /\ One(batches', H)
  BY <1>1, <1>3, Zenon DEF Without
<1> QED BY <1>4, Zenon DEF SizeInv, Resting, Locations, H

\* A decode that succeeds returns the batches as one.
LEMMA SizeDecode ==
    ASSUME SizeInv, Gone \subseteq Gone', NEW S, DecodeSucceeds(S)
    PROVE  SizeInv'
<1> DEFINE G == Gone
           H == Gone'
<1>1. /\ pc' = "filterDecode" \/ pc' = "dead"
      /\ fresh' = None \/ fresh' = Batch(batches[1].id, DecodeReqs)
      /\ batches' = <<>> /\ pc = "decode"
  BY Zenon DEF DecodeSucceeds, SendGenerations
<1>2. One(batches, H) \/ Two(batches, H)
  <2>1. One(batches, G) \/ Two(batches, G)
    BY <1>1 DEF SizeInv
  <2> HIDE DEF G, H
  <2>2. G \subseteq H
    BY DEF G, H
  <2> QED BY <2>1, <2>2, MoreGone
<1> HIDE DEF H
<1>3. fresh' = None \/ Solo(fresh', H)
  BY <1>1, <1>2, DecodedSolo
<1> QED BY <1>1, <1>3, Zenon DEF SizeInv, Resting, Locations, H

\* A decode that fails leaves no batch.
LEMMA SizeDecodeFails ==
    ASSUME SizeInv, NEW S, NEW o, DecodeFails(o, S)
    PROVE  SizeInv'
<1>1. pc' = "outer" /\ batches' = <<>>
  BY Zenon DEF DecodeFails
<1> QED BY <1>1, Zenon DEF SizeInv, Resting, Locations

\* The batch filter_batch returns fits beside the one that is running.
LEMMA SizeFilter ==
    ASSUME ~SupportChunking, MaxBatchSize \in Nat, SizeInv, Gone \subseteq Gone', Filter
    PROVE  SizeInv'
<1> DEFINE F == Filtered
           G == Gone
           H == Gone'
<1>1. /\ pc \in {"filterPrefill", "filterDecode"}
      /\ batches' = IF F = None THEN batches ELSE Append(batches, F)
      /\ pc' = IF F # None
               THEN IF pc = "filterPrefill" /\ inner THEN "decode" ELSE "loop"
               ELSE IF pc = "filterPrefill" /\ inner THEN "decode" ELSE "outer"
  BY Zenon DEF Filter, AfterEmptyPrefill
<1>2. fresh = None => F = None
  BY DEF Filtered, NothingToFilter
<1>3. Real(fresh) => F = None \/ Shrunk(F, fresh)
  BY FilteredShrinks
<1>4. \/ pc = "filterPrefill" /\ fresh = None /\ Without(batches, inner, H)
      \/ pc = "filterPrefill" /\ With(batches, fresh, inner, H)
      \/ pc = "filterDecode" /\ batches = <<>> /\ (fresh = None \/ Solo(fresh, H))
  <2>1. \/ pc = "filterPrefill" /\ fresh = None /\ Without(batches, inner, G)
        \/ pc = "filterPrefill" /\ With(batches, fresh, inner, G)
        \/ pc = "filterDecode" /\ batches = <<>> /\ (fresh = None \/ Solo(fresh, G))
    BY <1>1, Zenon DEF SizeInv
  <2> HIDE DEF G, H
  <2>2. G \subseteq H
    BY DEF G, H
  <2> QED BY <2>1, <2>2, MoreGone
<1> HIDE DEF F, H
<1>5. ASSUME batches = <<>>, Solo(fresh, H), F # None
      PROVE  One(Append(batches, F), H)
  <2>1. Shrunk(F, fresh) /\ Len(fresh.reqs) <= MaxBatchSize /\ Len(fresh.reqs) \in Nat
    BY <1>3, <1>5 DEF Solo, Real
  <2>2. Solo(F, H)
    <3> DEFINE m == Len(F.reqs)
               n == Len(fresh.reqs)
    <3>1. m \in Nat /\ m <= n /\ n \in Nat /\ n <= MaxBatchSize
      BY <2>1 DEF Shrunk, Real
    <3> HIDE DEF m, n
    <3>2. m <= MaxBatchSize
      BY <3>1
    <3>3. Ids(F) \subseteq H /\ Real(F)
      BY <1>5, <2>1 DEF Solo, Shrunk
    <3> QED BY <3>2, <3>3, Zenon DEF Solo, m
  <2>3. Append(batches, F) = <<F>>
    BY <1>5
  <2> QED BY <2>2, <2>3, Zenon DEF One
<1>6. ASSUME NEW a, batches = <<a>>, Duo(a, fresh, H), F # None
      PROVE  Two(Append(batches, F), H)
  <2>1. Shrunk(F, fresh)
    BY <1>3, <1>6 DEF Duo
  <2>2. Duo(a, F, H)
    <3> DEFINE m == Len(F.reqs)
               n == Len(fresh.reqs)
               k == Len(a.reqs)
    <3>0. Real(F) /\ Real(fresh) /\ Real(a)
      BY <1>6, <2>1 DEF Shrunk, Duo
    <3>1. m \in Nat /\ n \in Nat /\ k \in Nat /\ m <= n /\ k + n <= MaxBatchSize
      <4>1. m \in Nat /\ n \in Nat /\ k \in Nat
        BY <3>0 DEF Real
      <4>2. m <= n
        BY <2>1 DEF Shrunk
      <4>3. k + n <= MaxBatchSize
        BY <1>6 DEF Duo
      <4> QED BY <4>1, <4>2, <4>3
    <3> HIDE DEF m, n, k
    <3>2. k + m <= MaxBatchSize
      BY <3>1
    <3>3. Ids(F) \subseteq H /\ Ids(a) \cap Ids(F) = {} /\ Real(F) /\ Real(a) /\ Ids(a) \subseteq H
      BY <1>6, <2>1 DEF Duo, Shrunk
    <3> QED BY <3>2, <3>3, Zenon DEF Duo, m, k
  <2>3. Append(batches, F) = <<a, F>>
    BY <1>6, AppendOne
  <2> QED BY <2>2, <2>3, Zenon DEF Two
<1>7. ASSUME NEW a, batches = <<a>>, Duo(a, fresh, H) PROVE One(batches, H)
  BY <1>7, DuoParts, Zenon DEF One
<1>8. \/ pc' = "outer" /\ batches' = <<>>
      \/ pc' = "decode" /\ (One(batches', H) \/ Two(batches', H))
      \/ pc' = "loop" /\ One(batches', H)
  <2>1. CASE F = None
    <3>1. batches' = batches
      BY <1>1, <2>1
    <3>2. \/ pc' = "outer" /\ pc = "filterDecode"
          \/ pc' = "outer" /\ pc = "filterPrefill" /\ ~inner
          \/ pc' = "decode" /\ pc = "filterPrefill" /\ inner
      BY <1>1, <2>1
    <3> QED BY <1>4, <1>7, <3>1, <3>2, Zenon DEF With, Without
  <2>2. CASE F # None
    <3>1. batches' = Append(batches, F) /\ fresh # None
      BY <1>1, <1>2, <2>2
    <3>2. \/ pc' = "loop" /\ pc = "filterDecode"
          \/ pc' = "loop" /\ pc = "filterPrefill" /\ ~inner
          \/ pc' = "decode" /\ pc = "filterPrefill" /\ inner
      BY <1>1, <2>2
    <3>3. CASE pc = "filterDecode"
      BY <1>4, <1>5, <2>2, <3>1, <3>2, <3>3
    <3>4. CASE pc = "filterPrefill" /\ ~inner
      <4>1. batches = <<>> /\ Solo(fresh, H)
        BY <1>4, <3>1, <3>4, Zenon DEF With
      <4>2. One(batches', H)
        BY <1>5, <2>2, <3>1, <4>1
      <4> QED BY <3>2, <3>4, <4>2
    <3>5. CASE pc = "filterPrefill" /\ inner
      <4>1. PICK a : batches = <<a>> /\ Duo(a, fresh, H)
        BY <1>4, <3>1, <3>5, Zenon DEF With
      <4>2. Two(batches', H)
        BY <1>6, <2>2, <3>1, <4>1
      <4> QED BY <3>2, <3>5, <4>2
    <3> QED BY <1>1, <3>3, <3>4, <3>5
  <2> QED BY <2>1, <2>2
<1> QED BY <1>8, Zenon DEF SizeInv, Resting, Locations, H

\* A batch next_batch hands over has left the queue.
LEMMA PulledGone ==
    ASSUME Inv, NEW nb, Ordered(nb, queue, Closed, Requests), Admit(nb), nb.batch # NoBatch
    PROVE  /\ Real(fresh') /\ Ids(fresh') \subseteq Gone' /\ fresh'.reqs = nb.batch
           /\ Ids(fresh') \cap Gone = {}
           /\ pc' = "prefill" /\ inner' = (pc = "loop") /\ batches' = batches
<1> DEFINE reqs == nb.batch
           t == nb.queue
<1>1. /\ fresh' = Batch(nextId, reqs) /\ queue' = t /\ client' = client
      /\ pc' = "prefill" /\ inner' = (pc = "loop") /\ batches' = batches
  BY DEF Admit, clientVars
<1>2. queue \in Seq(Requests) /\ IsInjective(queue)
  BY DEF Inv, QueueInv, IsInjective
<1>3. reqs \in Seq(Requests) /\ IsInjective(reqs) /\ reqs # <<>>
  BY <1>2, PulledInjective DEF NoBatch
<1>4. Apart(Range(reqs), t, queue, Closed)
  BY <1>2, PulledApart DEF IsInjective
<1> HIDE DEF reqs, t
<1>5. fresh'.id = nextId /\ fresh'.reqs = reqs
  BY <1>1 DEF Batch
<1>6. Real(fresh')
  BY <1>1, <1>3, <1>5 DEF Real
<1>7. Ids(fresh') = Range(reqs)
  BY <1>5 DEF Ids
<1>8. Apart(Range(reqs), queue', queue, Closed)
  BY <1>1, <1>4
<1>9. ASSUME NEW r \in Range(reqs) PROVE r \in Gone' /\ r \notin Gone
  <2>1. PICK k \in 1..Len(queue) : queue[k] = r
    BY <1>8 DEF Apart
  <2>2. r \in Requests /\ client[r] # "absent"
    BY <1>2, <2>1 DEF Inv, ClientInv
  <2>3. \A i \in 1..Len(queue') : queue'[i] # r
    BY <1>8 DEF Apart
  <2> QED BY <1>1, <2>1, <2>2, <2>3 DEF Gone
<1> QED BY <1>1, <1>5, <1>6, <1>7, <1>9 DEF reqs

\* The first pull of a round takes at most max_batch_size requests.
LEMMA SizePullFirst ==
    ASSUME ~SupportChunking, MaxBatchSize \in Nat, Inv, SizeInv, PullFirst
    PROVE  SizeInv'
<1> DEFINE nb == NextBatch(queue, Closed, 0, MaxBatchSize, MaxBatchPrefillTokens,
                           MaxBatchTotalTokens, FreeBlocks)
<1>1. pc = "outer" /\ batches = <<>>
  BY DEF PullFirst, SizeInv, Resting
<1>2. \/ pc' = "start" /\ batches' = batches
      \/ nb.batch # NoBatch /\ Admit(nb)
  BY Zenon DEF PullFirst
<1>3. queue \in Seq(Requests)
  BY DEF Inv, QueueInv
<1>4. Ordered(nb, queue, Closed, Requests) /\ Len(nb.batch) <= MaxBatchSize
  BY <1>3, NextBatchOrdered, NextBatchSized
<1> HIDE DEF nb
<1>5. CASE pc' = "start" /\ batches' = batches
  BY <1>1, <1>5 DEF SizeInv, Resting, Locations
<1>6. CASE nb.batch # NoBatch /\ Admit(nb)
  <2>1. /\ Real(fresh') /\ Ids(fresh') \subseteq Gone' /\ fresh'.reqs = nb.batch
        /\ pc' = "prefill" /\ inner' = (pc = "loop") /\ batches' = batches
    BY <1>4, <1>6, PulledGone
  <2>2. ~inner' /\ batches' = <<>> /\ Solo(fresh', Gone')
    BY <1>1, <1>4, <2>1 DEF Solo
  <2>3. With(batches', fresh', inner', Gone')
    BY <2>2, Zenon DEF With
  <2> QED BY <2>1, <2>3, Zenon DEF SizeInv, Resting, Locations
<1> QED BY <1>2, <1>5, <1>6

\* The running requests are subtracted from max_batch_size before more are pulled,
\* saturating; they are not more than it, so nothing is lost in the subtraction.
LEMMA SizePullMore ==
    ASSUME ~SupportChunking, MaxBatchSize \in Nat, Inv, SizeInv, PullMore, Gone \subseteq Gone'
    PROVE  SizeInv'
<1> DEFINE b == batches[1]
           nb == NextBatch(queue, Closed, MinSize(b), MaxSize(b), PrefillBudget(b),
                           Minus(MaxBatchTotalTokens, BatchTokens(b)), FreeBlocks)
<1>1. pc = "loop" /\ One(batches, Gone)
  BY DEF PullMore, SizeInv
<1>2. batches = <<b>> /\ Solo(b, Gone)
  <2>1. PICK a : batches = <<a>> /\ Solo(a, Gone)
    BY <1>1 DEF One
  <2>2. b = a
    BY <2>1
  <2> HIDE DEF b
  <2> QED BY <2>1, <2>2
<1>3. \/ pc' = "decode" /\ batches' = batches
      \/ nb.batch # NoBatch /\ Admit(nb)
  BY Zenon DEF PullMore
<1>4. queue \in Seq(Requests)
  BY DEF Inv, QueueInv
<1>5. Ordered(nb, queue, Closed, Requests)
  BY <1>4, NextBatchOrdered
<1>6. MaxSize(b) \in Nat /\ MaxSize(b) + Len(b.reqs) = MaxBatchSize
  <2> HIDE DEF b, nb
  <2> DEFINE n == Len(b.reqs)
  <2>1. Cardinality(Ids(b)) = n /\ n \in Nat /\ n <= MaxBatchSize
    BY <1>2, LengthOf DEF Solo, Real, Ids
  <2>2. MaxSize(b) = Minus(MaxBatchSize, n)
    BY <2>1 DEF MaxSize, NoMax
  <2> HIDE DEF n
  <2>3. MaxSize(b) \in Nat /\ MaxSize(b) + n = MaxBatchSize
    BY <2>1, <2>2 DEF Minus
  <2> QED BY <2>3 DEF n
<1>7. Len(nb.batch) <= MaxSize(b)
  <2> HIDE DEF b
  <2> DEFINE m == MaxSize(b)
             mi == MinSize(b)
             pb == PrefillBudget(b)
             tb == Minus(MaxBatchTotalTokens, BatchTokens(b))
  <2>1. m \in Nat
    BY <1>6
  <2> HIDE DEF m, mi, pb, tb
  <2>2. Len(NextBatch(queue, Closed, mi, m, pb, tb, FreeBlocks).batch) <= m
    BY <1>4, <2>1, NextBatchSized
  <2> QED BY <2>2 DEF m, mi, pb, tb
<1> HIDE DEF nb
<1>8. CASE pc' = "decode" /\ batches' = batches
  <2>1. Solo(b, Gone')
    BY <1>2 DEF Solo
  <2>2. One(batches', Gone')
    <3> HIDE DEF b
    <3> QED BY <1>2, <1>8, <2>1, Zenon DEF One
  <2> QED BY <1>8, <2>2, Zenon DEF SizeInv, Resting, Locations
<1>9. CASE nb.batch # NoBatch /\ Admit(nb)
  <2> HIDE DEF b
  <2>1. /\ Real(fresh') /\ Ids(fresh') \subseteq Gone' /\ fresh'.reqs = nb.batch
        /\ Ids(fresh') \cap Gone = {}
        /\ pc' = "prefill" /\ inner' = (pc = "loop") /\ batches' = batches
    BY <1>5, <1>9, PulledGone
  <2>2. Real(b) /\ Ids(b) \subseteq Gone' /\ Ids(b) \cap Ids(fresh') = {}
    BY <1>2, <2>1 DEF Solo
  <2>3. Len(b.reqs) + Len(fresh'.reqs) <= MaxBatchSize
    <3>1. Len(fresh'.reqs) <= MaxSize(b)
      BY <1>7, <2>1
    <3> DEFINE x == Len(fresh'.reqs)
               y == Len(b.reqs)
               z == MaxSize(b)
    <3>2. x \in Nat /\ y \in Nat /\ z \in Nat /\ x <= z /\ z + y = MaxBatchSize
      BY <1>6, <2>1, <2>2, <3>1 DEF Real
    <3> HIDE DEF x, y, z
    <3>3. y + x <= MaxBatchSize
      BY <3>2
    <3> QED BY <3>3 DEF x, y
  <2>4. Duo(b, fresh', Gone')
    BY <2>1, <2>2, <2>3, Zenon DEF Duo
  <2>5. inner' /\ batches' = <<b>>
    BY <1>1, <1>2, <2>1
  <2>6. With(batches', fresh', inner', Gone')
    BY <2>4, <2>5, Zenon DEF With
  <2> QED BY <2>1, <2>6, Zenon DEF SizeInv, Resting, Locations
<1> QED BY <1>3, <1>8, <1>9

\* The invariant holds when the server starts.
LEMMA SizeInit == Init => SizeInv
  BY DEF Init, SizeInv, Resting, Locations

\* Every step of a server without chunking keeps the invariant.
LEMMA SizeNext ==
    ASSUME ~SupportChunking, MaxBatchSize \in Nat, Inv, SizeInv, [Next]_vars
    PROVE  SizeInv'
<1>0. Gone \subseteq Gone'
  BY GoneStays
<1>1. CASE UNCHANGED vars
  BY <1>0, <1>1, SizeQuiet DEF vars, taskVars
<1>2. ASSUME NEW r \in Requests, Schedule(r) \/ NotifyOne(r) \/ Disconnect(r) PROVE SizeInv'
  BY <1>0, <1>2, SizeQuiet DEF Schedule, NotifyOne, Disconnect, taskVars
<1>3. CASE StartWait
  BY <1>0, <1>3, SizeQuiet DEF StartWait, Resting
<1>4. CASE Wake
  BY <1>0, <1>4, SizeQuiet DEF Wake, Resting
<1>5. CASE PullFirst
  BY <1>5, SizePullFirst
<1>6. CASE PullMore
  BY <1>0, <1>6, SizePullMore
<1>7. ASSUME NEW S, PrefillSucceeds(S) PROVE SizeInv'
  BY <1>0, <1>7, SizePrefill
<1>8. ASSUME NEW S, DecodeSucceeds(S) PROVE SizeInv'
  BY <1>0, <1>8, SizeDecode
<1>9. ASSUME NEW S, NEW o, PrefillFails(o, S) PROVE SizeInv'
  BY <1>0, <1>9, SizePrefillFails
<1>10. ASSUME NEW S, NEW o, DecodeFails(o, S) PROVE SizeInv'
  BY <1>10, SizeDecodeFails
<1>11. CASE Filter
  BY <1>0, <1>11, SizeFilter
<1>12. CASE Quiescent
  BY <1>1, <1>12 DEF Quiescent
<1> QED
  BY <1>1, <1>2, <1>3, <1>4, <1>5, <1>6, <1>7, <1>8, <1>9, <1>10, <1>11, <1>12, Zenon
     DEF Next, Task

\* BatchSizeWithinMax for every server without chunking: max_batch_size bounds what
\* the shards decode at a time, failed calls and requests that joined included.
THEOREM BatchSizeWithinMaxCorrect ==
    ASSUME ~SupportChunking, MaxBatchSize \in Nat
    PROVE  Spec => []BatchSizeWithinMax
<1>1. Inv /\ SizeInv /\ [Next]_vars => SizeInv'
  BY SizeNext
<1>2. SizeInv => BatchSizeWithinMax
  BY SizeWithin
<1> QED BY InvCorrect, SizeInit, <1>1, <1>2, PTL DEF Spec
-----------------------------------------------------------------------------
(* The tokens of a forward pass                                            *)

\* The budgets start with one token set aside for every request but one, and each
\* prefilling request takes its chunk.
LEMMA ChunkBudgetsDef ==
    ASSUME NEW reqs, NEW left, Len(reqs) \in Nat
    PROVE  LET n == Len(reqs)
               b == ChunkBudgets(reqs, left)
           IN  /\ b[0] = MaxBatchPrefillTokens - (n - 1)
               /\ \A i \in 1..n :
                    LET l == left[reqs[n + 1 - i]]
                    IN  b[i] = IF l = 0 THEN b[i - 1] ELSE b[i - 1] - Granted(l, b[i - 1])
<1> DEFINE n == Len(reqs)
           l(i) == left[reqs[n + 1 - i]]
           Step(g, i) == IF i = 0 THEN MaxBatchPrefillTokens - (n - 1)
                         ELSE IF l(i) = 0 THEN g[i - 1] ELSE g[i - 1] - Granted(l(i), g[i - 1])
           Run(m, g) == g = [i \in 0..m |-> Step(g, i)]
           M == {m \in 0..n : \E g : Run(m, g)}
<1>1. 0 \in M
  <2> DEFINE g == [i \in 0..0 |-> MaxBatchPrefillTokens - (n - 1)]
  <2>1. Run(0, g)
    BY SMT
  <2>2. \E f : Run(0, f)
    BY <2>1, Zenon
  <2>3. 0 \in 0..n
    OBVIOUS
  <2> QED BY <2>2, <2>3, Zenon
<1>2. ASSUME NEW m \in 1..n, m - 1 \in M PROVE m \in M
  <2>1. PICK g : Run(m - 1, g)
    BY <1>2
  <2> DEFINE k == [i \in 0..m |-> IF i = m THEN Step(g, m) ELSE g[i]]
  <2>2. ASSUME NEW i \in 0..m PROVE k[i] = Step(k, i)
    <3>1. CASE i = 0
      <4>1. g[0] = MaxBatchPrefillTokens - (n - 1)
        BY <2>1
      <4> QED BY <3>1, <4>1
    <3>2. CASE i # 0
      <4>1. k[i - 1] = g[i - 1]
        BY <3>2
      <4>2. CASE i = m
        BY <3>2, <4>1, <4>2
      <4>3. CASE i # m
        <5>1. i \in 0..(m - 1) /\ k[i] = g[i]
          BY <4>3
        <5>2. g[i] = Step(g, i)
          BY <2>1, <5>1
        <5> QED BY <3>2, <4>1, <5>1, <5>2
      <4> QED BY <4>2, <4>3
    <3> QED BY <3>1, <3>2
  <2>3. Run(m, k)
    BY <2>2
  <2>4. \E f : Run(m, f)
    BY <2>3, Zenon
  <2>5. m \in 0..n
    OBVIOUS
  <2> QED BY <2>4, <2>5, Zenon
<1>3. \E g : Run(n, g)
  <2>1. 0..n \subseteq M
    <3> HIDE DEF M
    <3>1. \A m \in 1..n : m - 1 \in M => m \in M
      BY <1>2
    <3> QED BY <1>1, <3>1, IntervalInduction
  <2>2. n \in M
    BY <2>1
  <2> QED BY <2>2
<1> DEFINE w == ChunkBudgets(reqs, left)
<1>4. w = CHOOSE g : Run(n, g)
  BY DEF ChunkBudgets
<1>5. Run(n, w)
  BY <1>3, <1>4, Zenon
<1> HIDE DEF w
<1>6. w[0] = Step(w, 0) /\ \A i \in 1..n : w[i] = Step(w, i)
  <2>1. 0 \in 0..n /\ \A i \in 1..n : i \in 0..n
    OBVIOUS
  <2> HIDE DEF Step, n
  <2> QED BY <1>5, <2>1, Zenon
<1>7. \A i \in 1..n : i # 0
  OBVIOUS
<1> QED BY <1>6, <1>7, Zenon DEF w

\* What a chunk takes of the budget: one token when there is none, and no more
\* than there is otherwise.
LEMMA GrantedBound ==
    ASSUME NEW l \in Nat, NEW b \in Int
    PROVE  /\ Granted(l, b) \in Nat /\ Granted(l, b) >= 1
           /\ l = 0 \/ b <= 0 => Granted(l, b) = 1
           /\ b >= 1 => Granted(l, b) <= b
  BY DEF Granted, Maximum

\* Every request of s is in the next pass, and together they take no more than
\* max_batch_prefill_tokens, unless one token for each is more.
Lean(w, s) ==
    /\ \A i \in 1..Len(s) : w[s[i]] >= 1
    /\ Total(w, s) <= Maximum(MaxBatchPrefillTokens, Len(s))

\* The next chunks are lean.
LEMMA ChunksLean ==
    ASSUME NEW reqs \in Seq(Requests), IsInjective(reqs), reqs # <<>>,
           NEW left \in [Requests -> Nat], NEW v \in [Requests -> Nat],
           \A k \in 1..Len(reqs) : v[reqs[k]] = NextChunks(reqs, left)[reqs[k]]
    PROVE  Lean(v, reqs)
<1> DEFINE n == Len(reqs)
           b == ChunkBudgets(reqs, left)
           f == Sums(v, reqs)
           l(i) == left[reqs[n + 1 - i]]
<1>1. n \in Nat /\ \A k \in 1..n : reqs[k] \in Requests
  OBVIOUS
<1>2. /\ b[0] = MaxBatchPrefillTokens - (n - 1)
      /\ \A i \in 1..n : b[i] = IF l(i) = 0 THEN b[i - 1] ELSE b[i - 1] - Granted(l(i), b[i - 1])
  BY <1>1, ChunkBudgetsDef
<1>3. f[0] = 0 /\ \A i \in 1..n : f[i] = f[i - 1] + v[reqs[i]]
  BY <1>1, SumsDef
<1>4. ASSUME NEW k \in 1..n PROVE v[reqs[k]] = Granted(left[reqs[k]], b[n - k])
  <2>1. (CHOOSE j \in DOMAIN reqs : reqs[j] = reqs[k]) = k
    <3>1. DOMAIN reqs = 1..n /\ \A j \in 1..n : reqs[j] = reqs[k] => j = k
      BY DEF IsInjective
    <3> QED BY <3>1
  <2>2. reqs[k] \in Range(reqs)
    BY DEF Range
  <2>3. NextChunks(reqs, left)[reqs[k]] =
          Granted(left[reqs[k]], b[n - (CHOOSE j \in DOMAIN reqs : reqs[j] = reqs[k])])
    BY <2>2, Zenon DEF NextChunks
  <2> QED BY <2>1, <2>3
<1>5. \A i \in 1..n : f[n + 1 - i] = f[n - i] + Granted(l(i), b[i - 1])
  <2> TAKE i \in 1..n
  <2> DEFINE k == n + 1 - i
  <2>1. k \in 1..n /\ k - 1 = n - i /\ n - k = i - 1
    BY <1>1
  <2>2. f[k] = f[k - 1] + v[reqs[k]] /\ v[reqs[k]] = Granted(left[reqs[k]], b[n - k])
    BY <1>3, <1>4, <2>1
  <2> QED BY <2>1, <2>2
<1>6. MaxBatchPrefillTokens \in Nat
  BY BatcherAssumption
<1>7. \A i \in 1..n : l(i) \in Nat
  <2> TAKE i \in 1..n
  <2>1. n + 1 - i \in 1..n
    BY <1>1
  <2> QED BY <1>1, <2>1
<1> HIDE DEF b, f, l
<1>8. \A i \in 0..n : f[i] \in Nat
  <2> DEFINE T == {i \in 0..n : f[i] \in Nat}
  <2>1. 0 \in T
    BY <1>1, <1>3
  <2>2. ASSUME NEW i \in 1..n, i - 1 \in T PROVE i \in T
    <3>1. v[reqs[i]] \in Nat
      BY <1>1
    <3> QED BY <1>1, <1>3, <2>2, <3>1
  <2>3. 0..n \subseteq T
    <3> HIDE DEF T, n
    <3> QED BY <1>1, <2>1, <2>2, IntervalInduction
  <2> QED BY <2>3
<1> DEFINE B == MaxBatchPrefillTokens - (n - 1)
           K(i) == f[n] - f[n - i]
           Good(c, k, i) ==
              /\ c \in Int
              /\ \/ c >= 1 /\ k + c <= B + i
                 \/ c <= 0 /\ (k <= B + i - 1 \/ k <= i)
           T == {i \in 0..n : Good(b[i], K(i), i)}
<1>9. 0 \in T
  <2>0. n \in 0..n /\ n - 0 = n
    BY <1>1
  <2>1. K(0) = 0 /\ b[0] = B /\ B \in Int
    <3>1. f[n] \in Nat /\ f[n - 0] = f[n]
      BY <1>8, <2>0
    <3>2. K(0) = 0
      BY <3>1
    <3>3. b[0] = B
      BY <1>2
    <3> QED BY <1>1, <1>6, <3>2, <3>3
  <2>2. Good(b[0], 0, 0)
    BY <2>1
  <2> QED BY <1>1, <2>1, <2>2
<1>10. ASSUME NEW i \in 1..n, i - 1 \in T PROVE i \in T
  <2> DEFINE g == Granted(l(i), b[i - 1])
             c == b[i - 1]
             k == K(i - 1)
  <2>1. Good(c, k, i - 1) /\ l(i) \in Nat
    BY <1>7, <1>10
  <2>2. b[i] = IF l(i) = 0 THEN c ELSE c - g
    BY <1>2
  <2>3. g \in Nat /\ g >= 1 /\ (l(i) = 0 \/ c <= 0 => g = 1) /\ (c >= 1 => g <= c)
    BY <2>1, GrantedBound
  <2>4. K(i) = k + g /\ k \in Int
    <3>1. n - (i - 1) = n + 1 - i /\ n - i \in 0..n /\ n + 1 - i \in 0..n /\ n \in 0..n
      BY <1>1
    <3>2. f[n] \in Nat /\ f[n - i] \in Nat /\ f[n + 1 - i] \in Nat
      BY <1>8, <3>1
    <3>3. f[n + 1 - i] = f[n - i] + g
      BY <1>5
    <3>4. f[n - (i - 1)] = f[n - i] + g /\ f[n - (i - 1)] \in Nat
      BY <3>1, <3>2, <3>3
    <3> DEFINE x == f[n]
               y == f[n - i]
               z == f[n - (i - 1)]
    <3>5. x - y = (x - z) + g /\ x - z \in Int
      <4>1. x \in Nat /\ y \in Nat /\ z \in Nat /\ z = y + g
        BY <3>2, <3>4
      <4> HIDE DEF x, y, z, g
      <4> QED BY <2>3, <4>1
    <3> QED BY <3>5
  <2>5. B \in Int
    BY <1>1, <1>6
  <2> HIDE DEF g, c, k, K, B
  <2>6. Good(b[i], k + g, i)
    BY <2>1, <2>2, <2>3, <2>4, <2>5
  <2>7. Good(b[i], K(i), i)
    BY <2>4, <2>6
  <2> QED BY <1>1, <2>7
<1>11. n \in T
  <2>1. 0..n \subseteq T
    <3> HIDE DEF T, n
    <3> QED BY <1>1, <1>9, <1>10, IntervalInduction
  <2>2. n \in 0..n
    BY <1>1
  <2> HIDE DEF T
  <2> QED BY <2>1, <2>2
<1>12. f[n] <= Maximum(MaxBatchPrefillTokens, n)
  <2>1. K(n) = f[n] /\ f[n] \in Nat
    BY <1>1, <1>3, <1>8
  <2>2. Good(b[n], f[n], n)
    BY <1>11, <2>1
  <2> QED BY <1>1, <1>6, <2>1, <2>2 DEF Maximum
<1>13. \A k \in 1..n : v[reqs[k]] >= 1
  <2> TAKE k \in 1..n
  <2>1. n - k \in 0..n /\ left[reqs[k]] \in Nat
    BY <1>1
  <2>2. b[n - k] \in Int
    <3>1. 0..n \subseteq T
      <4> HIDE DEF T, n
      <4> QED BY <1>1, <1>9, <1>10, IntervalInduction
    <3>2. n - k \in T
      <4> HIDE DEF T
      <4> QED BY <2>1, <3>1
    <3> QED BY <3>2
  <2> QED BY <1>4, <2>1, <2>2, GrantedBound
<1> QED BY <1>12, <1>13 DEF Lean, Total, f

\* So are those of the requests that are left after filtering.
LEMMA LeanOnly ==
    ASSUME NEW w \in [Requests -> Nat], NEW s \in Seq(Requests), IsInjective(s), NEW S,
           Lean(w, s)
    PROVE  Lean(w, Only(s, S))
<1> DEFINE t == Only(s, S)
           x == Total(w, t)
           y == Len(t)
           n == Len(s)
<1>1. t \in Seq(Requests) /\ Range(t) = Range(s) \cap S
  BY OnlySublist
<1>2. Total(w, s) <= Maximum(MaxBatchPrefillTokens, n) /\ \A i \in 1..n : w[s[i]] >= 1
  BY DEF Lean
<1>3. y <= n /\ x + (n - y) <= Total(w, s)
  BY <1>2, TotalOnly
<1>4. x \in Nat /\ y \in Nat /\ n \in Nat /\ Total(w, s) \in Nat
  <2> HIDE DEF t
  <2> QED BY <1>1, TotalNat
<1> HIDE DEF t
<1>5. \A i \in 1..Len(t) : w[t[i]] >= 1
  <2> TAKE i \in 1..Len(t)
  <2>1. t[i] \in Range(t)
    BY <1>1 DEF Range
  <2>2. t[i] \in Range(s) /\ DOMAIN s = 1..n
    BY <1>1, <2>1
  <2>3. PICK j \in 1..n : s[j] = t[i]
    BY <2>2, Zenon DEF Range
  <2> QED BY <1>2, <2>3
<1>6. x <= Maximum(MaxBatchPrefillTokens, y)
  <2> HIDE DEF x, y, n
  <2> QED BY <1>2, <1>3, <1>4, BatcherAssumption DEF Maximum
<1> QED BY <1>5, <1>6 DEF Lean, t

\* The budgets are numbers, and so are the chunks.
LEMMA ChunkTypes ==
    ASSUME NEW reqs \in Seq(Requests), NEW left \in [Requests -> Nat]
    PROVE  \A r \in Range(reqs) : NextChunks(reqs, left)[r] \in Nat
<1> DEFINE n == Len(reqs)
           b == ChunkBudgets(reqs, left)
           l(i) == left[reqs[n + 1 - i]]
           T == {i \in 0..n : b[i] \in Int}
<1>1. n \in Nat /\ DOMAIN reqs = 1..n /\ \A k \in 1..n : reqs[k] \in Requests
  OBVIOUS
<1>2. /\ b[0] = MaxBatchPrefillTokens - (n - 1)
      /\ \A i \in 1..n : b[i] = IF l(i) = 0 THEN b[i - 1] ELSE b[i - 1] - Granted(l(i), b[i - 1])
  BY <1>1, ChunkBudgetsDef
<1>3. \A i \in 1..n : l(i) \in Nat
  <2> TAKE i \in 1..n
  <2>1. n + 1 - i \in 1..n
    BY <1>1
  <2> QED BY <1>1, <2>1
<1> HIDE DEF b, l
<1>4. 0 \in T
  BY <1>1, <1>2, BatcherAssumption
<1>5. ASSUME NEW i \in 1..n, i - 1 \in T PROVE i \in T
  <2>1. l(i) \in Nat /\ b[i - 1] \in Int
    BY <1>3, <1>5
  <2>2. Granted(l(i), b[i - 1]) \in Nat
    BY <2>1, GrantedBound
  <2> QED BY <1>1, <1>2, <2>1, <2>2
<1>6. 0..n \subseteq T
  <2> HIDE DEF T, n
  <2> QED BY <1>1, <1>4, <1>5, IntervalInduction
<1>7. ASSUME NEW r \in Range(reqs) PROVE NextChunks(reqs, left)[r] \in Nat
  <2> DEFINE k == CHOOSE j \in DOMAIN reqs : reqs[j] = r
  <2>1. \E j \in DOMAIN reqs : reqs[j] = r
    BY <1>7, Zenon DEF Range
  <2>2. k \in DOMAIN reqs /\ reqs[k] = r
    BY <2>1, Zenon
  <2>3. NextChunks(reqs, left)[r] = Granted(left[r], b[n - k])
    BY <1>7, Zenon DEF NextChunks, b
  <2> HIDE DEF k
  <2>4. left[r] \in Nat /\ n - k \in 0..n
    BY <1>1, <2>2
  <2>5. n - k \in T
    <3> HIDE DEF T
    <3> QED BY <1>6, <2>4
  <2>6. Granted(left[r], b[n - k]) \in Nat
    BY <2>4, <2>5, GrantedBound
  <2> QED BY <2>3, <2>6
<1> QED BY <1>7

\* What the prompts and the next passes of the requests are counted in.
Counts == input \in [Requests -> Nat] /\ todo \in [Requests -> Nat]

\* After a forward pass over reqs the next one over them is lean.
LEMMA ForwardLean ==
    ASSUME NEW reqs \in Seq(Requests), IsInjective(reqs), reqs # <<>>, Counts, Forward(reqs)
    PROVE  Counts' /\ Lean(input', reqs)
<1> DEFINE left == Left(reqs)
           chunks == NextChunks(reqs, left)
<1>1. left \in [Requests -> Nat]
  BY DEF Left, Minus, Counts
<1>2. /\ todo' = left
      /\ input' = [r \in Requests |-> IF r \in Range(reqs) THEN chunks[r] ELSE input[r]]
  BY DEF Forward
<1> HIDE DEF left
<1>3. \A r \in Range(reqs) : chunks[r] \in Nat
  BY <1>1, ChunkTypes
<1> HIDE DEF chunks
<1>4. input' \in [Requests -> Nat]
  BY <1>2, <1>3 DEF Counts
<1>5. \A k \in 1..Len(reqs) : input'[reqs[k]] = chunks[reqs[k]]
  <2> TAKE k \in 1..Len(reqs)
  <2>1. reqs[k] \in Range(reqs) /\ reqs[k] \in Requests
    BY DEF Range
  <2> QED BY <1>2, <2>1
<1>6. Lean(input', reqs)
  <2> DEFINE v == input'
  <2>1. v \in [Requests -> Nat] /\ \A k \in 1..Len(reqs) : v[reqs[k]] = NextChunks(reqs, left)[reqs[k]]
    BY <1>4, <1>5 DEF chunks
  <2> HIDE DEF v
  <2>2. Lean(v, reqs)
    BY <1>1, <2>1, ChunksLean
  <2> QED BY <2>2 DEF v
<1> QED BY <1>1, <1>2, <1>4, <1>6 DEF Counts

\* A batch that is admitted puts its prompts in the next pass, the last one cut.
LEMMA AdmitCost ==
    ASSUME NEW nb, NEW budget \in Nat, Counts, Admit(nb),
           nb.batch \in Seq(Requests), IsInjective(nb.batch), nb.batch # <<>>,
           Priced(nb.batch, nb.chunk, budget, Requests)
    PROVE  /\ Counts' /\ Total(input', nb.batch) <= budget
           /\ \A r \in Requests \ Range(nb.batch) : input'[r] = input[r]
<1> DEFINE t == nb.batch
           k == nb.chunk
           v == input'
<1>1. /\ todo' = [r \in Requests |-> IF r \in Range(t) THEN InputLength[r] ELSE todo[r]]
      /\ v = [r \in Requests |->
                IF r \notin Range(t) THEN input[r]
                ELSE IF k > 0 /\ r = Last(t) THEN k ELSE InputLength[r]]
  BY DEF Admit
<1>2. t \in Seq(Requests) /\ IsInjective(t) /\ t # <<>> /\ Priced(t, k, budget, Requests)
  OBVIOUS
<1> HIDE DEF t, k, v
<1>3. InputLength \in [Requests -> Nat] /\ InputLength \in [Requests -> Nat \ {0}]
  BY BatcherAssumption
<1>4. k \in Nat
  BY <1>2 DEF Priced
<1>5. v \in [Requests -> Nat] /\ todo' \in [Requests -> Nat]
  BY <1>1, <1>3, <1>4 DEF Counts
<1>6. \A r \in Requests \ Range(t) : v[r] = input[r]
  BY <1>1
<1>7. Total(v, t) <= budget
  <2>1. CASE k = 0 /\ Total(InputLength, t) <= budget
    <3>1. \A i \in 1..Len(t) : v[t[i]] = InputLength[t[i]]
      <4> TAKE i \in 1..Len(t)
      <4>1. t[i] \in Range(t) /\ t[i] \in Requests
        BY <1>2 DEF Range
      <4> QED BY <1>1, <2>1, <4>1
    <3>2. Total(v, t) = Total(InputLength, t)
      BY <1>2, <3>1, TotalSame
    <3> QED BY <2>1, <3>2
  <2>2. CASE /\ k \in Nat \ {0}
             /\ \E c \in Seq(Requests), e \in Requests :
                   t = Append(c, e) /\ Total(InputLength, c) + k <= budget
    <3>1. PICK c \in Seq(Requests), e \in Requests :
             t = Append(c, e) /\ Total(InputLength, c) + k <= budget
      BY <2>2
    <3>2. /\ Len(t) = Len(c) + 1 /\ Len(c) \in Nat /\ t[Len(c) + 1] = e
          /\ \A i \in 1..Len(c) : t[i] = c[i]
          /\ DOMAIN t = 1..(Len(c) + 1)
      BY <3>1, AppendProperties
    <3>3. Last(t) = e
      BY <3>2 DEF Last
    <3>4. v[e] = k
      <4>1. e \in Range(t)
        BY <3>2 DEF Range
      <4> QED BY <1>1, <2>2, <3>3, <4>1
    <3>5. \A i \in 1..Len(c) : v[c[i]] = InputLength[c[i]]
      <4> TAKE i \in 1..Len(c)
      <4>1. i \in DOMAIN t /\ Len(c) + 1 \in DOMAIN t /\ i # Len(c) + 1
        BY <3>2
      <4>2. t[i] # t[Len(c) + 1]
        BY <1>2, <4>1 DEF IsInjective
      <4>3. c[i] # e /\ c[i] \in Range(t) /\ c[i] \in Requests
        BY <3>2, <4>1, <4>2 DEF Range
      <4> QED BY <1>1, <3>3, <4>3
    <3>6. Total(v, c) = Total(InputLength, c)
      BY <3>5, TotalSame
    <3>7. Total(v, t) = Total(v, c) + v[e]
      BY <3>1, TotalAppend
    <3> QED BY <3>1, <3>4, <3>6, <3>7
  <2> QED BY <1>2, <2>1, <2>2 DEF Priced
<1> QED BY <1>5, <1>6, <1>7 DEF Counts, t, v

\* A pass stays within the budget: the running batch is lean, and what joins it
\* fits in what it leaves, rounded up to a block.
BudgetInv ==
    /\ Counts
    /\ pc \in {"loop", "decode"} => Lean(input, batches[1].reqs)
    /\ pc = "prefill" => Pass(PrefillReqs) <= MaxBatchPrefillTokens + BlockSize - 1
    /\ pc \in {"filterPrefill", "filterDecode"} => fresh = None \/ Lean(input, fresh.reqs)

\* It holds when the server starts.
LEMMA BudgetInit == Init => BudgetInv
  BY DEF Init, BudgetInv, Counts

\* What the prefill call gets, in terms of the batches.
LEMMA Together ==
    ASSUME NEW bs, NEW f, Real(f),
           \/ bs = <<>>
           \/ bs = <<bs[1]>> /\ Real(bs[1]) /\ Ids(bs[1]) \cap Ids(f) = {}
    PROVE  /\ Concat(bs, f.reqs) \in Seq(Requests) /\ IsInjective(Concat(bs, f.reqs))
           /\ Concat(bs, f.reqs) # <<>>
           /\ bs = <<>> => Concat(bs, f.reqs) = f.reqs
           /\ bs # <<>> => Concat(bs, f.reqs) = bs[1].reqs \o f.reqs
<1>1. CASE bs = <<>>
  <2> DEFINE t == f.reqs
  <2>1. t \in Seq(Requests) /\ IsInjective(t) /\ t # <<>>
    BY DEF Real
  <2> HIDE DEF t
  <2>2. Concat(bs, t) = t
    BY <1>1, <2>1, ConcatNone
  <2> QED BY <1>1, <2>1, <2>2 DEF t
<1>2. CASE bs = <<bs[1]>> /\ Real(bs[1]) /\ Ids(bs[1]) \cap Ids(f) = {}
  <2> DEFINE a == bs[1]
  <2>1. bs = <<a>> /\ Real(a) /\ Ids(a) \cap Ids(f) = {}
    BY <1>2
  <2> HIDE DEF a
  <2>2. /\ Concat(<<a>>, f.reqs) = a.reqs \o f.reqs
        /\ a.reqs \o f.reqs \in Seq(Requests) /\ a.reqs \o f.reqs # <<>>
        /\ IsInjective(a.reqs \o f.reqs)
    BY <2>1, TogetherFacts
  <2>3. bs # <<>>
    BY <2>1
  <2> QED BY <2>1, <2>2, <2>3, Zenon DEF a
<1> QED BY <1>1, <1>2

\* Before a prefill the batches are as Together wants them.
LEMMA PrefillShape ==
    ASSUME ChunkInv, pc = "prefill"
    PROVE  /\ Real(fresh)
           /\ \/ batches = <<>>
              \/ /\ batches = <<batches[1]>> /\ Real(batches[1])
                 /\ Ids(batches[1]) \cap Ids(fresh) = {}
  BY DEF ChunkInv, PrefillInv, Running

\* The invariant gives the property.
LEMMA BudgetWithin ==
    ASSUME SupportChunking, ChunkInv, BudgetInv
    PROVE  ForwardWithinBudget
<1>1. MaxBatchPrefillTokens \in Nat /\ BlockSize \in Nat \ {0} /\ input \in [Requests -> Nat]
  BY BatcherAssumption DEF BudgetInv, Counts
<1>2. ASSUME NEW x \in Nat, NEW m \in Nat, x <= MaxBatchPrefillTokens + BlockSize - 1
      PROVE  x <= Maximum(MaxBatchPrefillTokens + BlockSize - 1, m)
  BY <1>1, <1>2 DEF Maximum
<1>3. ASSUME NEW x \in Nat, NEW m \in Nat, x <= Maximum(MaxBatchPrefillTokens, m)
      PROVE  x <= Maximum(MaxBatchPrefillTokens + BlockSize - 1, m)
  BY <1>1, <1>3 DEF Maximum
<1>4. ASSUME pc = "prefill"
      PROVE  Pass(PrefillReqs) <= Maximum(MaxBatchPrefillTokens + BlockSize - 1, Len(PrefillReqs))
  <2> DEFINE t == PrefillReqs
  <2>1. t = Concat(batches, fresh.reqs)
    BY DEF PrefillReqs
  <2>2. t \in Seq(Requests)
    BY <1>4, <2>1, PrefillShape, Together
  <2>3. Pass(t) <= MaxBatchPrefillTokens + BlockSize - 1
    BY <1>4 DEF BudgetInv
  <2> HIDE DEF t
  <2>4. Pass(t) \in Nat /\ Len(t) \in Nat
    BY <1>1, <2>2, TotalNat DEF Pass
  <2>5. Pass(t) <= Maximum(MaxBatchPrefillTokens + BlockSize - 1, Len(t))
    BY <1>2, <2>3, <2>4
  <2> QED BY <2>5 DEF t
<1>5. ASSUME pc = "decode"
      PROVE  Pass(DecodeReqs) <= Maximum(MaxBatchPrefillTokens + BlockSize - 1, Len(DecodeReqs))
  <2> DEFINE a == batches[1]
             t == a.reqs
  <2>1. Real(a) /\ batches = <<a>> /\ Lean(input, t)
    BY <1>5 DEF ChunkInv, RunInv, Running, BudgetInv
  <2>2. t \in Seq(Requests)
    BY <2>1 DEF Real
  <2>3. DecodeReqs = t
    BY <2>1, AloneFacts DEF DecodeReqs
  <2> HIDE DEF t
  <2>4. Pass(t) \in Nat /\ Len(t) \in Nat
    BY <1>1, <2>2, TotalNat DEF Pass
  <2>5. Pass(t) <= Maximum(MaxBatchPrefillTokens, Len(t))
    BY <2>1 DEF Pass, Lean
  <2>6. Pass(t) <= Maximum(MaxBatchPrefillTokens + BlockSize - 1, Len(t))
    BY <1>3, <2>4, <2>5
  <2> QED BY <2>3, <2>6
<1> QED BY <1>4, <1>5, Zenon DEF ForwardWithinBudget

\* Steps that neither run nor form a batch keep it.
LEMMA BudgetQuiet ==
    ASSUME BudgetInv, UNCHANGED <<batches, fresh, input, todo>>,
           \/ pc' = pc
           \/ pc' \in Resting
           \/ pc = "loop" /\ pc' = "decode"
    PROVE  BudgetInv'
<1>1. Counts'
  BY DEF BudgetInv, Counts
<1>2. Pass(PrefillReqs)' = Pass(PrefillReqs)
  BY DEF Pass, PrefillReqs
<1> QED BY <1>1, <1>2 DEF BudgetInv, Resting

\* A pass that succeeds leaves a lean batch to filter.
LEMMA BudgetPass ==
    ASSUME BudgetInv, NEW reqs \in Seq(Requests), IsInjective(reqs), reqs # <<>>,
           NEW S, NEW id, Forward(reqs),
           fresh' = IF S = Range(reqs) THEN None ELSE Batch(id, reqs),
           pc' \in {"filterPrefill", "filterDecode", "dead"}
    PROVE  BudgetInv'
<1>1. Counts' /\ Lean(input', reqs)
  BY ForwardLean DEF BudgetInv
<1>2. fresh' = None \/ fresh'.reqs = reqs
  BY DEF Batch
<1>3. fresh' = None \/ Lean(input, fresh.reqs)'
  BY <1>1, <1>2
<1> QED BY <1>1, <1>3 DEF BudgetInv

\* The first pull of a round.
LEMMA BudgetPullFirst ==
    ASSUME SupportChunking, Inv, ChunkInv, BudgetInv, PullFirst
    PROVE  BudgetInv'
<1> DEFINE nb == NextBatch(queue, Closed, 0, MaxBatchSize, MaxBatchPrefillTokens,
                           MaxBatchTotalTokens, FreeBlocks)
           budget == Rounded(MaxBatchPrefillTokens)
<1>1. \/ pc' = "start" /\ UNCHANGED <<batches, fresh, input, todo>>
      \/ nb.batch # NoBatch /\ Admit(nb)
  BY Zenon DEF PullFirst, shardVars
<1>2. queue \in Seq(Requests) /\ IsInjective(queue)
  BY DEF Inv, QueueInv, IsInjective
<1>3. Ordered(nb, queue, Closed, Requests)
  BY <1>2, NextBatchOrdered
<1>4. budget \in Nat /\ budget <= MaxBatchPrefillTokens + BlockSize - 1
  BY RoundedBound, BatcherAssumption
<1>5. Priced(nb.batch, nb.chunk, budget, Requests)
  <2>1. /\ MaxBatchPrefillTokens \in Nat /\ ~RequiresPadding /\ BlockSize \in Nat \ {0}
        /\ InputLength \in [Requests -> Nat]
    BY BatcherAssumption
  <2> QED BY <1>2, <2>1, NextBatchPriced
<1> HIDE DEF nb, budget
<1>6. CASE pc' = "start" /\ UNCHANGED <<batches, fresh, input, todo>>
  BY <1>6, BudgetQuiet DEF Resting
<1>7. CASE nb.batch # NoBatch /\ Admit(nb)
  <2> DEFINE t == nb.batch
  <2>1. t \in Seq(Requests) /\ IsInjective(t) /\ t # <<>>
    BY <1>2, <1>3, <1>7, PulledInjective DEF NoBatch
  <2>2. Counts' /\ Total(input', t) <= budget
    BY <1>4, <1>5, <1>7, <2>1, AdmitCost DEF BudgetInv
  <2>3. /\ fresh' = Batch(nextId, t) /\ batches' = batches /\ pc' = "prefill"
        /\ batches = <<>>
    BY <1>7 DEF Admit, PullFirst, ChunkInv, RestInv, Resting
  <2>4. fresh'.reqs = t
    BY <2>3 DEF Batch
  <2> HIDE DEF t
  <2>5. PrefillReqs' = t
    BY <2>1, <2>3, <2>4, ConcatNone DEF PrefillReqs
  <2>6. Pass(PrefillReqs)' = Total(input', t)
    BY <2>5 DEF Pass
  <2>7. Total(input', t) \in Nat
    <3> DEFINE v == input'
    <3>1. v \in [Requests -> Nat]
      BY <2>2 DEF Counts
    <3> HIDE DEF v
    <3>2. Total(v, t) \in Nat
      BY <2>1, <3>1, TotalNat
    <3> QED BY <3>2 DEF v
  <2>8. Pass(PrefillReqs)' <= MaxBatchPrefillTokens + BlockSize - 1
    BY <1>4, <2>2, <2>6, <2>7, BatcherAssumption
  <2> QED BY <2>2, <2>3, <2>8 DEF BudgetInv
<1> QED BY <1>1, <1>6, <1>7

\* Requests that join the running batch get what it leaves of the budget.
LEMMA BudgetPullMore ==
    ASSUME SupportChunking, Inv, ChunkInv, BudgetInv, PullMore
    PROVE  BudgetInv'
<1> DEFINE b == batches[1]
           s == b.reqs
           nb == NextBatch(queue, Closed, MinSize(b), MaxSize(b), PrefillBudget(b),
                           Minus(MaxBatchTotalTokens, BatchTokens(b)), FreeBlocks)
           rest == PrefillBudget(b)
           budget == Rounded(rest)
           used == Total(input, s)
<1>1. \/ pc' = "decode" /\ UNCHANGED <<batches, fresh, input, todo>>
      \/ nb.batch # NoBatch /\ Admit(nb)
  BY Zenon DEF PullMore, shardVars
<1>2. queue \in Seq(Requests) /\ IsInjective(queue)
  BY DEF Inv, QueueInv, IsInjective
<1>3. Ordered(nb, queue, Closed, Requests)
  BY <1>2, NextBatchOrdered
<1>4. pc = "loop" /\ batches = <<b>> /\ Real(b) /\ entries = Ids(b)
  BY DEF PullMore, ChunkInv, RunInv, Running
<1>5. s \in Seq(Requests) /\ input \in [Requests -> Nat]
  BY <1>4 DEF Real, BudgetInv, Counts
<1>6. used \in Nat
  <2> HIDE DEF s
  <2> QED BY <1>5, TotalNat
<1>7. rest = Minus(MaxBatchPrefillTokens, used)
  BY DEF PrefillBudget, CurrentTokens
<1>8. rest \in Nat /\ (rest # 0 => used + rest = MaxBatchPrefillTokens)
  <2> HIDE DEF used, rest
  <2> QED BY <1>6, <1>7, BatcherAssumption DEF Minus
<1>9. budget \in Nat /\ budget <= rest + BlockSize - 1
  <2> HIDE DEF rest
  <2> QED BY <1>8, RoundedBound, BatcherAssumption
<1>10. /\ Priced(nb.batch, nb.chunk, budget, Requests)
       /\ nb.batch # <<>> => rest # 0
  <2>1. /\ ~RequiresPadding /\ BlockSize \in Nat \ {0}
        /\ InputLength \in [Requests -> Nat]
    BY BatcherAssumption
  <2> HIDE DEF b, rest
  <2> QED BY <1>2, <1>8, <2>1, NextBatchPriced DEF rest
<1> HIDE DEF nb, budget, rest
<1>11. CASE pc' = "decode" /\ UNCHANGED <<batches, fresh, input, todo>>
  BY <1>4, <1>11, BudgetQuiet
<1>12. CASE nb.batch # NoBatch /\ Admit(nb)
  <2> DEFINE t == nb.batch
             v == input'
  <2>1. t \in Seq(Requests) /\ IsInjective(t) /\ t # <<>>
    BY <1>2, <1>3, <1>12, PulledInjective DEF NoBatch
  <2>2. /\ Counts' /\ Total(v, t) <= budget
        /\ \A r \in Requests \ Range(t) : v[r] = input[r]
    BY <1>9, <1>10, <1>12, <2>1, AdmitCost DEF BudgetInv
  <2>3. fresh' = Batch(nextId, t) /\ batches' = batches /\ pc' = "prefill"
    BY <1>12 DEF Admit
  <2>4. fresh'.reqs = t
    BY <2>3 DEF Batch
  <2>5. Apart(Range(t), nb.queue, queue, Closed)
    BY <1>2, <1>3, PulledApart DEF IsInjective
  <2> HIDE DEF t
  <2>6. Ids(b) \cap Range(t) = {}
    BY <1>4, <2>5 DEF Apart, Inv, OwnerInv
  <2>7. PrefillReqs' = s \o t
    <3>1. PrefillReqs' = Concat(<<b>>, t)
      BY <1>4, <2>3, <2>4 DEF PrefillReqs
    <3> HIDE DEF b
    <3> QED BY <1>5, <2>1, <3>1, ConcatOne
  <2>8. v \in [Requests -> Nat]
    BY <2>2 DEF Counts
  <2>9. \A i \in 1..Len(s) : v[s[i]] = input[s[i]]
    <3> TAKE i \in 1..Len(s)
    <3>1. s[i] \in Range(s) /\ s[i] \in Requests
      <4> HIDE DEF s
      <4> QED BY <1>5 DEF Range
    <3>2. s[i] \notin Range(t)
      BY <2>6, <3>1 DEF Ids
    <3> QED BY <2>2, <3>1, <3>2
  <2> HIDE DEF s, v
  <2>10. Total(v, s) = used
    BY <1>5, <2>9, TotalSame
  <2>11. Total(v, s \o t) = used + Total(v, t) /\ Total(v, t) \in Nat
    BY <1>5, <2>1, <2>8, <2>10, TotalConcat, TotalNat
  <2>12. Pass(PrefillReqs)' = Total(v, s \o t)
    BY <2>7 DEF Pass, v
  <2>13. rest # 0
    BY <1>10, <2>1 DEF t
  <2> HIDE DEF used
  <2>14. Pass(PrefillReqs)' <= MaxBatchPrefillTokens + BlockSize - 1
    BY <1>6, <1>8, <1>9, <2>2, <2>11, <2>12, <2>13, BatcherAssumption
  <2> QED BY <2>2, <2>3, <2>14 DEF BudgetInv
<1> QED BY <1>1, <1>11, <1>12

\* Filtering keeps a batch lean.
LEMMA BudgetFilter ==
    ASSUME SupportChunking, ChunkInv, BudgetInv, Filter
    PROVE  BudgetInv'
<1> DEFINE F == Filtered
<1>1. /\ batches = <<>> /\ Counts
      /\ fresh = None \/ (Real(fresh) /\ Lean(input, fresh.reqs))
  BY DEF Filter, ChunkInv, FilterInv, BudgetInv
<1>2. /\ batches' = IF F = None THEN batches ELSE Append(batches, F)
      /\ IF F = None THEN pc' = "outer" ELSE pc' \in {"decode", "loop"}
      /\ UNCHANGED <<input, todo>>
  BY DEF Filter, AfterEmptyPrefill
<1>3. Counts'
  BY <1>1, <1>2 DEF Counts
<1>4. F = None \/ Lean(input, F.reqs)
  <2>1. CASE NothingToFilter
    <3>1. F = fresh
      BY <2>1 DEF Filtered
    <3> QED BY <1>1, <3>1
  <2>2. CASE ~NothingToFilter /\ Retained = {}
    BY <2>2 DEF Filtered
  <2>3. CASE ~NothingToFilter /\ Retained # {}
    <3> DEFINE s == fresh.reqs
    <3>1. s \in Seq(Requests) /\ IsInjective(s) /\ Lean(input, s)
      BY <1>1, <2>3 DEF NothingToFilter, Real
    <3>2. F.reqs = FilterShard(s, Retained)
      BY <2>3 DEF Filtered, Batch
    <3>3. FilterShard(s, Retained) = s \/ FilterShard(s, Retained) = Only(s, Retained)
      BY DEF FilterShard
    <3> HIDE DEF s, F
    <3>4. Lean(input, Only(s, Retained))
      <4> DEFINE v == input
                 S == Retained
      <4>1. v \in [Requests -> Nat] /\ Lean(v, s)
        BY <1>1, <3>1 DEF Counts
      <4> HIDE DEF v, S
      <4>2. Lean(v, Only(s, S))
        BY <3>1, <4>1, LeanOnly
      <4> QED BY <4>2 DEF v, S
    <3> QED BY <3>1, <3>2, <3>3, <3>4
  <2> QED BY <2>1, <2>2, <2>3
<1> HIDE DEF F
<1>5. CASE F = None
  BY <1>2, <1>3, <1>5 DEF BudgetInv
<1>6. CASE F # None
  <2>1. batches' = <<F>>
    BY <1>1, <1>2, <1>6
  <2>2. batches'[1] = F
    BY <2>1
  <2>3. Lean(input, batches[1].reqs)'
    BY <1>2, <1>4, <1>6, <2>2
  <2> QED BY <1>2, <1>3, <1>6, <2>3 DEF BudgetInv
<1> QED BY <1>5, <1>6

\* Every step of a server with chunking keeps it.
LEMMA BudgetNext ==
    ASSUME SupportChunking, Inv, ChunkInv, BudgetInv, [Next]_vars
    PROVE  BudgetInv'
<1>1. CASE UNCHANGED vars
  BY <1>1, BudgetQuiet DEF vars, taskVars, shardVars
<1>2. ASSUME NEW r \in Requests, Schedule(r) \/ NotifyOne(r) \/ Disconnect(r)
      PROVE  BudgetInv'
  BY <1>2, BudgetQuiet DEF Schedule, NotifyOne, Disconnect, taskVars, shardVars
<1>3. CASE StartWait \/ Wake
  BY <1>3, BudgetQuiet DEF StartWait, Wake, shardVars, Resting
<1>4. CASE PullFirst
  BY <1>4, BudgetPullFirst
<1>5. CASE PullMore
  BY <1>5, BudgetPullMore
<1>6. ASSUME NEW S, PrefillSucceeds(S) PROVE BudgetInv'
  <2> DEFINE reqs == PrefillReqs
             id == PrefillId
  <2>1. reqs = Concat(batches, fresh.reqs) /\ pc = "prefill"
    BY <1>6 DEF PrefillReqs, PrefillSucceeds
  <2>2. reqs \in Seq(Requests) /\ IsInjective(reqs) /\ reqs # <<>>
    BY <2>1, PrefillShape, Together
  <2>3. /\ Forward(reqs) /\ fresh' = IF S = Range(reqs) THEN None ELSE Batch(id, reqs)
        /\ pc' \in {"filterPrefill", "filterDecode", "dead"}
    BY <1>6 DEF PrefillSucceeds, SendGenerations
  <2> HIDE DEF reqs, id
  <2> QED BY <2>2, <2>3, BudgetPass
<1>7. ASSUME NEW S, DecodeSucceeds(S) PROVE BudgetInv'
  <2> DEFINE b == batches[1]
             reqs == DecodeReqs
             id == b.id
  <2>1. Real(b) /\ batches = <<b>>
    BY <1>7 DEF DecodeSucceeds, ChunkInv, RunInv, Running
  <2>2. reqs = b.reqs
    BY <2>1, AloneFacts DEF DecodeReqs
  <2>3. reqs \in Seq(Requests) /\ IsInjective(reqs) /\ reqs # <<>>
    BY <2>1, <2>2 DEF Real
  <2>4. /\ Forward(reqs) /\ fresh' = IF S = Range(reqs) THEN None ELSE Batch(id, reqs)
        /\ pc' \in {"filterPrefill", "filterDecode", "dead"}
    BY <1>7 DEF DecodeSucceeds, SendGenerations
  <2> HIDE DEF reqs, id
  <2> QED BY <2>3, <2>4, BudgetPass
<1>8. ASSUME NEW S, NEW o, PrefillFails(o, S) \/ DecodeFails(o, S) PROVE BudgetInv'
  <2>1. pc' = "outer" /\ UNCHANGED <<input, todo>>
    BY <1>8, Zenon DEF PrefillFails, DecodeFails, AfterEmptyPrefill
  <2> QED BY <2>1 DEF BudgetInv, Counts
<1>9. CASE Filter
  BY <1>9, BudgetFilter
<1>10. CASE Quiescent
  BY <1>1, <1>10 DEF Quiescent
<1> QED
  BY <1>1, <1>2, <1>3, <1>4, <1>5, <1>6, <1>7, <1>8, <1>9, <1>10, Zenon DEF Next, Task

\* ForwardWithinBudget, for every server with chunking: however requests join, leave
\* and are cut, no forward pass takes more than max_batch_prefill_tokens rounded up
\* to a block, unless one token for each of its requests is already more.
THEOREM ForwardWithinBudgetCorrect ==
    ASSUME SupportChunking
    PROVE  Spec => []ForwardWithinBudget
<1>1. Init => BudgetInv
  BY BudgetInit
<1>2. Inv /\ ChunkInv /\ BudgetInv /\ [Next]_vars => BudgetInv'
  BY BudgetNext
<1>3. ChunkInv /\ BudgetInv => ForwardWithinBudget
  BY BudgetWithin
<1> QED BY InvCorrect, ChunkInvCorrect, <1>1, <1>2, <1>3, PTL DEF Spec
=============================================================================
