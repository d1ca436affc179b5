------------------------------ MODULE QueueTask ------------------------------
(***************************************************************************)
(* The task that owns the request queue, on its own: entries are appended, *)
(* clients leave, and a caller asks for batches with any budgets it may    *)
(* have at that moment.  What it is given is compared with a definition of *)
(* the batch it should get that does not go through the entry loop.        *)
(***************************************************************************)
EXTENDS RequestQueue, FiniteSets, FiniteSetsExt

CONSTANTS
    Requests,
    Calls    \* [min, max, prefill, tokens, room]: the arguments of a call

ASSUME QueueAssumption ==
    /\ InputLength \in [Requests -> Nat \ {0}]
    /\ MaxNewTokens \in [Requests -> Nat \ {0}]
    /\ BlockSize \in Nat \ {0} /\ Speculate \in Nat
    /\ {SupportChunking, RequiresPadding} \subseteq BOOLEAN
    /\ \A c \in Calls : /\ {c.min, c.prefill, c.tokens, c.room} \subseteq Nat
                         /\ c.max \in Nat \cup {NoMax}

VARIABLES
    queue,    \* entries waiting, front first
    seen,     \* requests that were appended
    closed,   \* requests whose client is gone
    last      \* the call just served: its arguments, what it found and returned

vars == <<queue, seen, closed, last>>

NoCall == [answer |-> [batch |-> NoBatch]]

Init == queue = <<>> /\ seen = {} /\ closed = {} /\ last = NoCall

\* QueueCommand::Append
AppendEntry(r) ==
    /\ r \notin seen
    /\ queue' = Append(queue, r)
    /\ seen' = seen \cup {r}
    /\ last' = NoCall
    /\ UNCHANGED closed

\* The client of a request drops its stream.
Disconnect(r) ==
    /\ r \in seen \ closed
    /\ closed' = closed \cup {r}
    /\ last' = NoCall
    /\ UNCHANGED <<queue, seen>>

\* QueueCommand::NextBatch
ServeNextBatch(c) ==
    /\ last' = [call |-> c, before |-> queue, closed |-> closed,
                answer |-> NextBatch(queue, closed, c.min, c.max, c.prefill,
                                     c.tokens, c.room)]
    /\ queue' = last'.answer.queue
    /\ UNCHANGED <<seen, closed>>

Next ==
    \/ \E r \in Requests : AppendEntry(r) \/ Disconnect(r)
    \/ \E c \in Calls : ServeNextBatch(c)

Spec == Init /\ [][Next]_vars
-----------------------------------------------------------------------------
Called == last # NoCall
Answer == last.answer
Open(s) == Only(s, Requests \ last.closed)
First(n) == SubSeq(Open(last.before), 1, n)
NeededBlocks == [r \in Requests |-> BlocksOf(r)]

Budget == CeilDivision(last.call.prefill, BlockSize) * BlockSize
Longest(s) == Max({0} \cup {InputLength[r] : r \in Range(s)})

\* Can the entries of s be prefilled, and decoded to their end, together?
FitsMemory(s) ==
    IF RequiresPadding
    THEN Len(s) * Longest(s) + Total(MaxNewTokens, s) + Speculate <= last.call.tokens
    ELSE Total(NeededBlocks, s) <= last.call.room
FitsPass(s) ==
    (IF RequiresPadding THEN Len(s) * Longest(s) ELSE Total(InputLength, s)) <= Budget
Fits(s) == FitsMemory(s) /\ FitsPass(s)

\* The reference: the longest run of waiting entries that fits ...
Whole ==
    Max({n \in 0..Len(Open(last.before)) :
            /\ n = 0 \/ Fits(First(n))
            /\ last.call.max = NoMax \/ n <= last.call.max})
\* ... and a part of the entry behind it, when a part is all that does not fit.
Chunked ==
    /\ SupportChunking /\ ~RequiresPadding
    /\ Whole < Len(Open(last.before)) /\ Whole # last.call.max
    /\ FitsMemory(First(Whole + 1))
    /\ Total(InputLength, First(Whole)) < Budget
Size == IF Chunked THEN Whole + 1 ELSE Whole
Refused ==
    \/ last.call.prefill = 0 \/ last.call.tokens = 0 \/ last.call.max = 0
    \/ Len(last.before) < last.call.min
    \/ Size < last.call.min

\* next_batch returns the longest run of entries from the front of the queue
\* that its budgets allow, and with chunking a part of one more, with exactly
\* the tokens that fill the pass; it returns nothing when that is fewer than
\* min_size.
LongestRun ==
    Called =>
        /\ Answer.batch = IF Refused THEN <<>> ELSE First(Size)
        /\ Answer.batch # <<>> =>
             Answer.chunk = IF Chunked THEN Budget - Total(InputLength, First(Whole)) ELSE 0

\* An entry whose client is there is never lost nor overtaken: the batch
\* followed by the open entries that stay is the queue as it was.
NothingLost ==
    Called => Answer.batch \o Open(Answer.queue) = Open(last.before)
=============================================================================
