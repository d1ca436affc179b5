------------------------------ MODULE BlockPool ------------------------------
(***************************************************************************)
(* What the block allocator promises to the request queue, with the        *)
(* command channel and the background task abstracted away: an atomic pool *)
(* of KV cache blocks.  A call takes the blocks it needs at the moment it  *)
(* is made, or is refused because fewer are there; a dropped allocation is *)
(* back in the pool at the moment it is dropped.                           *)
(***************************************************************************)
EXTENDS Naturals, FiniteSets

CONSTANTS
    Requests,   \* holders of a BlockAllocation
    Blocks,     \* the usable block ids
    Demands     \* the numbers of blocks a call may need

VARIABLES
    avail,      \* blocks nobody owns
    owned,      \* Requests -> set of blocks
    want,       \* Requests -> blocks its current call needs, or 0
    status      \* Requests -> "none", "granted" or "refused"

poolVars == <<avail, owned, want, status>>

PoolInit ==
    /\ avail = Blocks
    /\ owned = [r \in Requests |-> {}]
    /\ want = [r \in Requests |-> 0]
    /\ status = [r \in Requests |-> "none"]

Grant(r, n) ==
    /\ status[r] = "none"
    /\ \E S \in SUBSET avail :
         /\ Cardinality(S) = n
         /\ avail' = avail \ S
         /\ owned' = [owned EXCEPT ![r] = S]
    /\ status' = [status EXCEPT ![r] = "granted"]
    /\ want' = [want EXCEPT ![r] = n]

Refuse(r, n) ==
    /\ status[r] = "none"
    /\ Cardinality(avail) < n
    /\ status' = [status EXCEPT ![r] = "refused"]
    /\ want' = [want EXCEPT ![r] = n]
    /\ UNCHANGED <<avail, owned>>

Release(r) ==
    /\ status[r] = "granted"
    /\ avail' = avail \cup owned[r]
    /\ owned' = [owned EXCEPT ![r] = {}]
    /\ status' = [status EXCEPT ![r] = "none"]
    /\ want' = [want EXCEPT ![r] = 0]

Requeue(r) ==
    /\ status[r] = "refused"
    /\ status' = [status EXCEPT ![r] = "none"]
    /\ want' = [want EXCEPT ![r] = 0]
    /\ UNCHANGED <<avail, owned>>

PoolNext ==
    \E r \in Requests :
        \/ \E n \in Demands : Grant(r, n) \/ Refuse(r, n)
        \/ Release(r)
        \/ Requeue(r)

PoolSpec == PoolInit /\ [][PoolNext]_poolVars
=============================================================================
