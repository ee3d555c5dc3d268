--------------------------- MODULE SchedulerLoop ---------------------------
(***************************************************************************)
(* MutationService._schedule as the loop it is, over any queue, against    *)
(* the condition IsSchedule the queue is specified with.  A step is one    *)
(* round of the loop, a behaviour one pass.                                *)
(***************************************************************************)
EXTENDS Scheduler, Integers

CONSTANTS
    ArrivalTimes,   \* BOUND: the created_at columns considered
    MaxPlaces       \* BOUND: largest toilets.capacity considered

ASSUME LoopAssumption ==
    /\ ArrivalTimes \subseteq [RequestIds -> Nat]
    /\ MaxPlaces \in Nat

VARIABLES
    queued, visitors,   \* the pending and the active toilet requests
    arrived,            \* their created_at
    required,           \* their toilet_locks
    places,             \* toilets.capacity, 0 where there is no such row
    rest,               \* what is left of `pending'
    free,               \* places left in each toilet
    barred,             \* blocked_resources
    admitted            \* `activated'

queueState == <<queued, visitors, arrived, required, places>>
loopVars == <<queueState, rest, free, barred, admitted>>

(* Any queue: the routes need not be fresh, but a visit has a toilet, and  *)
(* the visits fit (ToiletQueue!WithinCapacity).                            *)
LoopInit ==
    /\ queued \in SUBSET RequestIds
    /\ visitors \in SUBSET (RequestIds \ queued)
    /\ arrived \in ArrivalTimes
    /\ places \in [ToiletIds -> 0..MaxPlaces]
    /\ required \in [RequestIds -> SUBSET {t \in ToiletIds : places[t] > 0}]
    /\ \A r \in RequestIds :
          /\ r \in visitors => required[r] # {}
          /\ r \notin queued \cup visitors => required[r] = {}
    /\ \A t \in ToiletIds : Cardinality(Users(visitors, required, t)) <= places[t]
    /\ rest = queued
    /\ free = [t \in ToiletIds |-> places[t] - Cardinality(Users(visitors, required, t))]
    /\ barred = {}
    /\ admitted = {}

(* `for request in pending', in (created_at, id) order. *)
Turn(r) ==
    /\ r \in rest
    /\ \A q \in rest \ {r} : Senior(arrived, r, q)
    /\ rest' = rest \ {r}
    /\ UNCHANGED queueState

Admissible(r) ==
    /\ required[r] \cap barred = {}
    /\ \A t \in required[r] : free[t] > 0

(* Without a toilet to wait for, the request is skipped.                   *)
Skip(r) ==
    /\ Turn(r)
    /\ required[r] = {}
    /\ UNCHANGED <<free, barred, admitted>>

\* Mutant: a request that has to wait does not bar its toilets.
BarMut(r) ==
    /\ Turn(r)
    /\ required[r] # {} /\ ~Admissible(r)
    /\ UNCHANGED <<free, barred, admitted>>
Bar(r) ==
    /\ Turn(r)
    /\ required[r] # {} /\ ~Admissible(r)
    /\ barred' = barred \cup required[r]
    /\ UNCHANGED <<free, admitted>>

Activate(r) ==
    /\ Turn(r)
    /\ required[r] # {} /\ Admissible(r)
    /\ free' = [t \in ToiletIds |-> IF t \in required[r] THEN free[t] - 1 ELSE free[t]]
    /\ admitted' = admitted \cup {r}
    /\ UNCHANGED barred

LoopNext == \E r \in RequestIds : Skip(r) \/ Bar(r) \/ Activate(r)

LoopSpec == LoopInit /\ [][LoopNext]_loopVars

-----------------------------------------------------------------------------
(* The result of the loop satisfies the condition, and is the only set of  *)
(* waiting requests that does: IsSchedule says neither less nor more than  *)
(* the code.                                                               *)
LoopIsTheSchedule ==
    rest = {} => \A A \in SUBSET queued :
        IsSchedule(A, queued, visitors, required, places, arrived) <=> A = admitted

=============================================================================
