----------------------------- MODULE Scheduler -----------------------------
(***************************************************************************)
(* The admission rule of the toilet queue: which waiting requests          *)
(* MutationService._schedule (src/service.py) turns from pending into      *)
(* active, as a condition on the set it activates.                         *)
(*                                                                         *)
(* The code walks the pending toilet requests in (created_at, id) order    *)
(* with two accumulators: free, the places left in every toilet, and       *)
(* blocked_resources, the toilets claimed by somebody further up the queue *)
(* who could not be admitted.  The condition below says the same of each   *)
(* request without the walk; SchedulerLoop has the walk and is checked to  *)
(* compute exactly this set.                                               *)
(***************************************************************************)
EXTENDS Naturals, FiniteSets

CONSTANTS
    RequestIds,   \* the ids the requests table can hand out
    ToiletIds     \* the ids the toilets table can hand out

ASSUME IdsAssumption ==
    /\ RequestIds \in SUBSET Nat
    /\ IsFiniteSet(RequestIds)

-----------------------------------------------------------------------------
(* order_by(Request.created_at, Request.id): q is further up than r. *)
Senior(created, q, r) ==
    \/ created[q] < created[r]
    \/ created[q] = created[r] /\ q < r

(* The requests of S that hold, or want, toilet t. *)
Users(S, locks, t) == {r \in S : t \in locks[r]}

(* required & blocked_resources: q and r have a toilet in common. *)
Compete(locks, q, r) == locks[q] \cap locks[r] # {}

(* No toilet r needs was added to blocked_resources before r's turn, given *)
(* that A is the set of requests the pass activates.                       *)
\* Mutant: only a queue for the very same toilets bars.
NotBarredMut(r, A, waiting, locks, created) ==
    \A q \in waiting \ A : Senior(created, q, r) => locks[q] # locks[r]
NotBarred(r, A, waiting, locks, created) ==
    \A q \in waiting \ A : Senior(created, q, r) => ~Compete(locks, q, r)

(* free[t] > 0 at r's turn for every toilet r needs: the places not taken  *)
(* by the holders, nor by those the pass admitted ahead of r.              *)
\* Mutant: those the pass itself admitted are not counted.
HasRoomMut(r, A, holders, locks, capacity, created) ==
    \A t \in locks[r] : Cardinality(Users(holders, locks, t)) < capacity[t]
HasRoom(r, A, holders, locks, capacity, created) ==
    \A t \in locks[r] :
        Cardinality(Users(holders, locks, t))
          + Cardinality({q \in Users(A, locks, t) : Senior(created, q, r)})
            < capacity[t]

(* A is the set of requests a pass over `waiting' activates while `holders' *)
(* are active.  A request without a toilet to wait for is skipped.          *)
IsSchedule(A, waiting, holders, locks, capacity, created) ==
    /\ A \subseteq waiting
    /\ \A r \in waiting :
          r \in A <=> /\ locks[r] # {}
                      /\ NotBarred(r, A, waiting, locks, created)
                      /\ HasRoom(r, A, holders, locks, capacity, created)

=============================================================================
