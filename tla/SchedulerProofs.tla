-------------------------- MODULE SchedulerProofs --------------------------
(***************************************************************************)
(* What IsSchedule guarantees of any set it accepts, for any number of     *)
(* requests and toilets: the set is the only one, it fits the toilets and  *)
(* it leaves nobody behind whom a second pass would admit; and that it is  *)
(* the set the loop of the code activates.                                 *)
(***************************************************************************)
EXTENDS SchedulerLoop, FiniteSetTheorems, TLAPS

(* The requests of S have a creation time, which is what orders them. *)
Dated(S, created) == \A r \in S : created[r] \in Nat

-----------------------------------------------------------------------------
(* Seniority is a strict total order on dated requests. *)
LEMMA SeniorIsOrder ==
    ASSUME NEW created, NEW S \in SUBSET RequestIds, Dated(S, created)
    PROVE  /\ \A r \in S : ~Senior(created, r, r)
           /\ \A q, r \in S : q = r \/ Senior(created, q, r) \/ Senior(created, r, q)
           /\ \A p, q, r \in S :
                Senior(created, p, q) /\ Senior(created, q, r) => Senior(created, p, r)
<1>1. \A r \in S : r \in Nat /\ created[r] \in Nat
  BY IdsAssumption DEF Dated
<1> QED BY <1>1, SMT DEF Senior

(* A non-empty set of dated requests has a youngest member and an oldest.  *)
LEMMA YoungestExists ==
    ASSUME NEW created, NEW S \in SUBSET RequestIds, Dated(S, created), S # {}
    PROVE  \E r \in S : \A q \in S : q = r \/ Senior(created, q, r)
<1> DEFINE younger(r) == {q \in S : Senior(created, r, q)}
           family == {younger(r) : r \in S}
<1>1. IsFiniteSet(S)
  BY IdsAssumption, FS_Subset
<1>2. IsWellFoundedOn(StrictSubsetOrdering(S), SUBSET S)
  BY <1>1, FS_StrictSubsetOrderingWellFounded, FS_FiniteSubsetsOfFinite
<1>3. family \subseteq SUBSET S /\ family # {}
  OBVIOUS
<1>4. PICK Y \in family : \A Z \in family : <<Z, Y>> \notin StrictSubsetOrdering(S)
  <2> HIDE DEF family
  <2> QED BY <1>2, <1>3, WFMin
<1>5. PICK r \in S : Y = younger(r)
  BY <1>4
<1>6. younger(r) = {}
  <2> SUFFICES ASSUME NEW q \in younger(r) PROVE FALSE
    OBVIOUS
  <2>1. q \in S /\ q \notin younger(q) /\ younger(q) \subseteq younger(r)
    BY SeniorIsOrder
  <2>2. younger(q) \in SUBSET S /\ younger(r) \in SUBSET S /\ younger(q) # younger(r)
    BY <2>1
  <2>3. <<younger(q), younger(r)>> \in StrictSubsetOrdering(S)
    BY <2>1, <2>2 DEF StrictSubsetOrdering
  <2>4. younger(q) \in family
    BY <2>1
  <2> QED BY <2>3, <2>4, <1>4, <1>5
<1> QED BY <1>6, SeniorIsOrder

LEMMA OldestExists ==
    ASSUME NEW created, NEW S \in SUBSET RequestIds, Dated(S, created), S # {}
    PROVE  \E r \in S : \A q \in S : q = r \/ Senior(created, r, q)
<1> DEFINE older(r) == {q \in S : Senior(created, q, r)}
           family == {older(r) : r \in S}
<1>1. IsFiniteSet(S)
  BY IdsAssumption, FS_Subset
<1>2. IsWellFoundedOn(StrictSubsetOrdering(S), SUBSET S)
  BY <1>1, FS_StrictSubsetOrderingWellFounded, FS_FiniteSubsetsOfFinite
<1>3. family \subseteq SUBSET S /\ family # {}
  OBVIOUS
<1>4. PICK Y \in family : \A Z \in family : <<Z, Y>> \notin StrictSubsetOrdering(S)
  <2> HIDE DEF family
  <2> QED BY <1>2, <1>3, WFMin
<1>5. PICK r \in S : Y = older(r)
  BY <1>4
<1>6. older(r) = {}
  <2> SUFFICES ASSUME NEW q \in older(r) PROVE FALSE
    OBVIOUS
  <2>1. q \in S /\ q \notin older(q) /\ older(q) \subseteq older(r)
    BY SeniorIsOrder
  <2>2. older(q) \in SUBSET S /\ older(r) \in SUBSET S /\ older(q) # older(r)
    BY <2>1
  <2>3. <<older(q), older(r)>> \in StrictSubsetOrdering(S)
    BY <2>1, <2>2 DEF StrictSubsetOrdering
  <2>4. older(q) \in family
    BY <2>1
  <2> QED BY <2>3, <2>4, <1>4, <1>5
<1> QED BY <1>6, SeniorIsOrder

(* Sets of requests are finite, so their sizes add up. *)
LEMMA UsersFinite ==
    ASSUME NEW S \in SUBSET RequestIds, NEW locks, NEW t
    PROVE  /\ IsFiniteSet(Users(S, locks, t))
           /\ Cardinality(Users(S, locks, t)) \in Nat
<1>1. IsFiniteSet(S)
  BY IdsAssumption, FS_Subset
<1>2. IsFiniteSet(Users(S, locks, t))
  BY <1>1, FS_Subset DEF Users
<1> QED BY <1>2, FS_CardinalityType

LEMMA UsersAddUp ==
    ASSUME NEW H \in SUBSET RequestIds, NEW A \in SUBSET RequestIds,
           H \cap A = {}, NEW locks, NEW t
    PROVE  Cardinality(Users(H \cup A, locks, t))
             = Cardinality(Users(H, locks, t)) + Cardinality(Users(A, locks, t))
<1>1. /\ Users(H \cup A, locks, t) = Users(H, locks, t) \cup Users(A, locks, t)
      /\ Users(H, locks, t) \cap Users(A, locks, t) = {}
  BY DEF Users
<1>2. Cardinality({}) = 0
  BY FS_EmptySet
<1>3. Cardinality(Users(H, locks, t) \cup Users(A, locks, t))
        = Cardinality(Users(H, locks, t)) + Cardinality(Users(A, locks, t))
            - Cardinality(Users(H, locks, t) \cap Users(A, locks, t))
  BY UsersFinite, FS_Union
<1>4. Cardinality(Users(H, locks, t)) \in Nat /\ Cardinality(Users(A, locks, t)) \in Nat
  BY UsersFinite
<1>5. Cardinality(Users(H, locks, t) \cap Users(A, locks, t)) = 0
  BY <1>1, <1>2
<1>6. Cardinality(Users(H \cup A, locks, t)) = Cardinality(Users(H, locks, t) \cup Users(A, locks, t))
  BY <1>1
<1> QED BY <1>3, <1>4, <1>5, <1>6

-----------------------------------------------------------------------------
(* A pass never overfills a toilet that was not overfilled before it: the  *)
(* youngest request it admits to the toilet counted all the others.        *)
THEOREM ScheduleFits ==
    ASSUME NEW A, NEW W \in SUBSET RequestIds, NEW H \in SUBSET RequestIds,
           NEW locks, NEW capacity \in [ToiletIds -> Nat], NEW created,
           W \cap H = {}, Dated(W, created),
           IsSchedule(A, W, H, locks, capacity, created),
           NEW t \in ToiletIds,
           Cardinality(Users(H, locks, t)) <= capacity[t]
    PROVE  Cardinality(Users(H \cup A, locks, t)) <= capacity[t]
<1> DEFINE U == Users(A, locks, t)
<1>1. A \in SUBSET RequestIds /\ A \subseteq W /\ H \cap A = {}
  BY DEF IsSchedule
<1>2. Cardinality(Users(H \cup A, locks, t)) = Cardinality(Users(H, locks, t)) + Cardinality(U)
  BY <1>1, UsersAddUp
<1>3. CASE U = {}
  BY <1>2, <1>3, FS_EmptySet, UsersFinite
<1>4. CASE U # {}
  <2>1. U \in SUBSET RequestIds /\ Dated(U, created)
    BY <1>1 DEF Users, Dated
  <2>2. PICK r \in U : \A q \in U : q = r \/ Senior(created, q, r)
    BY <1>4, <2>1, YoungestExists
  <2>3. {q \in U : Senior(created, q, r)} = U \ {r}
    BY <2>1, <2>2, SeniorIsOrder
  <2>4. r \in A /\ t \in locks[r]
    BY DEF Users
  <2>5. HasRoom(r, A, H, locks, capacity, created)
    BY <1>1, <2>4 DEF IsSchedule
  <2>6. Cardinality(Users(H, locks, t)) + Cardinality(U \ {r}) < capacity[t]
    BY <2>3, <2>4, <2>5 DEF HasRoom
  <2>7. Cardinality(U \ {r}) = Cardinality(U) - 1
    BY <1>1, UsersFinite, FS_RemoveElement
  <2>8. Cardinality(U) \in Nat /\ Cardinality(Users(H, locks, t)) \in Nat
    BY <1>1, UsersFinite
  <2>9. capacity[t] \in Nat
    OBVIOUS
  <2> HIDE DEF U
  <2> QED BY <1>2, <2>6, <2>7, <2>8, <2>9
<1> QED BY <1>3, <1>4

(* A second pass admits nobody: a request the first one left is still      *)
(* barred by the same senior, or has no place at a toilet where those the  *)
(* first one admitted are now holders.                                     *)
THEOREM ScheduleIsIdle ==
    ASSUME NEW A, NEW W \in SUBSET RequestIds, NEW H \in SUBSET RequestIds,
           NEW locks, NEW capacity, NEW created,
           W \cap H = {}, \A r \in W : locks[r] \subseteq ToiletIds,
           capacity \in [ToiletIds -> Nat],
           IsSchedule(A, W, H, locks, capacity, created)
    PROVE  IsSchedule({}, W \ A, H \cup A, locks, capacity, created)
<1>1. A \in SUBSET RequestIds /\ A \subseteq W /\ H \cap A = {}
  BY DEF IsSchedule
<1> SUFFICES ASSUME NEW r \in W \ A,
                    locks[r] # {},
                    NotBarred(r, {}, W \ A, locks, created),
                    HasRoom(r, {}, H \cup A, locks, capacity, created)
             PROVE  FALSE
  BY DEF IsSchedule
<1>2. NotBarred(r, A, W, locks, created)
  BY DEF NotBarred
<1>3. HasRoom(r, A, H, locks, capacity, created)
  <2> SUFFICES ASSUME NEW t \in locks[r]
               PROVE  Cardinality(Users(H, locks, t))
                        + Cardinality({q \in Users(A, locks, t) : Senior(created, q, r)})
                          < capacity[t]
    BY DEF HasRoom
  <2> DEFINE ahead == {q \in Users(A, locks, t) : Senior(created, q, r)}
             none == {q \in Users({}, locks, t) : Senior(created, q, r)}
  <2>1. none = {}
    BY DEF Users
  <2>2. Cardinality(Users(H \cup A, locks, t)) + Cardinality(none) < capacity[t]
    BY DEF HasRoom
  <2>3. Cardinality(none) = 0
    BY <2>1, FS_EmptySet
  <2>4. Cardinality(Users(H \cup A, locks, t))
          = Cardinality(Users(H, locks, t)) + Cardinality(Users(A, locks, t))
    BY <1>1, UsersAddUp
  <2>5. /\ IsFiniteSet(ahead)
        /\ Cardinality(ahead) <= Cardinality(Users(A, locks, t))
    BY <1>1, UsersFinite, FS_Subset
  <2>6. /\ Cardinality(ahead) \in Nat
        /\ Cardinality(Users(A, locks, t)) \in Nat
        /\ Cardinality(Users(H, locks, t)) \in Nat
    BY <1>1, <2>5, UsersFinite, FS_CardinalityType
  <2>7. capacity[t] \in Nat
    OBVIOUS
  <2> HIDE DEF ahead, none
  <2>8. Cardinality(Users(H, locks, t)) + Cardinality(ahead) < capacity[t]
    BY <2>2, <2>3, <2>4, <2>5, <2>6, <2>7
  <2> QED BY <2>8 DEF ahead
<1> QED BY <1>2, <1>3 DEF IsSchedule

(* At most one set is a schedule: of two that differ, the oldest request   *)
(* they differ on sees the same queue ahead of it in both.                 *)
THEOREM ScheduleUnique ==
    ASSUME NEW A, NEW B, NEW W \in SUBSET RequestIds, NEW H,
           NEW locks, NEW capacity, NEW created, Dated(W, created),
           IsSchedule(A, W, H, locks, capacity, created),
           IsSchedule(B, W, H, locks, capacity, created)
    PROVE  A = B
<1> DEFINE D == (A \ B) \cup (B \ A)
<1>1. A \subseteq W /\ B \subseteq W
  BY DEF IsSchedule
<1> SUFFICES ASSUME D # {} PROVE FALSE
  OBVIOUS
<1>2. D \in SUBSET RequestIds /\ Dated(D, created)
  BY <1>1 DEF Dated
<1>3. PICK r \in D : \A q \in D : q = r \/ Senior(created, r, q)
  <2> HIDE DEF D
  <2> QED BY <1>2, OldestExists
<1>4. \A q \in W : Senior(created, q, r) => (q \in A <=> q \in B)
  <2> SUFFICES ASSUME NEW q \in W, Senior(created, q, r), q \in D PROVE FALSE
    OBVIOUS
  <2> QED BY <1>2, <1>3, SeniorIsOrder
<1>5. NotBarred(r, A, W, locks, created) <=> NotBarred(r, B, W, locks, created)
  BY <1>4 DEF NotBarred
<1>6. ASSUME NEW t
      PROVE  {q \in Users(A, locks, t) : Senior(created, q, r)}
               = {q \in Users(B, locks, t) : Senior(created, q, r)}
  BY <1>1, <1>4 DEF Users
<1>7. HasRoom(r, A, H, locks, capacity, created)
        <=> HasRoom(r, B, H, locks, capacity, created)
  BY <1>6 DEF HasRoom
<1>8. r \in W
  BY <1>1
<1> QED BY <1>5, <1>7, <1>8 DEF IsSchedule

-----------------------------------------------------------------------------
(* The loop.  Its invariant speaks of the requests whose turn has come:    *)
(* what has been admitted so far is the schedule of a queue that ends      *)
(* there.                                                                  *)
Seen == queued \ rest

(* The pass reads rows of existing requests and toilets. *)
LoopRows ==
    /\ queued \in SUBSET RequestIds /\ visitors \in SUBSET RequestIds
    /\ queued \cap visitors = {}
    /\ arrived \in [RequestIds -> Nat]
    /\ places \in [ToiletIds -> Nat]
    /\ required \in [RequestIds -> SUBSET ToiletIds]

(* The locals of the code, in terms of who has been seen and admitted. *)
LoopInv ==
    /\ LoopRows
    /\ rest \subseteq queued
    /\ \A q \in Seen, r \in rest : Senior(arrived, q, r)
    /\ barred = UNION {required[q] : q \in Seen \ admitted}
    /\ free = [t \in ToiletIds |->
                  places[t] - Cardinality(Users(visitors, required, t))
                            - Cardinality(Users(admitted, required, t))]
    /\ IsSchedule(admitted, Seen, visitors, required, places, arrived)

(* Sets that differ in a request that is not senior to r look the same to r. *)
LEMMA JuniorsDoNotMatter ==
    ASSUME NEW dates, NEW S, NEW r, NEW x, ~Senior(dates, x, r), NEW routes, NEW t
    PROVE  {q \in Users(S \cup {x}, routes, t) : Senior(dates, q, r)}
             = {q \in Users(S, routes, t) : Senior(dates, q, r)}
BY DEF Users

(* Whose turn it is, is junior to everybody seen and senior to the rest. *)
LEMMA TurnSplitsQueue ==
    ASSUME LoopInv, NEW r \in RequestIds, Turn(r)
    PROVE  /\ r \in queued /\ r \notin Seen /\ Seen' = Seen \cup {r}
           /\ LoopRows' /\ rest' \subseteq queued'
           /\ \A q \in Seen : Senior(arrived, q, r) /\ ~Senior(arrived, r, q)
           /\ ~Senior(arrived, r, r)
           /\ \A q \in Seen', s \in rest' : Senior(arrived', q, s)
<1>1. /\ r \in rest /\ rest' = rest \ {r}
      /\ \A q \in rest \ {r} : Senior(arrived, r, q)
      /\ queued' = queued /\ visitors' = visitors /\ arrived' = arrived
      /\ required' = required /\ places' = places
  BY DEF Turn, queueState
<1>2. /\ rest \subseteq queued /\ queued \in SUBSET RequestIds
      /\ \A q \in Seen, s \in rest : Senior(arrived, q, s)
      /\ Dated(queued, arrived)
  BY DEF LoopInv, LoopRows, Dated
<1>3. r \in queued /\ r \notin Seen /\ Seen' = Seen \cup {r} /\ Seen \subseteq queued
  BY <1>1, <1>2 DEF Seen
<1>4. LoopRows' /\ rest' \subseteq queued'
  BY <1>1, <1>2 DEF LoopInv, LoopRows
<1>5. /\ \A q \in queued : ~Senior(arrived, q, q)
      /\ \A p, q, s \in queued : Senior(arrived, p, q) /\ Senior(arrived, q, s) => Senior(arrived, p, s)
  BY <1>2, SeniorIsOrder
<1>6. \A q \in Seen : Senior(arrived, q, r) /\ ~Senior(arrived, r, q)
  BY <1>1, <1>2, <1>3, <1>5
<1>7. \A q \in Seen', s \in rest' : Senior(arrived', q, s)
  BY <1>1, <1>2, <1>3
<1> QED BY <1>3, <1>4, <1>5, <1>6, <1>7

(* The one request more does not change what those before it were told;    *)
(* it joins the schedule exactly if the rule lets it.                      *)
LEMMA ScheduleGrows ==
    ASSUME NEW A, NEW W, NEW H, NEW routes, NEW room, NEW dates, NEW r, r \notin W,
           \A q \in W : Senior(dates, q, r) /\ ~Senior(dates, r, q),
           ~Senior(dates, r, r),
           IsSchedule(A, W, H, routes, room, dates),
           NEW B \in {A, A \cup {r}},
           r \in B <=> /\ routes[r] # {}
                       /\ \A q \in W \ A : ~Compete(routes, q, r)
                       /\ \A t \in routes[r] :
                             Cardinality(Users(H, routes, t))
                               + Cardinality(Users(A, routes, t)) < room[t]
    PROVE  IsSchedule(B, W \cup {r}, H, routes, room, dates)
<1>1. A \subseteq W /\ r \notin A
  BY DEF IsSchedule
<1>2. ASSUME NEW q \in W
      PROVE  q \in B <=> /\ routes[q] # {}
                         /\ NotBarred(q, B, W \cup {r}, routes, dates)
                         /\ HasRoom(q, B, H, routes, room, dates)
  <2>1. q \in B <=> q \in A
    BY <1>2
  <2>2. NotBarred(q, B, W \cup {r}, routes, dates) <=> NotBarred(q, A, W, routes, dates)
    BY <1>2 DEF NotBarred
  <2>3. ASSUME NEW t
        PROVE  {p \in Users(B, routes, t) : Senior(dates, p, q)}
                 = {p \in Users(A, routes, t) : Senior(dates, p, q)}
    BY <1>2, JuniorsDoNotMatter
  <2>4. HasRoom(q, B, H, routes, room, dates) <=> HasRoom(q, A, H, routes, room, dates)
    BY <2>3 DEF HasRoom
  <2> QED BY <2>1, <2>2, <2>4, <1>2 DEF IsSchedule
<1>3. NotBarred(r, B, W \cup {r}, routes, dates) <=> \A q \in W \ A : ~Compete(routes, q, r)
  BY <1>1 DEF NotBarred
<1>4. ASSUME NEW t
      PROVE  {p \in Users(B, routes, t) : Senior(dates, p, r)} = Users(A, routes, t)
  BY <1>1 DEF Users
<1>5. HasRoom(r, B, H, routes, room, dates)
        <=> \A t \in routes[r] : Cardinality(Users(H, routes, t))
                                   + Cardinality(Users(A, routes, t)) < room[t]
  BY <1>4 DEF HasRoom
<1> QED BY <1>1, <1>2, <1>3, <1>5 DEF IsSchedule

(* What the code asks of its locals is what the rule asks of the queue.    *)
LEMMA AdmissibleIsTheRule ==
    ASSUME LoopInv, NEW r \in RequestIds
    PROVE  Admissible(r) <=>
              /\ \A q \in Seen \ admitted : ~Compete(required, q, r)
              /\ \A t \in required[r] :
                    Cardinality(Users(visitors, required, t))
                      + Cardinality(Users(admitted, required, t)) < places[t]
<1>1. required[r] \cap barred = {} <=> \A q \in Seen \ admitted : ~Compete(required, q, r)
  BY DEF LoopInv, Compete
<1>2. ASSUME NEW t \in required[r]
      PROVE  free[t] > 0 <=> Cardinality(Users(visitors, required, t))
                               + Cardinality(Users(admitted, required, t)) < places[t]
  <2>1. t \in ToiletIds /\ places[t] \in Nat
    BY DEF LoopInv, LoopRows
  <2>2. visitors \in SUBSET RequestIds /\ admitted \in SUBSET RequestIds
    BY DEF LoopInv, LoopRows, IsSchedule, Seen
  <2>3. /\ Cardinality(Users(visitors, required, t)) \in Nat
        /\ Cardinality(Users(admitted, required, t)) \in Nat
    BY <2>2, UsersFinite
  <2>4. free[t] = places[t] - Cardinality(Users(visitors, required, t))
                            - Cardinality(Users(admitted, required, t))
    BY <2>1 DEF LoopInv
  <2> QED BY <2>1, <2>3, <2>4
<1> QED BY <1>1, <1>2 DEF Admissible

LEMMA LoopStarts == LoopInit => LoopInv
<1> SUFFICES ASSUME LoopInit PROVE LoopInv
  OBVIOUS
<1>1. LoopRows /\ Seen = {} /\ rest \subseteq queued
  BY LoopAssumption DEF LoopInit, LoopRows, Seen
<1>2. \A t : Users({}, required, t) = {}
  BY DEF Users
<1>3. \A t \in ToiletIds : places[t] - Cardinality(Users(visitors, required, t)) \in Int
  BY <1>1, UsersFinite DEF LoopRows
<1>4. free = [t \in ToiletIds |->
                 places[t] - Cardinality(Users(visitors, required, t))
                           - Cardinality(Users(admitted, required, t))]
  <2>1. admitted = {} /\ \A t : Cardinality(Users(admitted, required, t)) = 0
    BY <1>2, FS_EmptySet DEF LoopInit
  <2>2. free = [t \in ToiletIds |-> places[t] - Cardinality(Users(visitors, required, t))]
    BY DEF LoopInit
  <2>3. \A t \in ToiletIds : places[t] - Cardinality(Users(visitors, required, t))
                              = places[t] - Cardinality(Users(visitors, required, t)) - 0
    BY <1>3
  <2> QED BY <2>1, <2>2, <2>3
<1>5. IsSchedule(admitted, Seen, visitors, required, places, arrived)
  BY <1>1 DEF IsSchedule, LoopInit
<1>6. barred = UNION {required[q] : q \in Seen \ admitted}
  BY <1>1 DEF LoopInit
<1> QED BY <1>1, <1>4, <1>5, <1>6 DEF LoopInv

LEMMA LoopGoesOn == LoopInv /\ [LoopNext]_loopVars => LoopInv'
<1> SUFFICES ASSUME LoopInv, [LoopNext]_loopVars PROVE LoopInv'
  OBVIOUS
<1>1. CASE UNCHANGED loopVars
  BY <1>1 DEF loopVars, queueState, LoopInv, LoopRows, Seen
<1>2. ASSUME NEW r \in RequestIds, Turn(r), UNCHANGED <<free, admitted>>,
             barred' = barred \cup required[r],
             required[r] = {} \/ ~Admissible(r)
      PROVE  LoopInv'
  <2>1. /\ r \in queued /\ r \notin Seen /\ Seen' = Seen \cup {r} /\ LoopRows'
        /\ rest' \subseteq queued' /\ \A q \in Seen', s \in rest' : Senior(arrived', q, s)
        /\ \A q \in Seen : Senior(arrived, q, r) /\ ~Senior(arrived, r, q)
        /\ ~Senior(arrived, r, r)
    BY <1>2, TurnSplitsQueue
  <2>2. /\ visitors' = visitors /\ arrived' = arrived
        /\ required' = required /\ places' = places
    BY <1>2 DEF Turn, queueState
  <2>3. IsSchedule(admitted, Seen, visitors, required, places, arrived)
    BY DEF LoopInv
  <2>4. r \notin admitted
    BY <2>1, <2>3 DEF IsSchedule
  <2>5. ~(/\ required[r] # {}
          /\ \A q \in Seen \ admitted : ~Compete(required, q, r)
          /\ \A t \in required[r] :
                Cardinality(Users(visitors, required, t))
                  + Cardinality(Users(admitted, required, t)) < places[t])
    BY <1>2, AdmissibleIsTheRule
  <2>6. IsSchedule(admitted, Seen \cup {r}, visitors, required, places, arrived)
    BY <2>1, <2>3, <2>4, <2>5, ScheduleGrows
  <2>7. barred' = UNION {required'[q] : q \in Seen' \ admitted'}
    BY <1>2, <2>1, <2>2, <2>4 DEF LoopInv
  <2>8. free' = [t \in ToiletIds |->
                    places'[t] - Cardinality(Users(visitors', required', t))
                               - Cardinality(Users(admitted', required', t))]
    BY <1>2, <2>2 DEF LoopInv
  <2>9. IsSchedule(admitted', Seen', visitors', required', places', arrived')
    BY <1>2, <2>1, <2>2, <2>6
  <2> QED BY <2>1, <2>7, <2>8, <2>9 DEF LoopInv
<1>3. ASSUME NEW r \in RequestIds, Skip(r)
      PROVE  LoopInv'
  <2>1. Turn(r) /\ required[r] = {} /\ UNCHANGED <<free, admitted>>
    BY <1>3 DEF Skip
  <2>2. barred' = barred \cup required[r]
    BY <1>3 DEF Skip
  <2> QED BY <1>2, <2>1, <2>2
<1>4. ASSUME NEW r \in RequestIds, Bar(r)
      PROVE  LoopInv'
  BY <1>2, <1>4 DEF Bar
<1>5. ASSUME NEW r \in RequestIds, Activate(r)
      PROVE  LoopInv'
  <2>1. /\ Turn(r) /\ required[r] # {} /\ Admissible(r)
        /\ free' = [t \in ToiletIds |-> IF t \in required[r] THEN free[t] - 1 ELSE free[t]]
        /\ admitted' = admitted \cup {r} /\ barred' = barred
    BY <1>5 DEF Activate
  <2>2. /\ r \in queued /\ r \notin Seen /\ Seen' = Seen \cup {r} /\ LoopRows'
        /\ rest' \subseteq queued' /\ \A q \in Seen', s \in rest' : Senior(arrived', q, s)
        /\ \A q \in Seen : Senior(arrived, q, r) /\ ~Senior(arrived, r, q)
        /\ ~Senior(arrived, r, r)
    BY <2>1, TurnSplitsQueue
  <2>3. /\ visitors' = visitors /\ arrived' = arrived
        /\ required' = required /\ places' = places
    BY <2>1 DEF Turn, queueState
  <2>4. IsSchedule(admitted, Seen, visitors, required, places, arrived)
    BY DEF LoopInv
  <2>5. r \notin admitted /\ admitted \in SUBSET RequestIds
    BY <2>2, <2>4 DEF IsSchedule, Seen, LoopInv, LoopRows
  <2>6. /\ required[r] # {}
        /\ \A q \in Seen \ admitted : ~Compete(required, q, r)
        /\ \A t \in required[r] :
              Cardinality(Users(visitors, required, t))
                + Cardinality(Users(admitted, required, t)) < places[t]
    BY <2>1, AdmissibleIsTheRule
  <2>7. IsSchedule(admitted \cup {r}, Seen \cup {r}, visitors, required, places, arrived)
    <3>1. r \in admitted \cup {r} /\ admitted \cup {r} \in {admitted, admitted \cup {r}}
      OBVIOUS
    <3> QED BY <2>2, <2>4, <2>6, <3>1, ScheduleGrows
  <2>8. barred' = UNION {required'[q] : q \in Seen' \ admitted'}
    BY <2>1, <2>2, <2>3, <2>5 DEF LoopInv
  <2>9. free' = [t \in ToiletIds |->
                    places'[t] - Cardinality(Users(visitors', required', t))
                               - Cardinality(Users(admitted', required', t))]
    <3> SUFFICES ASSUME NEW t \in ToiletIds
                 PROVE  (IF t \in required[r] THEN free[t] - 1 ELSE free[t])
                          = places[t] - Cardinality(Users(visitors, required, t))
                              - Cardinality(Users(admitted \cup {r}, required, t))
      BY <2>1, <2>3, Zenon
    <3>1. /\ Cardinality(Users(admitted, required, t)) \in Nat
          /\ Cardinality(Users(visitors, required, t)) \in Nat
          /\ IsFiniteSet(Users(admitted, required, t)) /\ places[t] \in Nat
      BY <2>5, UsersFinite DEF LoopInv, LoopRows
    <3>2. free[t] = places[t] - Cardinality(Users(visitors, required, t))
                              - Cardinality(Users(admitted, required, t))
      BY DEF LoopInv
    <3>3. CASE t \in required[r]
      <4>1. /\ Users(admitted \cup {r}, required, t) = Users(admitted, required, t) \cup {r}
            /\ r \notin Users(admitted, required, t)
        BY <2>5, <3>3 DEF Users
      <4>2. Cardinality(Users(admitted \cup {r}, required, t))
              = Cardinality(Users(admitted, required, t)) + 1
        BY <3>1, <4>1, FS_AddElement
      <4> QED BY <3>1, <3>2, <3>3, <4>2
    <3>4. CASE t \notin required[r]
      <4>1. Users(admitted \cup {r}, required, t) = Users(admitted, required, t)
        BY <3>4 DEF Users
      <4> QED BY <3>2, <3>4, <4>1
    <3> QED BY <3>3, <3>4
  <2>10. IsSchedule(admitted', Seen', visitors', required', places', arrived')
    BY <2>1, <2>2, <2>3, <2>7
  <2> QED BY <2>2, <2>8, <2>9, <2>10 DEF LoopInv
<1> QED BY <1>1, <1>3, <1>4, <1>5 DEF LoopNext

(* When the loop of _schedule is over, the requests it has activated are   *)
(* the one set that satisfies the condition the queue is specified with.   *)
THEOREM LoopComputesTheSchedule == LoopSpec => []LoopIsTheSchedule
<1>1. LoopInv => LoopIsTheSchedule
  <2> SUFFICES ASSUME LoopInv, rest = {}, NEW A \in SUBSET queued
               PROVE  IsSchedule(A, queued, visitors, required, places, arrived)
                        <=> A = admitted
    BY DEF LoopIsTheSchedule
  <2>1. queued \in SUBSET RequestIds /\ Dated(queued, arrived)
    BY DEF LoopInv, LoopRows, Dated
  <2>2. IsSchedule(admitted, queued, visitors, required, places, arrived)
    BY DEF LoopInv, Seen
  <2> QED BY <2>1, <2>2, ScheduleUnique
<1> QED BY <1>1, LoopStarts, LoopGoesOn, PTL DEF LoopSpec

=============================================================================
