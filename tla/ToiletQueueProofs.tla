------------------------- MODULE ToiletQueueProofs -------------------------
(***************************************************************************)
(* Theorems about ToiletQueue for any students, classes, toilets, clock    *)
(* and capacities, and about LegacyKeys, which is the queue on an upgraded *)
(* database.                                                               *)
(***************************************************************************)
EXTENDS LegacyKeys, SchedulerProofs

Statuses == {"none", "pending", "active", "done", "cancelled"}
Snapshots == Assignments \cup {Outage}

-----------------------------------------------------------------------------
(* A snapshot leads to known alert codes only. *)
LEMMA DesiredAlertsType ==
    ASSUME NEW a \in Snapshots, NEW m, NEW live
    PROVE  DesiredAlerts(a, m, live) \subseteq AlertCodes
<1>1. a.anomalies \subseteq AlertCodes
  BY QueueAssumption DEF Snapshots, Outage, AlertCodes, ROUTING_ALERT_CODES, SnapshotAnomalies
<1>2. {"multiple_classes", "assignment_lookup_failed", "no_class",
       "class_without_toilet", "no_toilets"} \subseteq AlertCodes
  BY DEF AlertCodes, ROUTING_ALERT_CODES, SnapshotAnomalies
<1> QED BY <1>1, <1>2 DEF DesiredAlerts

(* A rebuild leaves routes of existing toilets, modes and alerts in their  *)
(* domains.                                                                *)
LEMMA RerouteType ==
    ASSUME TypeOK, NEW S, NEW as \in [RequestIds -> Snapshots], NEW m,
           NEW live \in SUBSET ToiletIds,
           NEW raised \in [RequestIds -> SUBSET AlertCodes],
           Reroute(S, as, m, live, raised)
    PROVE  /\ locks' \in [RequestIds -> SUBSET ToiletIds]
           /\ mode' \in [RequestIds ->
                           {"normal", "multiple_classes", "fallback_all", "support"}]
           /\ alerts' \in [RequestIds -> SUBSET AlertCodes]
<1>1. \A a : RouteLocks(a, m, live) \subseteq ToiletIds
  BY DEF RouteLocks
<1>2. locks' \in [RequestIds -> SUBSET ToiletIds]
  BY <1>1 DEF Reroute, TypeOK
<1>3. \A a : RouteMode(a, m) \in {"normal", "multiple_classes", "fallback_all"}
  BY DEF RouteMode
<1>4. mode' \in [RequestIds -> {"normal", "multiple_classes", "fallback_all", "support"}]
  BY <1>3 DEF Reroute, TypeOK
<1>5. \A r \in RequestIds : OpenAfter(raised[r], DesiredAlerts(as[r], m, live))
                              \subseteq AlertCodes
  BY DesiredAlertsType DEF OpenAfter
<1>6. alerts' \in [RequestIds -> SUBSET AlertCodes]
  BY <1>5 DEF Reroute
<1> QED BY <1>2, <1>4, <1>6

(* A pass leaves progress in its domains. *)
LEMMA ScheduleType ==
    ASSUME now \in Times,
           NEW st \in [RequestIds -> Statuses],
           NEW act \in [RequestIds -> Times \cup {None}],
           NEW bl \in [RequestIds -> BOOLEAN],
           Schedule(st, act, bl)
    PROVE  /\ status' \in [RequestIds -> Statuses]
           /\ activated' \in [RequestIds -> Times \cup {None}]
           /\ blocked' \in [RequestIds -> BOOLEAN]
<1>1. PICK A \in SUBSET WaitingIn(st, kind') :
        /\ status' = [r \in RequestIds |-> IF r \in A THEN "active" ELSE st[r]]
        /\ activated' = [r \in RequestIds |-> IF r \in A THEN now ELSE act[r]]
        /\ blocked' = [r \in RequestIds |->
              r \notin A /\ (bl[r] \/ (r \in WaitingIn(st, kind') /\ locks'[r] = {}))]
  BY DEF Schedule
<1>2. status' \in [RequestIds -> Statuses]
  BY <1>1 DEF Statuses
<1>3. activated' \in [RequestIds -> Times \cup {None}]
  BY <1>1
<1>4. blocked' \in [RequestIds -> BOOLEAN]
  BY <1>1, Zenon
<1> QED BY <1>2, <1>3, <1>4

LEMMA BlockedAfterType ==
    ASSUME TypeOK, NEW S
    PROVE  BlockedAfter(S) \in [RequestIds -> BOOLEAN]
BY Zenon DEF BlockedAfter, TypeOK

(* The bucket of a student stays within one past the limit. *)
LEMMA SpendType ==
    ASSUME TypeOK, NEW s \in Students, Spend(s)
    PROVE  spent' \in [Students -> 0..(StudentRateLimit + 1)]
<1>1. StudentRateLimit \in Nat
  BY QueueAssumption
<1>2. CASE Budgeted
  BY <1>1, <1>2 DEF Spend, WithinBudget, TypeOK
<1>3. CASE ~Budgeted
  BY <1>3 DEF Spend, TypeOK
<1> QED BY <1>2, <1>3

-----------------------------------------------------------------------------
(* Every operation keeps every column in its domain. *)
LEMMA CreateRequestType ==
    ASSUME TypeOK, NEW by, NEW s \in Students, NEW k \in Kinds,
           NEW a \in Assignments, CreateRequest(by, s, k, a)
    PROVE  TypeOK'
<1>1. spent' \in [Students -> 0..(StudentRateLimit + 1)]
  BY SpendType DEF CreateRequest
<1>2. PICK r \in RequestIds :
        /\ owner' = [owner EXCEPT ![r] = s]
        /\ kind' = [kind EXCEPT ![r] = k]
        /\ assigned' = [assigned EXCEPT ![r] = a]
        /\ created' = [created EXCEPT ![r] = now]
        /\ LET st == [status EXCEPT ![r] = "pending"]
           IN \/ /\ k = "toilet"
                 /\ UNCHANGED configVars
                 /\ Reroute({r}, assigned', mapping, Toilets, alerts)
                 /\ Schedule(st, activated, BlockedAfter({r}))
              \/ /\ k # "toilet"
                 /\ mode' = [mode EXCEPT ![r] = "support"]
                 /\ NoPass(st)
                 /\ UNCHANGED <<configVars, locks, alerts>>
  BY DEF CreateRequest
<1> DEFINE st == [status EXCEPT ![r] = "pending"]
<1>3. /\ owner' \in [RequestIds -> Students \cup {None}]
      /\ kind' \in [RequestIds -> Kinds]
      /\ assigned' \in [RequestIds -> Snapshots]
      /\ created' \in [RequestIds -> Times \cup {None}]
      /\ st \in [RequestIds -> Statuses]
      /\ UNCHANGED now
  BY <1>2 DEF TypeOK, Snapshots, Statuses, CreateRequest
<1>4. CASE k = "toilet"
  <2>1. /\ UNCHANGED configVars
        /\ Reroute({r}, assigned', mapping, Toilets, alerts)
        /\ Schedule(st, activated, BlockedAfter({r}))
    BY <1>2, <1>4
  <2>2. /\ Toilets \in SUBSET ToiletIds
        /\ alerts \in [RequestIds -> SUBSET AlertCodes]
        /\ activated \in [RequestIds -> Times \cup {None}]
        /\ now \in Times
    BY DEF Toilets, TypeOK
  <2>3. /\ locks' \in [RequestIds -> SUBSET ToiletIds]
        /\ mode' \in [RequestIds ->
                        {"normal", "multiple_classes", "fallback_all", "support"}]
        /\ alerts' \in [RequestIds -> SUBSET AlertCodes]
    BY <1>3, <2>1, <2>2, RerouteType
  <2>4. /\ status' \in [RequestIds -> Statuses]
        /\ activated' \in [RequestIds -> Times \cup {None}]
        /\ blocked' \in [RequestIds -> BOOLEAN]
    <3> HIDE DEF st
    <3> QED BY <1>3, <2>1, <2>2, ScheduleType, BlockedAfterType
  <2> QED BY <1>1, <1>3, <2>1, <2>3, <2>4
          DEF TypeOK, configVars, Statuses, Snapshots
<1>5. CASE k # "toilet"
  <2>1. /\ UNCHANGED <<configVars, locks, alerts>>
        /\ mode' = [mode EXCEPT ![r] = "support"]
        /\ status' = st /\ UNCHANGED <<activated, blocked>>
    BY <1>2, <1>5 DEF NoPass
  <2> QED BY <1>1, <1>3, <2>1 DEF TypeOK, configVars, Statuses, Snapshots
<1> QED BY <1>4, <1>5

LEMMA CloseType ==
    ASSUME TypeOK, NEW r \in RequestIds, NEW x \in {"done", "cancelled"},
           alerts' = [alerts EXCEPT ![r] = {}],
           UNCHANGED <<configVars, mode, locks, identityVars, now>>,
           spent' \in [Students -> 0..(StudentRateLimit + 1)],
           \/ Schedule([status EXCEPT ![r] = x], activated, blocked)
           \/ NoPass([status EXCEPT ![r] = x])
    PROVE  TypeOK'
<1> DEFINE st == [status EXCEPT ![r] = x]
<1>1. st \in [RequestIds -> Statuses]
  BY DEF TypeOK, Statuses
<1>2. /\ alerts' \in [RequestIds -> SUBSET AlertCodes]
      /\ activated \in [RequestIds -> Times \cup {None}]
      /\ blocked \in [RequestIds -> BOOLEAN]
      /\ now \in Times
  BY DEF TypeOK
<1>3. /\ status' \in [RequestIds -> Statuses]
      /\ activated' \in [RequestIds -> Times \cup {None}]
      /\ blocked' \in [RequestIds -> BOOLEAN]
  <2>1. CASE Schedule(st, activated, blocked)
    <3> HIDE DEF st
    <3> QED BY <1>1, <1>2, <2>1, ScheduleType
  <2>2. CASE NoPass(st)
    BY <1>1, <1>2, <2>2 DEF NoPass
  <2> QED BY <2>1, <2>2
<1> QED BY <1>2, <1>3 DEF TypeOK, configVars, identityVars, Statuses

LEMMA SetToiletCapacityType ==
    ASSUME TypeOK, NEW t \in ToiletIds, NEW n \in 1..MaxCapacity,
           SetToiletCapacity(t, n)
    PROVE  TypeOK'
<1>1. capacity' \in [ToiletIds -> 0..MaxCapacity]
  BY QueueAssumption DEF SetToiletCapacity, TypeOK
<1>2. /\ status \in [RequestIds -> Statuses]
      /\ activated \in [RequestIds -> Times \cup {None}]
      /\ blocked \in [RequestIds -> BOOLEAN]
      /\ now \in Times
  BY DEF TypeOK, Statuses
<1>3. /\ status' \in [RequestIds -> Statuses]
      /\ activated' \in [RequestIds -> Times \cup {None}]
      /\ blocked' \in [RequestIds -> BOOLEAN]
  <2>1. CASE Schedule(status, activated, blocked)
    BY <1>2, <2>1, ScheduleType
  <2>2. CASE UNCHANGED progressVars
    BY <1>2, <2>2 DEF progressVars
  <2> QED BY <2>1, <2>2 DEF SetToiletCapacity
<1> QED BY <1>1, <1>3 DEF SetToiletCapacity, TypeOK, routeVars, identityVars, Statuses

LEMMA AssignClassToiletType ==
    ASSUME TypeOK, NEW c \in Classes, NEW t \in ToiletIds \cup {NoToilet},
           AssignClassToilet(c, t)
    PROVE  TypeOK'
<1>1. mapping' \in [Classes -> ToiletIds \cup {NoToilet, NoRow}]
  BY DEF AssignClassToilet, TypeOK
<1>2. /\ UNCHANGED <<capacity, retired, identityVars, spent, now>>
      /\ Reroute(PendingOf(c), assigned, Visible(c), Toilets, alerts)
      /\ Schedule(status, activated, BlockedAfter(PendingOf(c)))
  BY DEF AssignClassToilet
<1>3. /\ Toilets \in SUBSET ToiletIds
      /\ assigned \in [RequestIds -> Snapshots]
      /\ alerts \in [RequestIds -> SUBSET AlertCodes]
      /\ status \in [RequestIds -> Statuses]
      /\ activated \in [RequestIds -> Times \cup {None}]
      /\ now \in Times
  BY DEF Toilets, TypeOK, Snapshots, Statuses
<1>4. /\ locks' \in [RequestIds -> SUBSET ToiletIds]
      /\ mode' \in [RequestIds ->
                      {"normal", "multiple_classes", "fallback_all", "support"}]
      /\ alerts' \in [RequestIds -> SUBSET AlertCodes]
  BY <1>2, <1>3, RerouteType
<1>5. /\ status' \in [RequestIds -> Statuses]
      /\ activated' \in [RequestIds -> Times \cup {None}]
      /\ blocked' \in [RequestIds -> BOOLEAN]
  BY <1>2, <1>3, ScheduleType, BlockedAfterType
<1> QED BY <1>1, <1>2, <1>4, <1>5 DEF TypeOK, identityVars, Statuses

LEMMA DeleteToiletType ==
    ASSUME TypeOK, NEW t \in ToiletIds, DeleteToilet(t)
    PROVE  TypeOK'
<1> DEFINE demoted == DemotedBy(t)
           affected == Users(Waiting, locks, t) \cup demoted
           raised == [r \in RequestIds |-> IF r \in demoted
                        THEN alerts[r] \cup {"active_toilet_deleted"} ELSE alerts[r]]
           st == [r \in RequestIds |-> IF r \in demoted THEN "pending" ELSE status[r]]
           act == [r \in RequestIds |-> IF r \in demoted THEN None ELSE activated[r]]
<1>1. /\ capacity' = [capacity EXCEPT ![t] = 0]
      /\ retired' = retired \cup {t}
      /\ mapping' = MappingWithout(t)
      /\ UNCHANGED <<identityVars, spent, now>>
      /\ Reroute(affected, assigned, mapping', Toilets \ {t}, raised)
      /\ Schedule(st, act, BlockedAfter(affected))
  BY DEF DeleteToilet
<1>2. /\ capacity' \in [ToiletIds -> 0..MaxCapacity]
      /\ retired' \subseteq ToiletIds
      /\ mapping' \in [Classes -> ToiletIds \cup {NoToilet, NoRow}]
  BY <1>1, QueueAssumption DEF TypeOK, MappingWithout
<1>3. "active_toilet_deleted" \in AlertCodes
  BY DEF AlertCodes
<1>4. /\ Toilets \ {t} \in SUBSET ToiletIds
      /\ assigned \in [RequestIds -> Snapshots]
      /\ raised \in [RequestIds -> SUBSET AlertCodes]
      /\ st \in [RequestIds -> Statuses]
      /\ act \in [RequestIds -> Times \cup {None}]
      /\ now \in Times
  BY <1>3 DEF Toilets, TypeOK, Snapshots, Statuses
<1> HIDE DEF demoted, affected, raised, st, act
<1>5. /\ locks' \in [RequestIds -> SUBSET ToiletIds]
      /\ mode' \in [RequestIds ->
                      {"normal", "multiple_classes", "fallback_all", "support"}]
      /\ alerts' \in [RequestIds -> SUBSET AlertCodes]
  BY <1>1, <1>4, RerouteType
<1>6. /\ status' \in [RequestIds -> Statuses]
      /\ activated' \in [RequestIds -> Times \cup {None}]
      /\ blocked' \in [RequestIds -> BOOLEAN]
  BY <1>1, <1>4, ScheduleType, BlockedAfterType
<1> QED BY <1>1, <1>2, <1>5, <1>6 DEF TypeOK, identityVars, Statuses

LEMMA TypeStep ==
    ASSUME TypeOK, [Next]_vars
    PROVE  TypeOK'
<1>1. ASSUME NEW s \in Students, NEW k \in Kinds, NEW a \in Assignments,
             NEW by \in Proctors \cup {s}, CreateRequest(by, s, k, a)
      PROVE  TypeOK'
  BY <1>1, CreateRequestType
<1>2. ASSUME NEW s \in Students, NEW k \in Kinds, NEW a \in Assignments,
             NEW by \in Proctors \cup {s}, RefuseCreate(by, s, k, a)
      PROVE  TypeOK'
  BY <1>2, SpendType
     DEF RefuseCreate, TypeOK, configVars, routeVars, progressVars, identityVars
<1>3. ASSUME NEW s \in Students, RefuseOverLimit(s)
      PROVE  TypeOK'
  <2>1. spent' \in [Students -> 0..(StudentRateLimit + 1)]
    BY <1>3, QueueAssumption DEF RefuseOverLimit, CountRefusal, TypeOK
  <2> QED BY <1>3, <2>1
          DEF RefuseOverLimit, TypeOK, configVars, routeVars, progressVars, identityVars
<1>4. ASSUME NEW s \in Students, NEW r \in RequestIds, CancelRequest(s, r)
      PROVE  TypeOK'
  <2>1. \/ Schedule([status EXCEPT ![r] = "cancelled"], activated, blocked)
        \/ NoPass([status EXCEPT ![r] = "cancelled"])
    BY <1>4 DEF CancelRequest
  <2>2. spent' \in [Students -> 0..(StudentRateLimit + 1)]
    BY <1>4, SpendType DEF CancelRequest
  <2>3. /\ alerts' = [alerts EXCEPT ![r] = {}]
        /\ UNCHANGED <<configVars, mode, locks, identityVars, now>>
    BY <1>4 DEF CancelRequest
  <2> QED BY <2>1, <2>2, <2>3, CloseType
<1>5. ASSUME NEW s \in Students, NEW r \in RequestIds, RefuseCancel(s, r)
      PROVE  TypeOK'
  BY <1>5, SpendType
     DEF RefuseCancel, TypeOK, configVars, routeVars, progressVars, identityVars
<1>6. ASSUME NEW p \in Proctors, NEW r \in RequestIds, CompleteToiletRequest(p, r)
      PROVE  TypeOK'
  <2>1. /\ Schedule([status EXCEPT ![r] = "done"], activated, blocked)
        /\ alerts' = [alerts EXCEPT ![r] = {}]
        /\ UNCHANGED <<configVars, mode, locks, identityVars, now>>
        /\ spent' \in [Students -> 0..(StudentRateLimit + 1)]
    BY <1>6 DEF CompleteToiletRequest, TypeOK
  <2> QED BY <2>1, CloseType
<1>7. ASSUME NEW p \in Proctors, NEW r \in RequestIds, ResolveSupportRequest(p, r)
      PROVE  TypeOK'
  BY <1>7 DEF ResolveSupportRequest, NoPass, TypeOK, configVars, routeVars, identityVars
<1>8. ASSUME NEW p \in Proctors, NEW r \in RequestIds, NEW code \in DismissedCodes,
             ResolveAlert(p, r, code)
      PROVE  TypeOK'
  BY <1>8 DEF ResolveAlert, TypeOK, configVars, progressVars, identityVars
<1>9. ASSUME NEW t \in ToiletIds, DeleteToilet(t)
      PROVE  TypeOK'
  BY <1>9, DeleteToiletType
<1>10. ASSUME NEW t \in ToiletIds, NEW n \in 1..MaxCapacity, CreateToilet(t, n)
       PROVE  TypeOK'
  BY <1>10, QueueAssumption
     DEF CreateToilet, TypeOK, routeVars, progressVars, identityVars
<1>11. ASSUME NEW t \in ToiletIds, NEW n \in 1..MaxCapacity, SetToiletCapacity(t, n)
       PROVE  TypeOK'
  BY <1>11, SetToiletCapacityType
<1>12. ASSUME NEW c \in Classes, NEW t \in ToiletIds \cup {NoToilet},
              AssignClassToilet(c, t)
       PROVE  TypeOK'
  BY <1>12, AssignClassToiletType
<1>13. CASE NewWindow
  BY <1>13, QueueAssumption
     DEF NewWindow, TypeOK, configVars, routeVars, progressVars, identityVars
<1>14. CASE Clock
  BY <1>14 DEF Clock, TypeOK, configVars, routeVars, progressVars, identityVars
<1>15. CASE UNCHANGED vars
  BY <1>15 DEF vars, TypeOK, configVars, routeVars, progressVars, identityVars
<1> QED BY <1>1, <1>2, <1>3, <1>4, <1>5, <1>6, <1>7, <1>8, <1>9, <1>10, <1>11,
           <1>12, <1>13, <1>14, <1>15 DEF Next

(* Every reachable state is well typed: the columns the service writes,    *)
(* the bucket counts and the routes stay in their domains.                 *)
THEOREM TypeCorrect == Spec => []TypeOK
<1>1. Init => TypeOK
  <2>1. Outage \in Snapshots /\ "toilet" \in Kinds /\ 0 \in 0..MaxCapacity
        /\ 0 \in 0..(StudentRateLimit + 1)
    BY QueueAssumption DEF Snapshots, Kinds
  <2> QED BY <2>1 DEF Init, TypeOK, Snapshots
<1>2. TypeOK /\ [Next]_vars => TypeOK'
  BY TypeStep
<1> QED BY <1>1, <1>2, PTL DEF Spec

-----------------------------------------------------------------------------
(* The invariant about rows: a row that was inserted is dated, and an open *)
(* toilet request requires existing toilets only.  Without it neither the  *)
(* order of the queue nor the effect of a new toilet on it is known.       *)
Rows ==
    /\ \A r \in RequestIds : status[r] # "none" => created[r] \in Times
    /\ \A r \in Waiting \cup Active : locks[r] \subseteq Toilets

(* A step that ends with a pass: the state the pass starts from, where no  *)
(* visit has begun and those that go on have kept their toilets and still  *)
(* fit.                                                                    *)
Prepared(st, act, bl) ==
    /\ st \in [RequestIds -> Statuses]
    /\ \A r \in RequestIds : st[r] # "none" => created'[r] \in Times
    /\ ActiveIn(st, kind') \subseteq Active
    /\ \A r \in ActiveIn(st, kind') : locks'[r] = locks[r] /\ bl[r] = blocked[r]
    /\ \A r \in Active :
          \/ st[r] = "done"
          \/ locks[r] \cap (Toilets \ Toilets') # {}
          \/ r \in ActiveIn(st, kind') /\ act[r] = activated[r]
    /\ \A r \in WaitingIn(st, kind') \cup ActiveIn(st, kind') : locks'[r] \subseteq Toilets'
    /\ \A t \in ToiletIds :
          Cardinality(Users(ActiveIn(st, kind'), locks', t)) <= capacity'[t]

ScheduledStep == \E st, act, bl : Prepared(st, act, bl) /\ Schedule(st, act, bl)

(* A step without a pass: nobody joins or leaves the queue, and no toilet  *)
(* that was there gets more room.                                          *)
QuietStep ==
    /\ Waiting' = Waiting /\ Active' = Active
    /\ \A r \in Waiting \cup Active :
          locks'[r] = locks[r] /\ created'[r] = created[r]
    /\ \A r \in Active : activated'[r] = activated[r] /\ blocked'[r] = blocked[r]
    /\ \A r \in RequestIds : status'[r] # "none" => created'[r] \in Times
    /\ Toilets \subseteq Toilets'
    /\ \A t \in Toilets : capacity'[t] <= capacity[t]
    /\ \A t \in ToiletIds : Cardinality(Users(Active, locks, t)) <= capacity'[t]

-----------------------------------------------------------------------------
(* What a pass does to the queue. *)
LEMMA PassResult ==
    ASSUME NEW st \in [RequestIds -> Statuses], NEW act, NEW bl, Schedule(st, act, bl)
    PROVE  \E A :
             /\ IsSchedule(A, WaitingIn(st, kind'), ActiveIn(st, kind'),
                           locks', capacity', created')
             /\ Waiting' = WaitingIn(st, kind') \ A
             /\ Active' = ActiveIn(st, kind') \cup A
             /\ \A r \in RequestIds :
                  /\ status'[r] = IF r \in A THEN "active" ELSE st[r]
                  /\ r \notin A => activated'[r] = act[r]
                  /\ blocked'[r] = (r \notin A /\ (bl[r] \/
                        (r \in WaitingIn(st, kind') /\ locks'[r] = {})))
<1>1. PICK A \in SUBSET WaitingIn(st, kind') :
        /\ IsSchedule(A, WaitingIn(st, kind'), ActiveIn(st, kind'),
                      locks', capacity', created')
        /\ status' = [r \in RequestIds |-> IF r \in A THEN "active" ELSE st[r]]
        /\ activated' = [r \in RequestIds |-> IF r \in A THEN now ELSE act[r]]
        /\ blocked' = [r \in RequestIds |->
              r \notin A /\ (bl[r] \/ (r \in WaitingIn(st, kind') /\ locks'[r] = {}))]
  BY DEF Schedule
<1>2. Waiting' = WaitingIn(st, kind') \ A
  BY <1>1 DEF Waiting, WaitingIn
<1>3. Active' = ActiveIn(st, kind') \cup A
  BY <1>1 DEF Active, ActiveIn, WaitingIn
<1>4. \A r \in RequestIds :
         /\ status'[r] = IF r \in A THEN "active" ELSE st[r]
         /\ r \notin A => activated'[r] = act[r]
  BY <1>1
<1>5. \A r \in RequestIds :
         blocked'[r] = (r \notin A /\ (bl[r] \/
                          (r \in WaitingIn(st, kind') /\ locks'[r] = {})))
  BY <1>1, Zenon
<1> QED BY <1>1, <1>2, <1>3, <1>4, <1>5

LEMMA RerouteLocks ==
    ASSUME NEW S, NEW as, NEW m, NEW live, NEW raised,
           Reroute(S, as, m, live, raised)
    PROVE  \A r \in RequestIds :
             /\ locks'[r] \subseteq live
             /\ r \notin S => locks'[r] = locks[r] \cap live
BY DEF Reroute, RouteLocks

LEMMA BlockedAfterElsewhere ==
    ASSUME NEW S
    PROVE  \A r \in RequestIds \ S : BlockedAfter(S)[r] = blocked[r]
BY DEF BlockedAfter

(* Visits that go on with their toilets take no more room than before. *)
LEMMA FewerUsers ==
    ASSUME NEW S \in SUBSET Active, \A r \in S : locks'[r] = locks[r], NEW t
    PROVE  /\ Cardinality(Users(S, locks', t)) <= Cardinality(Users(Active, locks, t))
           /\ Cardinality(Users(S, locks', t)) \in Nat
           /\ Cardinality(Users(Active, locks, t)) \in Nat
<1>1. Active \in SUBSET RequestIds /\ S \in SUBSET RequestIds
  BY DEF Active, ActiveIn
<1>2. Users(S, locks', t) \in SUBSET Users(Active, locks, t)
  BY DEF Users
<1> QED BY <1>1, <1>2, UsersFinite, FS_Subset

-----------------------------------------------------------------------------
(* The operations, one by one, as scheduled or quiet steps. *)
Queue == TypeOK /\ Rows /\ WithinCapacity

(* Closing a request, and capacity changes that give room, leave routes    *)
(* and mapping alone: only the status of one request may have changed.     *)
LEMMA SameRoutesPrepared ==
    ASSUME Queue, TypeOK', NEW st \in [RequestIds -> Statuses],
           \A r \in RequestIds : 
              status[r] # st[r] => status[r] # "none" /\ st[r] \in {"done", "cancelled"},
           \A r \in Active : st[r] \in {"active", "done"},
           UNCHANGED <<locks, identityVars>>,
           \A t \in ToiletIds : capacity[t] <= capacity'[t]
    PROVE  Prepared(st, activated, blocked)
<1>1. /\ ActiveIn(st, kind') \subseteq Active
      /\ WaitingIn(st, kind') \subseteq Waiting
      /\ \A r \in Active : st[r] = "done" \/ r \in ActiveIn(st, kind')
  BY DEF identityVars, ActiveIn, Active, WaitingIn, Waiting
<1>2. \A r \in RequestIds : st[r] # "none" => created'[r] \in Times
  BY DEF Queue, Rows, identityVars
<1>3. /\ capacity \in [ToiletIds -> 0..MaxCapacity]
      /\ capacity' \in [ToiletIds -> 0..MaxCapacity]
      /\ MaxCapacity \in Nat
  BY QueueAssumption DEF Queue, TypeOK
<1>4. Toilets \subseteq Toilets'
  BY <1>3 DEF Toilets
<1>5. \A r \in WaitingIn(st, kind') \cup ActiveIn(st, kind') : locks'[r] \subseteq Toilets'
  BY <1>1, <1>4 DEF Queue, Rows
<1>6. ASSUME NEW t \in ToiletIds
      PROVE  Cardinality(Users(ActiveIn(st, kind'), locks', t)) <= capacity'[t]
  <2>1. Cardinality(Users(Active, locks, t)) <= capacity[t]
    BY DEF Queue, WithinCapacity
  <2> QED BY <2>1, <1>1, <1>3, FewerUsers
<1> QED BY <1>1, <1>2, <1>5, <1>6 DEF Prepared

(* Nothing that _schedule reads has changed. *)
LEMMA UnmovedIsQuiet ==
    ASSUME Queue, UNCHANGED <<capacity, status, kind, created, activated, blocked, locks>>
    PROVE  QuietStep
<1>1. Waiting' = Waiting /\ Active' = Active /\ Toilets' = Toilets
  BY DEF Waiting, WaitingIn, Active, ActiveIn, Toilets
<1>2. \A t \in ToiletIds : capacity'[t] \in Nat
  BY QueueAssumption DEF Queue, TypeOK
<1> QED BY <1>1, <1>2 DEF QuietStep, Queue, Rows, WithinCapacity, Toilets

LEMMA CreateRequestStep ==
    ASSUME Queue, TypeOK', NEW by, NEW s \in Students, NEW k \in Kinds,
           NEW a \in Assignments, CreateRequest(by, s, k, a)
    PROVE  ScheduledStep \/ QuietStep
<1>1. PICK r \in RequestIds :
        /\ NextId(r)
        /\ kind' = [kind EXCEPT ![r] = k]
        /\ created' = [created EXCEPT ![r] = now]
        /\ LET st == [status EXCEPT ![r] = "pending"]
           IN \/ /\ k = "toilet"
                 /\ UNCHANGED configVars
                 /\ Reroute({r}, assigned', mapping, Toilets, alerts)
                 /\ Schedule(st, activated, BlockedAfter({r}))
              \/ /\ k # "toilet"
                 /\ NoPass(st)
                 /\ UNCHANGED <<configVars, locks, alerts>>
  BY DEF CreateRequest
<1> DEFINE st == [status EXCEPT ![r] = "pending"]
<1>2. /\ status \in [RequestIds -> Statuses] /\ status[r] = "none"
      /\ kind \in [RequestIds -> Kinds]
      /\ created \in [RequestIds -> Times \cup {None}]
      /\ now \in Times
      /\ UNCHANGED capacity /\ Toilets' = Toilets
  BY <1>1 DEF Queue, TypeOK, Statuses, NextId, configVars, Toilets
<1>3. /\ st \in [RequestIds -> Statuses]
      /\ \A q \in RequestIds : st[q] # "none" => created'[q] \in Times
      /\ r \notin Active /\ r \notin Waiting
  BY <1>1, <1>2 DEF Statuses, Queue, Rows, Active, ActiveIn, Waiting, WaitingIn
<1>4. ActiveIn(st, kind') = Active
  BY <1>1, <1>2 DEF ActiveIn, Active
<1>5. CASE k = "toilet"
  <2>1. /\ Reroute({r}, assigned', mapping, Toilets, alerts)
        /\ Schedule(st, activated, BlockedAfter({r}))
    BY <1>1, <1>5
  <2>2. \A q \in RequestIds : /\ locks'[q] \subseteq Toilets
                              /\ q # r => locks'[q] = locks[q] \cap Toilets
    BY <2>1, RerouteLocks
  <2>3. \A q \in Active : /\ locks'[q] = locks[q]
                          /\ BlockedAfter({r})[q] = blocked[q]
    BY <1>3, <2>2, BlockedAfterElsewhere DEF Queue, Rows, Active, ActiveIn
  <2>4. \A q \in WaitingIn(st, kind') \cup ActiveIn(st, kind') : locks'[q] \subseteq Toilets'
    BY <1>2, <2>2 DEF WaitingIn, ActiveIn
  <2>5. ASSUME NEW t \in ToiletIds
        PROVE  Cardinality(Users(ActiveIn(st, kind'), locks', t)) <= capacity'[t]
    <3>1. Cardinality(Users(Active, locks, t)) <= capacity[t] /\ capacity[t] \in Nat
      BY QueueAssumption DEF Queue, WithinCapacity, TypeOK
    <3> QED BY <1>2, <1>4, <2>3, <3>1, FewerUsers
  <2>6. Prepared(st, activated, BlockedAfter({r}))
    <3> HIDE DEF st
    <3> QED BY <1>3, <1>4, <2>3, <2>4, <2>5 DEF Prepared
  <2> QED BY <2>1, <2>6 DEF ScheduledStep
<1>6. CASE k # "toilet"
  <2>1. status' = st /\ UNCHANGED <<locks, activated, blocked>>
    BY <1>1, <1>6 DEF NoPass
  <2>2. Waiting' = Waiting /\ Active' = Active
    BY <1>1, <1>2, <1>6, <2>1 DEF Waiting, WaitingIn, Active, ActiveIn
  <2>3. \A q \in Waiting \cup Active : q \in RequestIds /\ q # r
    BY <1>3 DEF Waiting, WaitingIn, Active, ActiveIn
  <2>4. \A t \in ToiletIds : capacity[t] \in Nat
    BY QueueAssumption DEF Queue, TypeOK
  <2> HIDE DEF st
  <2> QED BY <1>1, <1>2, <1>3, <2>1, <2>2, <2>3, <2>4
          DEF QuietStep, Queue, WithinCapacity, Toilets
<1> QED BY <1>5, <1>6

LEMMA CancelRequestStep ==
    ASSUME Queue, TypeOK', NEW s \in Students, NEW r \in RequestIds, CancelRequest(s, r)
    PROVE  ScheduledStep \/ QuietStep
<1> DEFINE st == [status EXCEPT ![r] = "cancelled"]
<1>1. /\ MayCancel(s, r)
      /\ UNCHANGED <<configVars, locks, identityVars>>
      /\ IF kind[r] = "toilet" THEN Schedule(st, activated, blocked) ELSE NoPass(st)
  BY DEF CancelRequest
<1>2. /\ status \in [RequestIds -> Statuses] /\ kind \in [RequestIds -> Kinds]
      /\ \A t \in ToiletIds : capacity[t] \in Nat /\ capacity[t] <= capacity'[t]
      /\ Toilets' = Toilets
  BY <1>1, QueueAssumption DEF Queue, TypeOK, Statuses, configVars, Toilets
<1>3. /\ st \in [RequestIds -> Statuses]
      /\ \A q \in RequestIds :
            status[q] # st[q] => status[q] # "none" /\ st[q] \in {"done", "cancelled"}
      /\ \A q \in Active : q \in RequestIds /\ st[q] \in {"active", "done"}
  BY <1>1, <1>2 DEF MayCancel, Active, ActiveIn, Statuses
<1>4. CASE kind[r] = "toilet"
  <2>1. Prepared(st, activated, blocked)
    <3> HIDE DEF st
    <3> QED BY <1>1, <1>2, <1>3, SameRoutesPrepared
  <2> QED BY <1>1, <1>4, <2>1 DEF ScheduledStep
<1>5. CASE kind[r] # "toilet"
  <2>1. /\ status' = st
        /\ UNCHANGED <<activated, blocked, locks, kind, created, capacity>>
    BY <1>1, <1>5 DEF NoPass, identityVars, configVars
  <2>2. Waiting' = Waiting /\ Active' = Active
    BY <1>2, <1>5, <2>1 DEF Waiting, WaitingIn, Active, ActiveIn
  <2>3. \A q \in RequestIds : status'[q] # "none" => created'[q] \in Times
    BY <1>3, <2>1 DEF Queue, Rows
  <2> HIDE DEF st
  <2> QED BY <1>2, <2>1, <2>2, <2>3 DEF QuietStep, Queue, WithinCapacity, Toilets
<1> QED BY <1>4, <1>5

LEMMA CompleteToiletRequestStep ==
    ASSUME Queue, TypeOK', NEW p, NEW r \in RequestIds, CompleteToiletRequest(p, r)
    PROVE  ScheduledStep
<1> DEFINE st == [status EXCEPT ![r] = "done"]
<1>1. /\ status[r] = "active"
      /\ UNCHANGED <<configVars, locks, identityVars>>
      /\ Schedule(st, activated, blocked)
  BY DEF CompleteToiletRequest
<1>2. /\ status \in [RequestIds -> Statuses]
      /\ \A t \in ToiletIds : capacity[t] \in Nat /\ capacity[t] <= capacity'[t]
  BY <1>1, QueueAssumption DEF Queue, TypeOK, Statuses, configVars
<1>3. /\ st \in [RequestIds -> Statuses]
      /\ \A q \in RequestIds :
            status[q] # st[q] => status[q] # "none" /\ st[q] \in {"done", "cancelled"}
      /\ \A q \in Active : st[q] \in {"active", "done"}
  BY <1>1, <1>2 DEF Active, ActiveIn, Statuses
<1>4. Prepared(st, activated, blocked)
  <2> HIDE DEF st
  <2> QED BY <1>1, <1>2, <1>3, SameRoutesPrepared
<1> QED BY <1>1, <1>4 DEF ScheduledStep

LEMMA ResolveSupportRequestStep ==
    ASSUME Queue, NEW p, NEW r \in RequestIds, ResolveSupportRequest(p, r)
    PROVE  QuietStep
<1>1. /\ kind[r] # "toilet" /\ status[r] = "pending"
      /\ status' = [status EXCEPT ![r] = "done"]
      /\ UNCHANGED <<activated, blocked, locks, kind, created, capacity>>
  BY DEF ResolveSupportRequest, NoPass, configVars, routeVars, identityVars
<1>2. status \in [RequestIds -> Statuses]
  BY DEF Queue, TypeOK, Statuses
<1>3. Waiting' = Waiting /\ Active' = Active /\ Toilets' = Toilets
  BY <1>1, <1>2 DEF Waiting, WaitingIn, Active, ActiveIn, Toilets
<1>4. \A q \in RequestIds : status'[q] # "none" => created'[q] \in Times
  BY <1>1, <1>2 DEF Queue, Rows
<1>5. \A t \in ToiletIds : capacity[t] \in Nat
  BY QueueAssumption DEF Queue, TypeOK
<1> QED BY <1>1, <1>3, <1>4, <1>5 DEF QuietStep, Queue, WithinCapacity, Toilets

LEMMA CreateToiletStep ==
    ASSUME Queue, NEW t \in ToiletIds, NEW n \in 1..MaxCapacity, CreateToilet(t, n)
    PROVE  QuietStep
<1>1. /\ t \notin Toilets /\ capacity' = [capacity EXCEPT ![t] = n]
      /\ UNCHANGED <<status, activated, blocked, locks, kind, created>>
  BY DEF CreateToilet, routeVars, progressVars, identityVars
<1>2. /\ capacity \in [ToiletIds -> 0..MaxCapacity] /\ MaxCapacity \in Nat
  BY QueueAssumption DEF Queue, TypeOK
<1>3. Waiting' = Waiting /\ Active' = Active
  BY <1>1 DEF Waiting, WaitingIn, Active, ActiveIn
<1>4. Toilets \subseteq Toilets' /\ \A u \in Toilets : capacity'[u] = capacity[u]
  BY <1>1, <1>2 DEF Toilets
<1>5. ASSUME NEW u \in ToiletIds
      PROVE  Cardinality(Users(Active, locks, u)) <= capacity'[u]
  <2>1. Cardinality(Users(Active, locks, u)) <= capacity[u]
    BY DEF Queue, WithinCapacity
  <2>2. Active \in SUBSET RequestIds
    BY DEF Active, ActiveIn
  <2>3. Cardinality(Users(Active, locks, u)) \in Nat
    BY <2>2, UsersFinite
  <2>4. capacity[u] \in Nat /\ capacity'[u] \in Nat /\ capacity[u] <= capacity'[u]
    BY <1>1, <1>2 DEF Toilets
  <2> QED BY <2>1, <2>3, <2>4
<1>6. \A u \in Toilets : capacity'[u] <= capacity[u]
  BY <1>2, <1>4 DEF Toilets
<1> QED BY <1>1, <1>3, <1>4, <1>5, <1>6 DEF QuietStep, Queue, Rows

LEMMA SetToiletCapacityStep ==
    ASSUME Queue, TypeOK', NEW t \in ToiletIds, NEW n \in 1..MaxCapacity,
           SetToiletCapacity(t, n)
    PROVE  ScheduledStep \/ QuietStep
<1>1. /\ MayResize(t, n)
      /\ capacity' = [capacity EXCEPT ![t] = n]
      /\ UNCHANGED <<locks, identityVars>>
      /\ IF Grows(t, n) THEN Schedule(status, activated, blocked)
         ELSE UNCHANGED progressVars
  BY DEF SetToiletCapacity, routeVars
<1>2. /\ capacity \in [ToiletIds -> 0..MaxCapacity] /\ MaxCapacity \in Nat
      /\ status \in [RequestIds -> Statuses]
  BY QueueAssumption DEF Queue, TypeOK, Statuses
<1>3. CASE Grows(t, n)
  <2>1. \A u \in ToiletIds : capacity[u] <= capacity'[u]
    BY <1>1, <1>2, <1>3 DEF Grows
  <2>2. \A q \in Active : status[q] \in {"active", "done"}
    BY DEF Active, ActiveIn
  <2>3. Prepared(status, activated, blocked)
    BY <1>1, <1>2, <2>1, <2>2, SameRoutesPrepared
  <2> QED BY <1>1, <1>3, <2>3 DEF ScheduledStep
<1>4. CASE ~Grows(t, n)
  <2>1. UNCHANGED <<status, activated, blocked, locks, kind, created>>
    BY <1>1, <1>4 DEF progressVars, identityVars
  <2>2. Waiting' = Waiting /\ Active' = Active
    BY <2>1 DEF Waiting, WaitingIn, Active, ActiveIn
  <2>3. /\ Toilets' = Toilets
        /\ \A u \in Toilets : capacity'[u] <= capacity[u]
    BY <1>1, <1>2, <1>4 DEF Toilets, Grows, MayResize
  <2>4. ASSUME NEW u \in ToiletIds
        PROVE  Cardinality(Users(Active, locks, u)) <= capacity'[u]
    BY <1>1, <1>2 DEF Queue, WithinCapacity, MayResize
  <2> QED BY <2>1, <2>2, <2>3, <2>4 DEF QuietStep, Queue, Rows
<1> QED BY <1>3, <1>4

LEMMA AssignClassToiletStep ==
    ASSUME Queue, TypeOK', NEW c \in Classes, NEW t, AssignClassToilet(c, t)
    PROVE  ScheduledStep
<1> DEFINE S == PendingOf(c)
<1>1. /\ UNCHANGED <<capacity, identityVars>>
      /\ Reroute(S, assigned, Visible(c), Toilets, alerts)
      /\ Schedule(status, activated, BlockedAfter(S))
  BY DEF AssignClassToilet
<1>2. /\ status \in [RequestIds -> Statuses]
      /\ \A u \in ToiletIds : capacity[u] \in Nat /\ capacity'[u] = capacity[u]
      /\ Toilets' = Toilets
      /\ \A r \in RequestIds : status[r] # "none" => created'[r] \in Times
  BY <1>1, QueueAssumption DEF Queue, Rows, TypeOK, Statuses, Toilets, identityVars
<1>3. /\ ActiveIn(status, kind') = Active
      /\ WaitingIn(status, kind') = Waiting
      /\ Active \in SUBSET RequestIds /\ Waiting \in SUBSET RequestIds
      /\ Active \cap S = {}
  BY <1>1 DEF identityVars, ActiveIn, Active, WaitingIn, Waiting, PendingOf
<1>4. \A r \in RequestIds : /\ locks'[r] \subseteq Toilets
                            /\ r \notin S => locks'[r] = locks[r] \cap Toilets
  BY <1>1, RerouteLocks
<1>5. \A r \in Active : locks'[r] = locks[r] /\ BlockedAfter(S)[r] = blocked[r]
  <2> HIDE DEF S
  <2> QED BY <1>3, <1>4, BlockedAfterElsewhere DEF Queue, Rows
<1>6. ASSUME NEW u \in ToiletIds
      PROVE  Cardinality(Users(Active, locks', u)) <= capacity'[u]
  BY <1>2, <1>5, FewerUsers DEF Queue, WithinCapacity
<1> HIDE DEF S
<1>7. Prepared(status, activated, BlockedAfter(S))
  BY <1>2, <1>3, <1>4, <1>5, <1>6 DEF Prepared
<1> QED BY <1>1, <1>7 DEF ScheduledStep

LEMMA DeleteToiletStep ==
    ASSUME Queue, TypeOK', NEW t \in ToiletIds, DeleteToilet(t)
    PROVE  ScheduledStep
<1> DEFINE demoted == DemotedBy(t)
           affected == Users(Waiting, locks, t) \cup demoted
           raised == [r \in RequestIds |-> IF r \in demoted
                        THEN alerts[r] \cup {"active_toilet_deleted"} ELSE alerts[r]]
           st == [r \in RequestIds |-> IF r \in demoted THEN "pending" ELSE status[r]]
           act == [r \in RequestIds |-> IF r \in demoted THEN None ELSE activated[r]]
<1>1. /\ t \in Toilets
      /\ capacity' = [capacity EXCEPT ![t] = 0]
      /\ UNCHANGED identityVars
      /\ Reroute(affected, assigned, mapping', Toilets \ {t}, raised)
      /\ Schedule(st, act, BlockedAfter(affected))
  BY DEF DeleteToilet
<1>2. /\ capacity \in [ToiletIds -> 0..MaxCapacity] /\ MaxCapacity \in Nat
      /\ status \in [RequestIds -> Statuses]
      /\ UNCHANGED <<kind, created>>
  BY <1>1, QueueAssumption DEF Queue, TypeOK, Statuses, identityVars
<1>3. Toilets' = Toilets \ {t}
  BY <1>1, <1>2 DEF Toilets
<1>4. demoted = {r \in Active : t \in locks[r]}
  BY DEF DemotedBy, Users
<1>5. /\ st \in [RequestIds -> Statuses]
      /\ ActiveIn(st, kind') = Active \ demoted
      /\ ActiveIn(st, kind') \in SUBSET RequestIds
      /\ WaitingIn(st, kind') \in SUBSET RequestIds
      /\ \A r \in RequestIds : st[r] # "none" => created'[r] \in Times
  BY <1>2, <1>4 DEF Statuses, ActiveIn, Active, WaitingIn, Queue, Rows
<1>6. \A r \in Active \ demoted : act[r] = activated[r] /\ r \notin affected
  BY DEF Users, Active, ActiveIn, Waiting, WaitingIn
<1>7. \A r \in RequestIds :
         /\ locks'[r] \subseteq Toilets'
         /\ r \notin affected => locks'[r] = locks[r] \cap (Toilets \ {t})
  <2> HIDE DEF affected, raised
  <2> QED BY <1>1, <1>3, RerouteLocks
<1>8. \A r \in Active \ demoted : /\ locks'[r] = locks[r]
                                  /\ BlockedAfter(affected)[r] = blocked[r]
  <2>1. \A r \in Active \ demoted : /\ r \in RequestIds \ affected
                                    /\ locks[r] \subseteq Toilets /\ t \notin locks[r]
    BY <1>4, <1>6 DEF Active, ActiveIn, Queue, Rows
  <2> HIDE DEF affected, demoted
  <2> QED BY <1>7, <2>1, BlockedAfterElsewhere
<1>9. \A r \in Active : \/ locks[r] \cap (Toilets \ Toilets') # {}
                        \/ r \in Active \ demoted
  BY <1>1, <1>3, <1>4
<1> HIDE DEF demoted, affected, raised, st, act
<1>10. ASSUME NEW u \in ToiletIds
       PROVE  Cardinality(Users(Active \ demoted, locks', u)) <= capacity'[u]
  <2>1. CASE u = t
    <3>1. Users(Active \ demoted, locks', u) = {}
      BY <1>4, <1>8, <2>1 DEF Users
    <3> QED BY <1>1, <1>2, <2>1, <3>1, FS_EmptySet
  <2>2. CASE u # t
    <3>1. Cardinality(Users(Active, locks, u)) <= capacity[u]
      BY DEF Queue, WithinCapacity
    <3>2. capacity'[u] = capacity[u] /\ capacity[u] \in Nat
      BY <1>1, <1>2, <2>2
    <3> QED BY <1>8, <3>1, <3>2, FewerUsers
  <2> QED BY <2>1, <2>2
<1>11. Prepared(st, act, BlockedAfter(affected))
  BY <1>5, <1>6, <1>7, <1>8, <1>9, <1>10 DEF Prepared
<1> QED BY <1>1, <1>11 DEF ScheduledStep

(* Every step is of one kind or the other. *)
LEMMA StepKinds ==
    ASSUME Queue, TypeOK', [Next]_vars
    PROVE  ScheduledStep \/ QuietStep
<1>1. ASSUME NEW s \in Students, NEW k \in Kinds, NEW a \in Assignments,
             NEW by \in Proctors \cup {s},
             CreateRequest(by, s, k, a) \/ RefuseCreate(by, s, k, a)
      PROVE  ScheduledStep \/ QuietStep
  <2>1. CASE CreateRequest(by, s, k, a)
    BY <2>1, CreateRequestStep
  <2>2. CASE RefuseCreate(by, s, k, a)
    BY <2>2, UnmovedIsQuiet
       DEF RefuseCreate, configVars, routeVars, progressVars, identityVars
  <2> QED BY <1>1, <2>1, <2>2
<1>2. ASSUME NEW s \in Students, RefuseOverLimit(s)
      PROVE  QuietStep
  BY <1>2, UnmovedIsQuiet
     DEF RefuseOverLimit, configVars, routeVars, progressVars, identityVars
<1>3. ASSUME NEW s \in Students, NEW r \in RequestIds,
             CancelRequest(s, r) \/ RefuseCancel(s, r)
      PROVE  ScheduledStep \/ QuietStep
  <2>1. CASE CancelRequest(s, r)
    BY <2>1, CancelRequestStep
  <2>2. CASE RefuseCancel(s, r)
    BY <2>2, UnmovedIsQuiet
       DEF RefuseCancel, configVars, routeVars, progressVars, identityVars
  <2> QED BY <1>3, <2>1, <2>2
<1>4. ASSUME NEW p \in Proctors, NEW r \in RequestIds, CompleteToiletRequest(p, r)
      PROVE  ScheduledStep
  BY <1>4, CompleteToiletRequestStep
<1>5. ASSUME NEW p \in Proctors, NEW r \in RequestIds, ResolveSupportRequest(p, r)
      PROVE  QuietStep
  BY <1>5, ResolveSupportRequestStep
<1>6. ASSUME NEW p \in Proctors, NEW r \in RequestIds, NEW code, ResolveAlert(p, r, code)
      PROVE  QuietStep
  BY <1>6, UnmovedIsQuiet DEF ResolveAlert, configVars, progressVars, identityVars
<1>7. ASSUME NEW t \in ToiletIds, DeleteToilet(t)
      PROVE  ScheduledStep
  BY <1>7, DeleteToiletStep
<1>8. ASSUME NEW t \in ToiletIds, NEW n \in 1..MaxCapacity,
             CreateToilet(t, n) \/ SetToiletCapacity(t, n)
      PROVE  ScheduledStep \/ QuietStep
  BY <1>8, CreateToiletStep, SetToiletCapacityStep
<1>9. ASSUME NEW c \in Classes, NEW t \in ToiletIds \cup {NoToilet}, AssignClassToilet(c, t)
      PROVE  ScheduledStep
  BY <1>9, AssignClassToiletStep
<1>10. CASE NewWindow
  BY <1>10, UnmovedIsQuiet
     DEF NewWindow, configVars, routeVars, progressVars, identityVars
<1>11. CASE Clock
  BY <1>11, UnmovedIsQuiet
     DEF Clock, configVars, routeVars, progressVars, identityVars
<1>12. CASE UNCHANGED vars
  BY <1>12, UnmovedIsQuiet
     DEF vars, configVars, routeVars, progressVars, identityVars
<1> QED BY <1>1, <1>2, <1>3, <1>4, <1>5, <1>6, <1>7, <1>8, <1>9, <1>10, <1>11, <1>12
       DEF Next

-----------------------------------------------------------------------------
(* Consequences of the two kinds of step. *)
Admitted == Active' \ Active

(* The pass of a scheduled step, with what it was prepared with. *)
LEMMA ScheduledPass ==
    ASSUME TypeOK', ScheduledStep
    PROVE  \E st, act, bl, A :
             /\ Prepared(st, act, bl)
             /\ IsSchedule(A, WaitingIn(st, kind'), ActiveIn(st, kind'),
                           locks', capacity', created')
             /\ A \subseteq WaitingIn(st, kind')
             /\ Waiting' = WaitingIn(st, kind') \ A
             /\ Active' = ActiveIn(st, kind') \cup A
             /\ \A r \in RequestIds :
                  /\ status'[r] = IF r \in A THEN "active" ELSE st[r]
                  /\ r \notin A => activated'[r] = act[r]
                  /\ blocked'[r] = (r \notin A /\ (bl[r] \/
                        (r \in WaitingIn(st, kind') /\ locks'[r] = {})))
             /\ WaitingIn(st, kind') \in SUBSET RequestIds
             /\ ActiveIn(st, kind') \in SUBSET RequestIds
             /\ WaitingIn(st, kind') \cap ActiveIn(st, kind') = {}
             /\ Dated(WaitingIn(st, kind'), created')
<1>1. PICK st, act, bl : Prepared(st, act, bl) /\ Schedule(st, act, bl)
  BY DEF ScheduledStep
<1>2. st \in [RequestIds -> Statuses]
  BY <1>1 DEF Prepared
<1>3. PICK A :
        /\ IsSchedule(A, WaitingIn(st, kind'), ActiveIn(st, kind'),
                      locks', capacity', created')
        /\ Waiting' = WaitingIn(st, kind') \ A
        /\ Active' = ActiveIn(st, kind') \cup A
        /\ \A r \in RequestIds :
             /\ status'[r] = IF r \in A THEN "active" ELSE st[r]
             /\ r \notin A => activated'[r] = act[r]
             /\ blocked'[r] = (r \notin A /\ (bl[r] \/
                   (r \in WaitingIn(st, kind') /\ locks'[r] = {})))
  BY <1>1, <1>2, PassResult
<1>4. A \subseteq WaitingIn(st, kind')
  BY <1>3 DEF IsSchedule
<1>5. /\ WaitingIn(st, kind') \in SUBSET RequestIds
      /\ ActiveIn(st, kind') \in SUBSET RequestIds
      /\ WaitingIn(st, kind') \cap ActiveIn(st, kind') = {}
  BY DEF WaitingIn, ActiveIn
<1>6. Dated(WaitingIn(st, kind'), created')
  BY <1>1, QueueAssumption DEF Prepared, Dated, WaitingIn
<1> QED BY <1>1, <1>3, <1>4, <1>5, <1>6

LEMMA ScheduledKeepsRows ==
    ASSUME TypeOK', ScheduledStep
    PROVE  Rows' /\ WithinCapacity' /\ NobodyOverlooked'
<1>1. PICK st, act, bl, A :
        /\ Prepared(st, act, bl)
        /\ IsSchedule(A, WaitingIn(st, kind'), ActiveIn(st, kind'),
                      locks', capacity', created')
        /\ A \subseteq WaitingIn(st, kind')
        /\ Waiting' = WaitingIn(st, kind') \ A
        /\ Active' = ActiveIn(st, kind') \cup A
        /\ \A r \in RequestIds : status'[r] = IF r \in A THEN "active" ELSE st[r]
        /\ WaitingIn(st, kind') \in SUBSET RequestIds
        /\ ActiveIn(st, kind') \in SUBSET RequestIds
        /\ WaitingIn(st, kind') \cap ActiveIn(st, kind') = {}
        /\ Dated(WaitingIn(st, kind'), created')
  BY ScheduledPass
<1>2. capacity' \in [ToiletIds -> Nat] /\ locks' \in [RequestIds -> SUBSET ToiletIds]
  BY QueueAssumption DEF TypeOK
<1>3. Rows'
  <2>1. \A r \in RequestIds : status'[r] # "none" => created'[r] \in Times
    BY <1>1 DEF Prepared, WaitingIn
  <2>2. \A r \in Waiting' \cup Active' : locks'[r] \subseteq Toilets'
    BY <1>1 DEF Prepared
  <2> QED BY <2>1, <2>2 DEF Rows
<1>4. WithinCapacity'
  <2>1. ASSUME NEW t \in ToiletIds
        PROVE  Cardinality(Users(Active', locks', t)) <= capacity'[t]
    <3>1. Cardinality(Users(ActiveIn(st, kind'), locks', t)) <= capacity'[t]
      BY <1>1 DEF Prepared
    <3> QED BY <1>1, <1>2, <3>1, ScheduleFits
  <2> QED BY <2>1 DEF WithinCapacity
<1>5. NobodyOverlooked'
  <2>1. IsSchedule({}, Waiting', Active', locks', capacity', created')
    BY <1>1, <1>2, ScheduleIsIdle
  <2> QED BY <2>1 DEF NobodyOverlooked
<1> QED BY <1>3, <1>4, <1>5

LEMMA QuietKeepsRows ==
    ASSUME Queue, QuietStep
    PROVE  Rows' /\ WithinCapacity'
<1>1. Rows'
  BY DEF QuietStep, Queue, Rows
<1>2. \A t : Users(Active', locks', t) = Users(Active, locks, t)
  BY DEF QuietStep, Users
<1>3. WithinCapacity'
  BY <1>2 DEF QuietStep, WithinCapacity
<1> QED BY <1>1, <1>3

(* With no more room and the same queue, whoever was not admissible before *)
(* is not now.                                                             *)
LEMMA QuietKeepsNobodyOverlooked ==
    ASSUME Queue, TypeOK', NobodyOverlooked, QuietStep
    PROVE  NobodyOverlooked'
<1> SUFFICES ASSUME NEW r \in Waiting, locks[r] # {},
                    NotBarred(r, {}, Waiting, locks', created'),
                    HasRoom(r, {}, Active, locks', capacity', created')
             PROVE  FALSE
  BY DEF NobodyOverlooked, IsSchedule, QuietStep
<1>1. Waiting' = Waiting /\ Active' = Active
      /\ \A q \in Waiting \cup Active : locks'[q] = locks[q] /\ created'[q] = created[q]
  BY DEF QuietStep
<1>2. NotBarred(r, {}, Waiting, locks, created)
  BY <1>1 DEF NotBarred, Senior, Compete
<1>3. HasRoom(r, {}, Active, locks, capacity, created)
  <2> SUFFICES ASSUME NEW t \in locks[r]
               PROVE  Cardinality(Users(Active, locks, t))
                        + Cardinality({q \in Users({}, locks, t) : Senior(created, q, r)})
                          < capacity[t]
    BY DEF HasRoom
  <2>1. /\ Users(Active, locks', t) = Users(Active, locks, t)
        /\ {q \in Users({}, locks', t) : Senior(created', q, r)} = {}
        /\ {q \in Users({}, locks, t) : Senior(created, q, r)} = {}
    BY <1>1 DEF Users
  <2>2. t \in Toilets
    BY DEF Queue, Rows
  <2>3. Active \in SUBSET RequestIds
    BY DEF Active, ActiveIn
  <2>4. Cardinality(Users(Active, locks, t)) \in Nat
    BY <2>3, UsersFinite
  <2>5. capacity[t] \in Nat /\ capacity'[t] \in Nat /\ capacity'[t] <= capacity[t]
    BY <2>2, QueueAssumption DEF Queue, TypeOK, Toilets, QuietStep
  <2>6. Cardinality(Users(Active, locks', t))
          + Cardinality({q \in Users({}, locks', t) : Senior(created', q, r)})
            < capacity'[t]
    BY <1>1 DEF HasRoom
  <2> QED BY <2>1, <2>4, <2>5, <2>6, FS_EmptySet
<1> QED BY <1>2, <1>3 DEF NobodyOverlooked, IsSchedule

-----------------------------------------------------------------------------
(* The inductive invariant and what follows from it.                       *)
LEMMA QueueInvariant == Spec => []Queue
<1>1. Init => Rows /\ WithinCapacity
  <2> SUFFICES ASSUME Init PROVE Rows /\ WithinCapacity
    OBVIOUS
  <2>1. Waiting = {} /\ Active = {} /\ \A r \in RequestIds : status[r] = "none"
    BY DEF Init, Waiting, WaitingIn, Active, ActiveIn
  <2>2. \A t \in ToiletIds : Users(Active, locks, t) = {} /\ capacity[t] = 0
    BY <2>1 DEF Users, Init
  <2> QED BY <2>1, <2>2, FS_EmptySet DEF Rows, WithinCapacity
<1>2. TypeOK /\ TypeOK' /\ Rows /\ WithinCapacity /\ [Next]_vars
        => (Rows /\ WithinCapacity)'
  <2> SUFFICES ASSUME Queue, TypeOK', [Next]_vars PROVE Rows' /\ WithinCapacity'
    BY DEF Queue
  <2> QED BY StepKinds, ScheduledKeepsRows, QuietKeepsRows
<1> QED BY <1>1, <1>2, TypeCorrect, PTL DEF Spec, Queue

(* No toilet ever holds more visits than its capacity, for any number of   *)
(* requests, toilets and places.                                           *)
THEOREM CapacityRespected == Spec => []WithinCapacity
<1>1. Queue => WithinCapacity
  BY DEF Queue
<1> QED BY <1>1, QueueInvariant, PTL

(* Between operations nobody who could be admitted is left waiting.        *)
THEOREM QueueIsScheduled == Spec => []NobodyOverlooked
<1>1. Init => NobodyOverlooked
  BY DEF Init, NobodyOverlooked, IsSchedule, Waiting, WaitingIn
<1>2. Queue /\ Queue' /\ NobodyOverlooked /\ [Next]_vars => NobodyOverlooked'
  <2> SUFFICES ASSUME Queue, TypeOK', NobodyOverlooked, [Next]_vars
               PROVE  NobodyOverlooked'
    BY DEF Queue
  <2> QED BY StepKinds, ScheduledKeepsRows, QuietKeepsNobodyOverlooked
<1> QED BY <1>1, <1>2, QueueInvariant, PTL DEF Spec

(* Whoever is admitted requires a toilet, and a visit that goes on keeps    *)
(* those it has.                                                           *)
LEMMA VisitsKeepPlaces ==
    ASSUME Queue, Queue', VisitsAreSomewhere, ScheduledStep \/ QuietStep
    PROVE  VisitsAreSomewhere'
<1> SUFFICES ASSUME NEW r \in Active'
             PROVE  locks'[r] # {} /\ locks'[r] \subseteq Toilets' /\ ~blocked'[r]
  BY DEF VisitsAreSomewhere
<1>1. TypeOK' /\ locks'[r] \subseteq Toilets'
  BY DEF Queue, Rows
<1>2. CASE ScheduledStep
  <2>1. PICK st, act, bl, A :
          /\ Prepared(st, act, bl)
          /\ IsSchedule(A, WaitingIn(st, kind'), ActiveIn(st, kind'),
                        locks', capacity', created')
          /\ A \subseteq WaitingIn(st, kind')
          /\ Active' = ActiveIn(st, kind') \cup A
          /\ \A q \in RequestIds :
               blocked'[q] = (q \notin A /\ (bl[q] \/
                   (q \in WaitingIn(st, kind') /\ locks'[q] = {})))
          /\ WaitingIn(st, kind') \in SUBSET RequestIds
          /\ ActiveIn(st, kind') \in SUBSET RequestIds
          /\ WaitingIn(st, kind') \cap ActiveIn(st, kind') = {}
    BY <1>1, <1>2, ScheduledPass
  <2>2. CASE r \in A
    BY <1>1, <2>1, <2>2 DEF IsSchedule
  <2>3. CASE r \in ActiveIn(st, kind') \ A
    <3>1. /\ locks'[r] = locks[r] /\ bl[r] = blocked[r] /\ r \in Active
          /\ r \in RequestIds /\ r \notin WaitingIn(st, kind')
      BY <2>1, <2>3 DEF Prepared
    <3>2. locks[r] # {} /\ ~blocked[r]
      BY <3>1 DEF VisitsAreSomewhere
    <3> QED BY <1>1, <2>1, <3>1, <3>2
  <2> QED BY <2>1, <2>2, <2>3
<1>3. CASE QuietStep
  BY <1>1, <1>3 DEF QuietStep, VisitsAreSomewhere
<1> QED BY <1>1, <1>2, <1>3

(* Every visit in progress holds a toilet and only toilets that exist.     *)
THEOREM VisitsHavePlaces == Spec => []VisitsAreSomewhere
<1>1. Init => VisitsAreSomewhere
  BY DEF Init, VisitsAreSomewhere, Active, ActiveIn
<1>2. Queue /\ Queue' /\ VisitsAreSomewhere /\ [Next]_vars => VisitsAreSomewhere'
  BY StepKinds, VisitsKeepPlaces DEF Queue
<1> QED BY <1>1, <1>2, QueueInvariant, PTL DEF Spec

(* Only a pass admits, and it admits nobody past a senior competitor.      *)
LEMMA SeniorsFirst ==
    ASSUME TypeOK', ScheduledStep \/ QuietStep,
           NEW r \in Active' \ Active, NEW q \in Waiting', Senior(created', q, r)
    PROVE  ~Compete(locks', q, r)
<1>1. CASE ScheduledStep
  <2>1. PICK st, act, bl, A :
          /\ Prepared(st, act, bl)
          /\ IsSchedule(A, WaitingIn(st, kind'), ActiveIn(st, kind'),
                        locks', capacity', created')
          /\ A \subseteq WaitingIn(st, kind')
          /\ Waiting' = WaitingIn(st, kind') \ A
          /\ Active' = ActiveIn(st, kind') \cup A
    BY <1>1, ScheduledPass
  <2>2. r \in A
    BY <2>1 DEF Prepared
  <2>3. NotBarred(r, A, WaitingIn(st, kind'), locks', created')
    BY <2>1, <2>2 DEF IsSchedule
  <2> QED BY <2>1, <2>3 DEF NotBarred
<1>2. CASE QuietStep
  BY <1>2 DEF QuietStep
<1> QED BY <1>1, <1>2

(* Nobody is admitted past an older waiting request that competes for a    *)
(* toilet, whatever the clock read when the two were made.                 *)
THEOREM SeniorityRespected == Spec => NoOvertaking
<1> DEFINE Fair == \A r \in Active' \ Active, q \in Waiting' :
                      Senior(created', q, r) => ~Compete(locks', q, r)
<1>1. Queue /\ Queue' /\ [Next]_vars => [Fair]_vars
  BY StepKinds, SeniorsFirst DEF Queue
<1> QED BY <1>1, QueueInvariant, PTL DEF Spec, NoOvertaking

(* What becomes of a visit. *)
LEMMA VisitsStep ==
    ASSUME TypeOK', ScheduledStep \/ QuietStep, NEW r \in Active
    PROVE  \/ status'[r] = "done"
           \/ locks[r] \cap (Toilets \ Toilets') # {}
           \/ status'[r] = "active" /\ locks'[r] = locks[r]
                 /\ activated'[r] = activated[r]
<1>1. r \in RequestIds
  BY DEF Active, ActiveIn
<1>2. CASE ScheduledStep
  <2>1. PICK st, act, bl, A :
          /\ Prepared(st, act, bl)
          /\ A \subseteq WaitingIn(st, kind')
          /\ \A q \in RequestIds :
               /\ status'[q] = IF q \in A THEN "active" ELSE st[q]
               /\ q \notin A => activated'[q] = act[q]
    BY <1>2, ScheduledPass
  <2>2. CASE st[r] = "done"
    BY <1>1, <2>1, <2>2 DEF WaitingIn
  <2>3. CASE r \in ActiveIn(st, kind') /\ act[r] = activated[r]
    BY <1>1, <2>1, <2>3 DEF WaitingIn, ActiveIn, Prepared
  <2> QED BY <2>1, <2>2, <2>3 DEF Prepared
<1>3. CASE QuietStep
  BY <1>3 DEF QuietStep, Active, ActiveIn
<1> QED BY <1>2, <1>3

(* A visit ends by a return or by the deletion of one of its toilets, and  *)
(* keeps its toilets and its start until then.                             *)
THEOREM VisitsLeftAlone == Spec => VisitsUndisturbed
<1>1. Queue /\ Queue' /\ [Next]_vars
        => [\A r \in Active :
              \/ status'[r] = "done"
              \/ locks[r] \cap (Toilets \ Toilets') # {}
              \/ status'[r] = "active" /\ locks'[r] = locks[r]
                    /\ activated'[r] = activated[r]]_vars
  BY StepKinds, VisitsStep DEF Queue
<1> QED BY <1>1, QueueInvariant, PTL DEF Spec, VisitsUndisturbed

-----------------------------------------------------------------------------
(* A pass opens and closes nothing. *)
LEMMA PassOpensNothing ==
    ASSUME NEW st \in [RequestIds -> Statuses], NEW act, NEW bl, Schedule(st, act, bl)
    PROVE  \A r \in RequestIds :
             status'[r] \in {"pending", "active"} <=> st[r] \in {"pending", "active"}
<1>1. PICK A \in SUBSET WaitingIn(st, kind') :
        status' = [r \in RequestIds |-> IF r \in A THEN "active" ELSE st[r]]
  BY DEF Schedule
<1> QED BY <1>1 DEF WaitingIn

(* Only create_request opens a request; a demotion makes pending what was  *)
(* open before.                                                            *)
NothingOpened ==
    /\ UNCHANGED <<owner, kind>>
    /\ \A r \in RequestIds : status'[r] \in {"pending", "active"} => Open(r)

LEMMA OthersOpenNothing ==
    ASSUME TypeOK, [Next]_vars,
           ~\E s \in Students, k \in Kinds, a \in Assignments :
               \E by \in Proctors \cup {s} : CreateRequest(by, s, k, a)
    PROVE  NothingOpened
<1>1. status \in [RequestIds -> Statuses]
  BY DEF TypeOK, Statuses
<1>2. ASSUME NEW r \in RequestIds, NEW x \in {"done", "cancelled"},
             \/ Schedule([status EXCEPT ![r] = x], activated, blocked)
             \/ NoPass([status EXCEPT ![r] = x]),
             UNCHANGED identityVars
      PROVE  NothingOpened
  <2> DEFINE st == [status EXCEPT ![r] = x]
  <2>1. /\ st \in [RequestIds -> Statuses]
        /\ \A q \in RequestIds : st[q] \in {"pending", "active"} => Open(q)
    BY <1>1 DEF Statuses, Open
  <2>2. CASE Schedule(st, activated, blocked)
    <3> HIDE DEF st
    <3> QED BY <1>2, <2>1, <2>2, PassOpensNothing DEF NothingOpened, identityVars
  <2>3. CASE NoPass(st)
    BY <1>2, <2>1, <2>3 DEF NothingOpened, NoPass, identityVars
  <2> QED BY <1>2, <2>2, <2>3
<1>3. ASSUME NEW bl, NEW act, Schedule(status, act, bl), UNCHANGED identityVars
      PROVE  NothingOpened
  BY <1>1, <1>3, PassOpensNothing DEF NothingOpened, identityVars, Open
<1>4. ASSUME UNCHANGED <<progressVars, identityVars>>
      PROVE  NothingOpened
  BY <1>4 DEF NothingOpened, progressVars, identityVars, Open
<1>5. ASSUME NEW t \in ToiletIds, DeleteToilet(t)
      PROVE  NothingOpened
  <2> DEFINE st == [r \in RequestIds |-> IF r \in DemotedBy(t) THEN "pending" ELSE status[r]]
             act == [r \in RequestIds |-> IF r \in DemotedBy(t) THEN None ELSE activated[r]]
             affected == Users(Waiting, locks, t) \cup DemotedBy(t)
  <2>1. Schedule(st, act, BlockedAfter(affected)) /\ UNCHANGED identityVars
    BY <1>5 DEF DeleteToilet
  <2>2. /\ st \in [RequestIds -> Statuses]
        /\ \A q \in RequestIds : st[q] \in {"pending", "active"} => Open(q)
    BY <1>1 DEF Statuses, Open, DemotedBy, Users, Active, ActiveIn
  <2> HIDE DEF st, act, affected
  <2> QED BY <2>1, <2>2, PassOpensNothing DEF NothingOpened, identityVars
<1>6. ASSUME NEW s \in Students, NEW r \in RequestIds, CancelRequest(s, r)
      PROVE  NothingOpened
  BY <1>2, <1>6 DEF CancelRequest
<1>7. ASSUME NEW p \in Proctors, NEW r \in RequestIds,
             CompleteToiletRequest(p, r) \/ ResolveSupportRequest(p, r)
      PROVE  NothingOpened
  BY <1>2, <1>7 DEF CompleteToiletRequest, ResolveSupportRequest
<1>8. ASSUME NEW t \in ToiletIds, NEW n \in 1..MaxCapacity, SetToiletCapacity(t, n)
      PROVE  NothingOpened
  BY <1>3, <1>4, <1>8 DEF SetToiletCapacity
<1>9. ASSUME NEW c \in Classes, NEW t \in ToiletIds \cup {NoToilet}, AssignClassToilet(c, t)
      PROVE  NothingOpened
  BY <1>3, <1>9 DEF AssignClassToilet
<1>10. ASSUME \/ \E s \in Students, k \in Kinds, a \in Assignments :
                    \E by \in Proctors \cup {s} : RefuseCreate(by, s, k, a)
              \/ \E s \in Students : RefuseOverLimit(s)
              \/ \E s \in Students, r \in RequestIds : RefuseCancel(s, r)
              \/ \E p \in Proctors, r \in RequestIds, code \in DismissedCodes :
                    ResolveAlert(p, r, code)
              \/ \E t \in ToiletIds, n \in 1..MaxCapacity : CreateToilet(t, n)
              \/ NewWindow \/ Clock \/ UNCHANGED vars
       PROVE  UNCHANGED <<progressVars, identityVars>>
  BY <1>10 DEF RefuseCreate, RefuseOverLimit, RefuseCancel, ResolveAlert, CreateToilet,
               NewWindow, Clock, vars
<1> QED BY <1>4, <1>5, <1>6, <1>7, <1>8, <1>9, <1>10 DEF Next

LEMMA OneOpenStep ==
    ASSUME TypeOK, OneOpenPerStudent, [Next]_vars
    PROVE  OneOpenPerStudent'
<1>1. CASE NothingOpened
  BY <1>1 DEF NothingOpened, OneOpenPerStudent, Open
<1>2. ASSUME NEW s \in Students, NEW k \in Kinds, NEW a \in Assignments, NEW by,
             CreateRequest(by, s, k, a)
      PROVE  OneOpenPerStudent'
  <2>1. PICK r \in RequestIds :
          /\ NextId(r)
          /\ owner' = [owner EXCEPT ![r] = s]
          /\ kind' = [kind EXCEPT ![r] = k]
          /\ \/ Schedule([status EXCEPT ![r] = "pending"], activated, BlockedAfter({r}))
             \/ NoPass([status EXCEPT ![r] = "pending"])
    BY <1>2 DEF CreateRequest
  <2> DEFINE st == [status EXCEPT ![r] = "pending"]
  <2>2. /\ st \in [RequestIds -> Statuses]
        /\ \A q \in RequestIds : st[q] \in {"pending", "active"} => q = r \/ Open(q)
    BY DEF TypeOK, Statuses, Open
  <2>3. \A q \in RequestIds : status'[q] \in {"pending", "active"} => q = r \/ Open(q)
    <3>1. CASE Schedule(st, activated, BlockedAfter({r}))
      <4> HIDE DEF st
      <4> QED BY <2>2, <3>1, PassOpensNothing
    <3>2. CASE NoPass(st)
      BY <2>2, <3>2 DEF NoPass
    <3> QED BY <2>1, <3>1, <3>2
  <2>4. \A q \in RequestIds : Open(q) => ~(owner[q] = s /\ kind[q] = k)
    BY <1>2 DEF CreateRequest, HasOpen
  <2>5. \A q \in RequestIds : q # r => owner'[q] = owner[q] /\ kind'[q] = kind[q]
    BY <2>1 DEF TypeOK
  <2>6. owner'[r] = s /\ kind'[r] = k
    BY <2>1 DEF TypeOK
  <2> QED BY <2>3, <2>4, <2>5, <2>6 DEF OneOpenPerStudent, Open
<1> QED BY <1>1, <1>2, OthersOpenNothing

(* No student ever has two open requests of a kind, across admissions,     *)
(* demotions and any number of operations.                                 *)
THEOREM OneOpenRequest == Spec => []OneOpenPerStudent
<1>1. Init => OneOpenPerStudent
  BY DEF Init, OneOpenPerStudent, Open
<1>2. TypeOK /\ OneOpenPerStudent /\ [Next]_vars => OneOpenPerStudent'
  BY OneOpenStep
<1> QED BY <1>1, <1>2, TypeCorrect, PTL DEF Spec

(* A class never points at a toilet that was deleted.                      *)
THEOREM MappingFollowsToilets == Spec => []MappingLive
<1>1. Init => MappingLive
  BY QueueAssumption DEF Init, MappingLive
<1>2. TypeOK /\ TypeOK' /\ MappingLive /\ [Next]_vars => MappingLive'
  <2> SUFFICES ASSUME TypeOK, TypeOK', MappingLive, [Next]_vars PROVE MappingLive'
    OBVIOUS
  <2> USE QueueAssumption DEF TypeOK, MappingLive, Toilets
  <2>1. ASSUME NEW t \in ToiletIds, DeleteToilet(t)
        PROVE  MappingLive'
    BY <2>1 DEF DeleteToilet, MappingWithout
  <2>2. ASSUME NEW t \in ToiletIds, NEW n \in 1..MaxCapacity,
               CreateToilet(t, n) \/ SetToiletCapacity(t, n)
        PROVE  MappingLive'
    BY <2>2 DEF CreateToilet, SetToiletCapacity
  <2>3. ASSUME NEW c \in Classes, NEW t \in ToiletIds \cup {NoToilet},
               AssignClassToilet(c, t)
        PROVE  MappingLive'
    BY <2>3 DEF AssignClassToilet
  <2>4. CASE UNCHANGED configVars
    BY <2>4 DEF configVars
  <2> HIDE DEF TypeOK, MappingLive, Toilets
  <2>5. \/ UNCHANGED configVars
        \/ \E t \in ToiletIds : DeleteToilet(t)
        \/ \E t \in ToiletIds, n \in 1..MaxCapacity :
              CreateToilet(t, n) \/ SetToiletCapacity(t, n)
        \/ \E c \in Classes, t \in ToiletIds \cup {NoToilet} : AssignClassToilet(c, t)
    BY DEF Next, CreateRequest, RefuseCreate, RefuseOverLimit, CancelRequest, RefuseCancel,
           CompleteToiletRequest, ResolveSupportRequest, ResolveAlert, NewWindow, Clock, vars
  <2> QED BY <2>1, <2>2, <2>3, <2>4, <2>5
<1> QED BY <1>1, <1>2, TypeCorrect, PTL DEF Spec

-----------------------------------------------------------------------------
(* Routes and alerts, request by request: what RouteExact and              *)
(* AlertsTruthful say of one of them.  RouteCovers says more of the         *)
(* fallback, namely Covers.                                                *)
RouteRight(r) ==
    /\ locks[r] \subseteq Toilets
    /\ mode[r] # "fallback_all" =>
          /\ mode[r] = RouteMode(assigned[r], mapping)
          /\ locks[r] = MappedToilets(assigned[r], mapping)
    /\ blocked[r] <=> locks[r] = {}

AlertsRight(r) ==
    /\ alerts[r] \ {"active_toilet_deleted", "no_toilets", "class_without_toilet"}
          \subseteq DesiredAlerts(assigned[r], mapping, Toilets)
    /\ "no_toilets" \in alerts[r] => locks[r] = {}
    /\ "class_without_toilet" \in alerts[r] =>
          mode[r] = "fallback_all" /\ ~LookupFailed(assigned[r])

Right(r) ==
    /\ r \in Waiting => RouteRight(r) /\ AlertsRight(r)
    /\ ~Open(r) \/ kind[r] # "toilet" => alerts[r] = {}

Routed == TypeOK /\ MappingLive /\ \A r \in RequestIds : Right(r)

Covers(r) == r \in Waiting => MappedToilets(assigned[r], mapping) \subseteq locks[r]

(* A step does one of four things to a request: it leaves it and the        *)
(* mapping of its classes alone, rebuilds its route, makes or leaves it a   *)
(* visit, or ends it with its alerts (or it is no toilet request).  Where   *)
(* it changes the mapping without a rebuild, the request is Stranded on the *)
(* fallback.                                                               *)
Retained(r) ==
    /\ status'[r] = status[r] /\ kind'[r] = kind[r] /\ assigned'[r] = assigned[r]
    /\ alerts'[r] \subseteq alerts[r]
    /\ r \in Waiting =>
          /\ mode'[r] = mode[r] /\ locks'[r] = locks[r] /\ locks[r] \subseteq Toilets'
          /\ blocked'[r] <=> blocked[r] \/ locks[r] = {}

Unmoved(r) ==
    /\ Retained(r)
    /\ r \in Waiting => \A c \in assigned[r].classes : mapping'[c] = mapping[c]

Stranded(r) == Retained(r) /\ (r \in Waiting => mode[r] = "fallback_all")

Rebuilt(r, m) ==
    /\ status'[r] \in {"pending", "active"} /\ kind'[r] = "toilet"
    /\ locks'[r] = RouteLocks(assigned'[r], m, Toilets')
    /\ mode'[r] = RouteMode(assigned'[r], m)
    /\ \E open \in SUBSET AlertCodes :
          alerts'[r] = OpenAfter(open, DesiredAlerts(assigned'[r], m, Toilets'))
    /\ \/ \A c \in assigned'[r].classes : m[c] = mapping'[c]
       \/ Fallback(assigned'[r], m)
    /\ status'[r] = "pending" => (blocked'[r] <=> locks'[r] = {})

Visiting(r) == status'[r] = "active" /\ kind'[r] = "toilet"

Ended(r) == alerts'[r] = {} /\ r \notin Waiting'

Handled(r) == Unmoved(r) \/ (\E m : Rebuilt(r, m)) \/ Visiting(r) \/ Ended(r)

(* The alerts about the answer of Olimp-control do not depend on the        *)
(* mapping, and the other two follow the route.                             *)
LEMMA DesiredParts ==
    ASSUME NEW a, NEW m, NEW n, NEW live, NEW now2
    PROVE  /\ DesiredAlerts(a, m, live) \ {"no_toilets", "class_without_toilet"}
                  \subseteq DesiredAlerts(a, n, now2)
           /\ "class_without_toilet" \in DesiredAlerts(a, m, live) =>
                  "class_without_toilet" \in a.anomalies \/ (Fallback(a, m) /\ ~LookupFailed(a))
           /\ "no_toilets" \in DesiredAlerts(a, m, live) =>
                  "no_toilets" \in a.anomalies \/ RouteLocks(a, m, live) = {}
BY DEF DesiredAlerts, Fallback

LEMMA UnmovedStaysRight ==
    ASSUME TypeOK, NEW r \in RequestIds, Right(r), Unmoved(r)
    PROVE  Right(r)'
<1>1. CASE r \notin Waiting
  BY <1>1 DEF Right, Unmoved, Retained, Waiting, WaitingIn, Open
<1>2. CASE r \in Waiting
  <2>1. /\ RouteRight(r) /\ AlertsRight(r) /\ Open(r) /\ Open(r)' /\ kind'[r] = "toilet"
        /\ assigned'[r] = assigned[r] /\ mode'[r] = mode[r] /\ locks'[r] = locks[r]
        /\ alerts'[r] \subseteq alerts[r]
    BY <1>2 DEF Right, Unmoved, Retained, Waiting, WaitingIn, Open
  <2>2. /\ MappedToilets(assigned'[r], mapping') = MappedToilets(assigned[r], mapping)
        /\ RouteMode(assigned'[r], mapping') = RouteMode(assigned[r], mapping)
    BY <1>2, <2>1 DEF Unmoved, MappedToilets, RouteMode, Fallback, Unmapped
  <2>3. RouteRight(r)'
    BY <1>2, <2>1, <2>2 DEF RouteRight, Unmoved, Retained
  <2>4. AlertsRight(r)'
    BY <2>1, DesiredParts DEF AlertsRight
  <2> QED BY <2>1, <2>3, <2>4 DEF Right
<1> QED BY <1>1, <1>2

LEMMA StrandedStaysRight ==
    ASSUME TypeOK, NEW r \in RequestIds, Right(r), Stranded(r)
    PROVE  Right(r)'
<1>1. CASE r \notin Waiting
  BY <1>1 DEF Right, Stranded, Retained, Waiting, WaitingIn, Open
<1>2. CASE r \in Waiting
  <2>1. /\ RouteRight(r) /\ AlertsRight(r) /\ Open(r) /\ Open(r)' /\ kind'[r] = "toilet"
        /\ assigned'[r] = assigned[r] /\ mode'[r] = mode[r] /\ locks'[r] = locks[r]
        /\ alerts'[r] \subseteq alerts[r] /\ mode[r] = "fallback_all"
    BY <1>2 DEF Right, Stranded, Retained, Waiting, WaitingIn, Open
  <2>2. RouteRight(r)'
    BY <1>2, <2>1 DEF RouteRight, Stranded, Retained
  <2>3. AlertsRight(r)'
    BY <2>1, DesiredParts DEF AlertsRight
  <2> QED BY <2>1, <2>2, <2>3 DEF Right
<1> QED BY <1>1, <1>2

LEMMA RebuiltIsRight ==
    ASSUME TypeOK', MappingLive', NEW r \in RequestIds, NEW m, Rebuilt(r, m)
    PROVE  Right(r)'
<1> DEFINE a == assigned'[r]
<1>1. /\ a \in Snapshots /\ a.classes \subseteq Classes
      /\ a.anomalies \subseteq SnapshotAnomalies
  BY QueueAssumption DEF TypeOK, Snapshots, Outage, SnapshotAnomalies
<1>2. Open(r)' /\ kind'[r] = "toilet"
  BY DEF Rebuilt, Open
<1>3. ASSUME r \in Waiting'
      PROVE  RouteRight(r)'
  <2>1. MappedToilets(a, mapping') \subseteq Toilets'
    BY <1>1 DEF MappedToilets, MappingLive
  <2>2. blocked'[r] <=> locks'[r] = {}
    BY <1>3 DEF Rebuilt, Waiting, WaitingIn
  <2>3. CASE Fallback(a, m)
    <3>1. locks'[r] = Toilets' /\ mode'[r] = "fallback_all"
      BY <2>3 DEF Rebuilt, RouteLocks, RouteMode
    <3> QED BY <2>1, <2>2, <3>1 DEF RouteRight
  <2>4. CASE ~Fallback(a, m)
    <3>1. \A c \in a.classes : m[c] = mapping'[c]
      BY <2>4 DEF Rebuilt
    <3>2. /\ MappedToilets(a, m) = MappedToilets(a, mapping')
          /\ RouteMode(a, m) = RouteMode(a, mapping')
      BY <3>1 DEF MappedToilets, RouteMode, Fallback, Unmapped
    <3>3. locks'[r] = MappedToilets(a, mapping') /\ mode'[r] = RouteMode(a, mapping')
      BY <2>1, <2>4, <3>2 DEF Rebuilt, RouteLocks
    <3> QED BY <2>1, <2>2, <3>3 DEF RouteRight
  <2> QED BY <2>3, <2>4
<1>4. AlertsRight(r)'
  <2>1. PICK open \in SUBSET AlertCodes :
            alerts'[r] = OpenAfter(open, DesiredAlerts(a, m, Toilets'))
    BY DEF Rebuilt
  <2>2. alerts'[r] \subseteq {"active_toilet_deleted"} \cup DesiredAlerts(a, m, Toilets')
    BY <2>1 DEF OpenAfter, AlertCodes
  <2>3. {"no_toilets", "class_without_toilet"} \cap a.anomalies = {}
    BY <1>1 DEF SnapshotAnomalies
  <2>4. "class_without_toilet" \in alerts'[r] => Fallback(a, m) /\ ~LookupFailed(a)
    BY <2>2, <2>3, DesiredParts
  <2>5. "no_toilets" \in alerts'[r] => locks'[r] = {}
    BY <2>2, <2>3, DesiredParts DEF Rebuilt
  <2>6. DesiredAlerts(a, m, Toilets') \ {"no_toilets", "class_without_toilet"}
            \subseteq DesiredAlerts(a, mapping', Toilets')
    BY DesiredParts
  <2>7. Fallback(a, m) => mode'[r] = "fallback_all"
    BY DEF Rebuilt, RouteMode
  <2> HIDE DEF a
  <2>8. alerts'[r] \ {"active_toilet_deleted", "no_toilets", "class_without_toilet"}
            \subseteq DesiredAlerts(a, mapping', Toilets')
    BY <2>2, <2>6
  <2> QED BY <2>4, <2>5, <2>7, <2>8 DEF AlertsRight, a
<1> QED BY <1>2, <1>3, <1>4 DEF Right

LEMMA HandledIsRight ==
    ASSUME TypeOK, TypeOK', MappingLive', NEW r \in RequestIds, Right(r),
           Handled(r) \/ Stranded(r)
    PROVE  Right(r)'
<1>1. CASE Visiting(r)
  BY <1>1 DEF Visiting, Right, Waiting, WaitingIn, Open
<1>2. CASE Ended(r)
  BY <1>2 DEF Ended, Right
<1> QED BY <1>1, <1>2, UnmovedStaysRight, StrandedStaysRight, RebuiltIsRight DEF Handled

LEMMA HandledCovers ==
    ASSUME TypeOK', MappingLive', NEW r \in RequestIds, Covers(r), Handled(r)
    PROVE  Covers(r)'
<1> SUFFICES ASSUME r \in Waiting'
             PROVE  MappedToilets(assigned'[r], mapping') \subseteq locks'[r]
  BY DEF Covers
<1> DEFINE a == assigned'[r]
<1>1. status'[r] = "pending" /\ kind'[r] = "toilet"
  BY DEF Waiting, WaitingIn
<1>2. CASE Unmoved(r)
  <2>1. r \in Waiting
    BY <1>1, <1>2 DEF Unmoved, Retained, Waiting, WaitingIn
  <2> QED BY <1>2, <2>1 DEF Unmoved, Retained, Covers, MappedToilets
<1>3. ASSUME NEW m, Rebuilt(r, m)
      PROVE  MappedToilets(a, mapping') \subseteq locks'[r]
  <2>1. locks'[r] = RouteLocks(a, m, Toilets')
    BY <1>3 DEF Rebuilt
  <2>2. a.classes \subseteq Classes
    BY QueueAssumption DEF TypeOK, Outage
  <2>3. MappedToilets(a, mapping') \subseteq Toilets'
    BY <2>2 DEF MappedToilets, MappingLive
  <2>4. CASE Fallback(a, m)
    BY <2>1, <2>3, <2>4 DEF RouteLocks
  <2>5. CASE ~Fallback(a, m)
    <3>1. \A c \in a.classes : m[c] = mapping'[c]
      BY <1>3, <2>5 DEF Rebuilt
    <3>2. MappedToilets(a, m) = MappedToilets(a, mapping')
      BY <3>1 DEF MappedToilets
    <3> QED BY <2>1, <2>3, <2>5, <3>2 DEF RouteLocks
  <2> QED BY <2>4, <2>5
<1> QED BY <1>1, <1>2, <1>3 DEF Handled, Visiting, Ended

-----------------------------------------------------------------------------
(* What the pass at the end of an operation, or the lack of one, does to a *)
(* request.                                                                *)
LEMMA PassOver ==
    ASSUME NEW st \in [RequestIds -> Statuses], NEW act, NEW bl,
           Schedule(st, act, bl), NEW r \in RequestIds
    PROVE  \/ Visiting(r)
           \/ /\ status'[r] = st[r]
              /\ blocked'[r] <=> bl[r] \/ (st[r] = "pending" /\ kind'[r] = "toilet"
                                             /\ locks'[r] = {})
<1>1. PICK A :
        /\ Active' = ActiveIn(st, kind') \cup A
        /\ status'[r] = IF r \in A THEN "active" ELSE st[r]
        /\ blocked'[r] = (r \notin A /\ (bl[r] \/
              (r \in WaitingIn(st, kind') /\ locks'[r] = {})))
  BY PassResult
<1>2. CASE r \in A
  BY <1>1, <1>2 DEF Active, ActiveIn, Visiting
<1>3. CASE r \notin A
  <2>1. r \in WaitingIn(st, kind') <=> st[r] = "pending" /\ kind'[r] = "toilet"
    BY DEF WaitingIn
  <2> QED BY <1>1, <1>3, <2>1, Zenon
<1> QED BY <1>2, <1>3

(* A request the operation itself leaves alone. *)
LEMMA KeptOrVisiting ==
    ASSUME TypeOK, NEW st \in [RequestIds -> Statuses], NEW act, NEW bl,
           \/ Schedule(st, act, bl)
           \/ status' = st /\ UNCHANGED blocked,
           NEW r \in RequestIds,
           st[r] = status[r], bl[r] = blocked[r],
           kind'[r] = kind[r], assigned'[r] = assigned[r], alerts'[r] \subseteq alerts[r],
           r \in Waiting =>
              mode'[r] = mode[r] /\ locks'[r] = locks[r] /\ locks[r] \subseteq Toilets',
           Right(r)
    PROVE  Retained(r) \/ Visiting(r)
<1>1. r \in Waiting => (blocked[r] <=> locks[r] = {})
  BY DEF Right, RouteRight
<1>2. r \in Waiting <=> status[r] = "pending" /\ kind[r] = "toilet"
  BY DEF Waiting, WaitingIn
<1>3. CASE Schedule(st, act, bl)
  <2>1. \/ Visiting(r)
        \/ /\ status'[r] = st[r]
           /\ blocked'[r] <=> bl[r] \/ (st[r] = "pending" /\ kind'[r] = "toilet"
                                          /\ locks'[r] = {})
    BY <1>3, PassOver
  <2>2. CASE /\ status'[r] = st[r]
             /\ blocked'[r] <=> bl[r] \/ (st[r] = "pending" /\ kind'[r] = "toilet"
                                            /\ locks'[r] = {})
    <3>1. r \in Waiting => (blocked'[r] <=> blocked[r] \/ locks[r] = {})
      BY <1>2, <2>2, Zenon
    <3> QED BY <2>2, <3>1 DEF Retained
  <2> QED BY <2>1, <2>2
<1>4. CASE status' = st /\ UNCHANGED blocked
  <2>1. r \in Waiting => (blocked'[r] <=> blocked[r] \/ locks[r] = {})
    BY <1>1, <1>4, Zenon
  <2> QED BY <1>4, <2>1 DEF Retained
<1> QED BY <1>3, <1>4

LEMMA LeftAlone ==
    ASSUME TypeOK, NEW st \in [RequestIds -> Statuses], NEW act, NEW bl,
           \/ Schedule(st, act, bl)
           \/ status' = st /\ UNCHANGED blocked,
           NEW r \in RequestIds,
           st[r] = status[r], bl[r] = blocked[r],
           kind'[r] = kind[r], assigned'[r] = assigned[r], alerts'[r] \subseteq alerts[r],
           r \in Waiting =>
              /\ mode'[r] = mode[r] /\ locks'[r] = locks[r] /\ locks[r] \subseteq Toilets'
              /\ \A c \in assigned[r].classes : mapping'[c] = mapping[c],
           Right(r)
    PROVE  Handled(r)
BY KeptOrVisiting DEF Handled, Unmoved

(* A request whose route the operation rebuilds. *)
LEMMA RouteRebuilt ==
    ASSUME TypeOK, NEW st \in [RequestIds -> Statuses], NEW act, NEW bl,
           NEW S, NEW as, NEW m, NEW live, NEW raised \in [RequestIds -> SUBSET AlertCodes],
           Schedule(st, act, bl),
           Reroute(S, as, m, live, raised),
           NEW r \in RequestIds, r \in S,
           bl[r] = (locks'[r] = {}),
           st[r] = "pending", kind'[r] = "toilet", as[r] = assigned'[r], live = Toilets',
           \/ \A c \in as[r].classes : m[c] = mapping'[c]
           \/ Fallback(as[r], m)
    PROVE  Handled(r)
<1>1. \/ Visiting(r)
      \/ /\ status'[r] = st[r]
         /\ blocked'[r] <=> bl[r] \/ (st[r] = "pending" /\ kind'[r] = "toilet"
                                        /\ locks'[r] = {})
  BY PassOver
<1>2. /\ locks'[r] = RouteLocks(as[r], m, live)
      /\ mode'[r] = RouteMode(as[r], m)
      /\ alerts'[r] = OpenAfter(raised[r], DesiredAlerts(as[r], m, live))
  BY DEF Reroute
<1>3. CASE /\ status'[r] = st[r]
           /\ blocked'[r] <=> bl[r] \/ (st[r] = "pending" /\ kind'[r] = "toilet"
                                          /\ locks'[r] = {})
  <2>1. blocked'[r] <=> locks'[r] = {}
    BY <1>3, Zenon
  <2>2. raised[r] \in SUBSET AlertCodes
    OBVIOUS
  <2>3. Rebuilt(r, m)
    BY <1>2, <1>3, <2>1, <2>2 DEF Rebuilt
  <2> QED BY <2>3 DEF Handled
<1> QED BY <1>1, <1>3 DEF Handled

-----------------------------------------------------------------------------
(* The operations, by what they do to each request. *)
LEMMA CreateRequestHandles ==
    ASSUME Routed, NEW by, NEW s \in Students, NEW k \in Kinds,
           NEW a \in Assignments, CreateRequest(by, s, k, a), NEW q \in RequestIds
    PROVE  Handled(q)
<1>1. PICK r \in RequestIds :
        /\ NextId(r)
        /\ kind' = [kind EXCEPT ![r] = k]
        /\ assigned' = [assigned EXCEPT ![r] = a]
        /\ LET st == [status EXCEPT ![r] = "pending"]
           IN \/ /\ k = "toilet"
                 /\ UNCHANGED configVars
                 /\ Reroute({r}, assigned', mapping, Toilets, alerts)
                 /\ Schedule(st, activated, BlockedAfter({r}))
              \/ /\ k # "toilet"
                 /\ mode' = [mode EXCEPT ![r] = "support"]
                 /\ NoPass(st)
                 /\ UNCHANGED <<configVars, locks, alerts>>
  BY DEF CreateRequest
<1> DEFINE st == [status EXCEPT ![r] = "pending"]
<1>2. /\ st \in [RequestIds -> Statuses] /\ st[r] = "pending"
      /\ kind'[r] = k /\ assigned'[r] = a
      /\ Toilets' = Toilets /\ mapping' = mapping
      /\ TypeOK /\ Right(q) /\ Right(r) /\ status[r] = "none"
      /\ alerts \in [RequestIds -> SUBSET AlertCodes]
  BY <1>1 DEF Routed, TypeOK, Statuses, NextId, configVars, Toilets
<1>3. q # r => /\ st[q] = status[q] /\ kind'[q] = kind[q] /\ assigned'[q] = assigned[q]
  BY <1>1, <1>2 DEF TypeOK
<1>4. q \in Waiting => locks[q] \subseteq Toilets /\ q # r
  BY <1>2 DEF Right, RouteRight, Waiting, WaitingIn
<1> HIDE DEF st
<1>5. CASE k = "toilet"
  <2>1. /\ Reroute({r}, assigned', mapping, Toilets, alerts)
        /\ Schedule(st, activated, BlockedAfter({r}))
    BY <1>1, <1>5 DEF st
  <2>2. CASE q = r
    <3>1. BlockedAfter({r})[r] = (locks'[r] = {})
      BY DEF BlockedAfter
    <3> QED BY <1>2, <1>5, <2>1, <2>2, <3>1, RouteRebuilt
  <2>3. CASE q # r
    <3>1. /\ BlockedAfter({r})[q] = blocked[q] /\ alerts'[q] = alerts[q]
          /\ locks'[q] = locks[q] \cap Toilets /\ mode'[q] = mode[q]
      BY <2>1, <2>3 DEF BlockedAfter, Reroute
    <3> QED BY <1>2, <1>3, <1>4, <2>1, <2>3, <3>1, LeftAlone
  <2> QED BY <2>2, <2>3
<1>6. CASE k # "toilet"
  <2>1. /\ mode' = [mode EXCEPT ![r] = "support"]
        /\ status' = st /\ UNCHANGED <<activated, blocked, locks, alerts>>
    BY <1>1, <1>6 DEF NoPass, st
  <2>2. CASE q = r
    <3>1. alerts'[r] = {}
      BY <1>2, <2>1 DEF Right, Open
    <3> QED BY <1>2, <1>6, <2>2, <3>1 DEF Handled, Ended, Waiting, WaitingIn
  <2>3. CASE q # r
    <3>1. mode'[q] = mode[q] /\ locks'[q] = locks[q] /\ alerts'[q] = alerts[q]
      BY <1>2, <2>1, <2>3 DEF TypeOK
    <3> QED BY <1>2, <1>3, <1>4, <2>1, <2>3, <3>1, LeftAlone
  <2> QED BY <2>2, <2>3
<1> QED BY <1>5, <1>6

(* Closing a request settles its alerts and leaves every other alone. *)
LEMMA CloseHandles ==
    ASSUME Routed, NEW r \in RequestIds, NEW x \in {"done", "cancelled"},
           alerts' = [alerts EXCEPT ![r] = {}],
           UNCHANGED <<configVars, mode, locks, identityVars>>,
           \/ Schedule([status EXCEPT ![r] = x], activated, blocked)
           \/ NoPass([status EXCEPT ![r] = x]),
           NEW q \in RequestIds
    PROVE  Handled(q)
<1> DEFINE st == [status EXCEPT ![r] = x]
<1>1. /\ st \in [RequestIds -> Statuses] /\ st[r] = x
      /\ Toilets' = Toilets /\ TypeOK /\ Right(q)
      /\ q # r => st[q] = status[q] /\ alerts'[q] = alerts[q]
      /\ alerts'[r] = {}
  BY DEF Routed, TypeOK, Statuses, configVars, Toilets
<1>2. \/ Schedule(st, activated, blocked)
      \/ status' = st /\ UNCHANGED blocked
  BY DEF NoPass
<1> HIDE DEF st
<1>3. CASE q = r
  <2>1. r \notin Waiting' \/ Visiting(r)
    BY <1>1, <1>2, PassOver DEF Waiting, WaitingIn
  <2> QED BY <1>1, <1>3, <2>1 DEF Handled, Ended
<1>4. CASE q # r
  <2>1. q \in Waiting => locks[q] \subseteq Toilets
    BY <1>1 DEF Right, RouteRight
  <2> QED BY <1>1, <1>2, <1>4, <2>1, LeftAlone DEF configVars, identityVars
<1> QED BY <1>3, <1>4

(* Operations that touch no route, mapping or snapshot. *)
LEMMA QuietHandles ==
    ASSUME Routed, Toilets \subseteq Toilets',
           UNCHANGED <<mapping, mode, locks, identityVars>>,
           \/ Schedule(status, activated, blocked)
           \/ UNCHANGED progressVars,
           NEW q \in RequestIds, alerts'[q] \subseteq alerts[q]
    PROVE  Handled(q)
<1>1. /\ status \in [RequestIds -> Statuses] /\ TypeOK /\ Right(q)
      /\ \/ Schedule(status, activated, blocked)
         \/ status' = status /\ UNCHANGED blocked
  BY DEF Routed, TypeOK, Statuses, progressVars
<1>2. q \in Waiting => locks[q] \subseteq Toilets'
  BY <1>1 DEF Right, RouteRight
<1> QED BY <1>1, <1>2, LeftAlone DEF identityVars

LEMMA ResolveSupportRequestHandles ==
    ASSUME Routed, NEW p, NEW r \in RequestIds, ResolveSupportRequest(p, r),
           NEW q \in RequestIds
    PROVE  Handled(q)
<1>1. /\ alerts[r] = {} /\ status' = [status EXCEPT ![r] = "done"]
      /\ UNCHANGED <<configVars, routeVars, activated, blocked, identityVars>>
  BY DEF Routed, Right, ResolveSupportRequest, NoPass
<1> QED
  <2>1. alerts' = [alerts EXCEPT ![r] = {}]
    BY <1>1 DEF Routed, TypeOK, routeVars
  <2>2. NoPass([status EXCEPT ![r] = "done"])
    BY <1>1 DEF NoPass
  <2> QED BY <1>1, <2>1, <2>2, CloseHandles DEF routeVars

LEMMA AssignClassToiletHandles ==
    ASSUME Routed, NEW c \in Classes, NEW t, AssignClassToilet(c, t), NEW q \in RequestIds
    PROVE  Handled(q)
<1> DEFINE S == PendingOf(c)
<1>1. /\ UNCHANGED <<capacity, retired, identityVars>>
      /\ \E row : mapping' = [mapping EXCEPT ![c] = row]
      /\ Reroute(S, assigned, Visible(c), Toilets, alerts)
      /\ Schedule(status, activated, BlockedAfter(S))
  BY DEF AssignClassToilet
<1>2. /\ status \in [RequestIds -> Statuses] /\ TypeOK /\ Right(q)
      /\ alerts \in [RequestIds -> SUBSET AlertCodes]
      /\ Toilets' = Toilets /\ kind' = kind /\ assigned' = assigned
  BY <1>1 DEF Routed, TypeOK, Statuses, Toilets, identityVars
<1>3. CASE q \in S
  <2>1. status[q] = "pending" /\ kind[q] = "toilet" /\ c \in assigned[q].classes
    BY <1>3 DEF PendingOf, Waiting, WaitingIn
  <2>2. BlockedAfter(S)[q] = (locks'[q] = {})
    BY <1>3 DEF BlockedAfter
  <2>3. CASE mapping[c] = NoRow
    <3>1. Fallback(assigned[q], Visible(c))
      BY <2>1, <2>3, QueueAssumption DEF Visible, Fallback, Unmapped
    <3> HIDE DEF S
    <3> QED BY <1>1, <1>2, <1>3, <2>1, <2>2, <3>1, RouteRebuilt
  <2>4. CASE mapping[c] # NoRow
    <3>1. Visible(c) = mapping'
      BY <2>4 DEF Visible
    <3> HIDE DEF S
    <3> QED BY <1>1, <1>2, <1>3, <2>1, <2>2, <3>1, RouteRebuilt
  <2> QED BY <2>3, <2>4
<1>4. CASE q \notin S
  <2>1. /\ BlockedAfter(S)[q] = blocked[q] /\ alerts'[q] = alerts[q]
        /\ locks'[q] = locks[q] \cap Toilets /\ mode'[q] = mode[q]
    BY <1>1, <1>4 DEF BlockedAfter, Reroute
  <2>2. q \in Waiting => /\ locks[q] \subseteq Toilets
                         /\ c \notin assigned[q].classes
    BY <1>2, <1>4 DEF Right, RouteRight, PendingOf
  <2>3. q \in Waiting => \A d \in assigned[q].classes : mapping'[d] = mapping[d]
    BY <1>1, <1>2, <2>2, QueueAssumption DEF TypeOK, Outage
  <2> HIDE DEF S
  <2> QED BY <1>1, <1>2, <2>1, <2>2, <2>3, LeftAlone
<1> QED BY <1>3, <1>4

LEMMA DeleteToiletHandles ==
    ASSUME Routed, TypeOK', NEW t \in ToiletIds, DeleteToilet(t), NEW q \in RequestIds
    PROVE  /\ Handled(q) \/ Stranded(q)
           /\ Covers(q) => Handled(q)
<1> DEFINE demoted == DemotedBy(t)
           affected == Users(Waiting, locks, t) \cup demoted
           raised == [r \in RequestIds |-> IF r \in demoted
                        THEN alerts[r] \cup {"active_toilet_deleted"} ELSE alerts[r]]
           st == [r \in RequestIds |-> IF r \in demoted THEN "pending" ELSE status[r]]
           act == [r \in RequestIds |-> IF r \in demoted THEN None ELSE activated[r]]
<1>1. /\ capacity' = [capacity EXCEPT ![t] = 0]
      /\ mapping' = MappingWithout(t)
      /\ UNCHANGED identityVars
      /\ Reroute(affected, assigned, mapping', Toilets \ {t}, raised)
      /\ Schedule(st, act, BlockedAfter(affected))
  BY DEF DeleteToilet
<1>2. /\ TypeOK /\ Right(q) /\ MappingLive
      /\ kind' = kind /\ assigned' = assigned
      /\ "active_toilet_deleted" \in AlertCodes
  BY <1>1 DEF Routed, identityVars, AlertCodes
<1>3. Toilets' = Toilets \ {t}
  BY <1>1, <1>2, QueueAssumption DEF TypeOK, Toilets
<1>4. st \in [RequestIds -> Statuses] /\ raised \in [RequestIds -> SUBSET AlertCodes]
  BY <1>2 DEF TypeOK, Statuses
<1>5. CASE q \in affected
  <2>1. st[q] = "pending" /\ kind[q] = "toilet"
    BY <1>5 DEF DemotedBy, Users, Waiting, WaitingIn, Active, ActiveIn
  <2>2. BlockedAfter(affected)[q] = (locks'[q] = {})
    BY <1>5 DEF BlockedAfter
  <2> HIDE DEF affected, raised, st, act
  <2> QED BY <1>1, <1>2, <1>3, <1>4, <1>5, <2>1, <2>2, RouteRebuilt
<1>6. CASE q \notin affected
  <2>1. /\ BlockedAfter(affected)[q] = blocked[q] /\ alerts'[q] = raised[q]
        /\ locks'[q] = locks[q] \cap (Toilets \ {t}) /\ mode'[q] = mode[q]
    BY <1>1, <1>6 DEF BlockedAfter, Reroute
  <2>2. st[q] = status[q] /\ raised[q] = alerts[q]
    BY <1>6
  <2>3. q \in Waiting => locks[q] \subseteq Toilets \ {t}
    BY <1>2, <1>6 DEF Right, RouteRight, Users
  <2>4. Retained(q) \/ Visiting(q)
    <3> HIDE DEF affected, raised, st, act
    <3> QED BY <1>1, <1>2, <1>3, <1>4, <2>1, <2>2, <2>3, KeptOrVisiting
  <2>5. CASE Covers(q)
    <3>1. assigned[q].classes \subseteq Classes
      BY <1>2, QueueAssumption DEF TypeOK, Outage
    <3>2. q \in Waiting => \A d \in assigned[q].classes : mapping[d] # t
      BY <2>3, <2>5, <3>1 DEF Covers, MappedToilets
    <3>3. q \in Waiting => \A d \in assigned[q].classes : mapping'[d] = mapping[d]
      BY <1>1, <3>1, <3>2 DEF MappingWithout
    <3> QED BY <2>4, <3>3 DEF Handled, Unmoved
  <2>6. CASE ~Covers(q)
    <3>1. mode[q] = "fallback_all"
      BY <1>2, <2>6 DEF Covers, Right, RouteRight
    <3> QED BY <2>4, <2>6, <3>1 DEF Handled, Stranded
  <2> QED BY <2>5, <2>6
<1> QED BY <1>5, <1>6

LEMMA StepHandles ==
    ASSUME Routed, TypeOK', [Next]_vars, NEW q \in RequestIds
    PROVE  /\ Handled(q) \/ Stranded(q)
           /\ Covers(q) => Handled(q)
<1> USE DEF configVars, routeVars, progressVars, identityVars, Toilets
<1>1. ASSUME NEW s \in Students, NEW k \in Kinds, NEW a \in Assignments, NEW by,
             CreateRequest(by, s, k, a)
      PROVE  Handled(q)
  BY <1>1, CreateRequestHandles
<1>2. ASSUME NEW s \in Students, NEW r \in RequestIds, CancelRequest(s, r)
      PROVE  Handled(q)
  BY <1>2, CloseHandles DEF CancelRequest
<1>3. ASSUME NEW p, NEW r \in RequestIds, CompleteToiletRequest(p, r)
      PROVE  Handled(q)
  BY <1>3, CloseHandles DEF CompleteToiletRequest
<1>4. ASSUME NEW p, NEW r \in RequestIds, ResolveSupportRequest(p, r)
      PROVE  Handled(q)
  BY <1>4, ResolveSupportRequestHandles
<1>5. ASSUME NEW p, NEW r \in RequestIds, NEW code, ResolveAlert(p, r, code)
      PROVE  Handled(q)
  <2>1. alerts'[q] \subseteq alerts[q]
    BY <1>5 DEF ResolveAlert, Routed, Queue, TypeOK
  <2> QED BY <1>5, <2>1, QuietHandles DEF ResolveAlert
<1>6. ASSUME NEW t \in ToiletIds, DeleteToilet(t)
      PROVE  /\ Handled(q) \/ Stranded(q)
             /\ Covers(q) => Handled(q)
  BY <1>6, DeleteToiletHandles
<1>7. ASSUME NEW t \in ToiletIds, NEW n \in 1..MaxCapacity,
             CreateToilet(t, n) \/ SetToiletCapacity(t, n)
      PROVE  Handled(q)
  <2>1. /\ capacity' = [capacity EXCEPT ![t] = n]
        /\ UNCHANGED <<mapping, routeVars, identityVars>>
        /\ Schedule(status, activated, blocked) \/ UNCHANGED progressVars
    BY <1>7 DEF CreateToilet, SetToiletCapacity
  <2>2. Toilets \subseteq Toilets'
    BY <2>1, QueueAssumption DEF Routed, TypeOK
  <2> QED BY <2>1, <2>2, QuietHandles
<1>8. ASSUME NEW c \in Classes, NEW t, AssignClassToilet(c, t)
      PROVE  Handled(q)
  BY <1>8, AssignClassToiletHandles
<1>9. CASE UNCHANGED <<configVars, routeVars, progressVars, identityVars>>
  BY <1>9, QuietHandles
<1> QED
  BY <1>1, <1>2, <1>3, <1>4, <1>5, <1>6, <1>7, <1>8, <1>9
     DEF Next, RefuseCreate, RefuseOverLimit, RefuseCancel, NewWindow, Clock, vars

LEMMA RoutingInvariant == Spec => [](Routed /\ \A r \in RequestIds : Covers(r))
<1> DEFINE Inv == \A r \in RequestIds : Right(r) /\ Covers(r)
<1>1. Init => Inv
  BY DEF Init, Right, Covers, Waiting, WaitingIn
<1>2. TypeOK /\ TypeOK' /\ MappingLive /\ MappingLive' /\ Inv /\ [Next]_vars => Inv'
  <2> SUFFICES ASSUME Routed, TypeOK', MappingLive', [Next]_vars,
                      NEW r \in RequestIds, Covers(r)
               PROVE  Right(r)' /\ Covers(r)'
    BY DEF Routed
  <2>1. Handled(r)
    BY StepHandles
  <2> QED BY <2>1, HandledIsRight, HandledCovers DEF Routed
<1>3. TypeOK /\ MappingLive /\ Inv => Routed /\ \A r \in RequestIds : Covers(r)
  BY DEF Routed
<1> QED BY <1>1, <1>2, <1>3, TypeCorrect, MappingFollowsToilets, PTL DEF Spec

(* The route of a waiting request requires only existing toilets, all the  *)
(* toilets its classes use now, and unless it is a fallback no others,     *)
(* however often the mapping changed since the request was made.           *)
THEOREM RoutesCovered == Spec => []RouteCovers
<1>1. Routed /\ (\A r \in RequestIds : Covers(r)) => RouteCovers
  BY DEF Routed, Right, RouteRight, Covers, RouteCovers, Waiting, WaitingIn
<1> QED BY <1>1, RoutingInvariant, PTL

(* No alert is open about a request that ended, and none about a waiting   *)
(* one that its answer, its classes or its route does not bear out.        *)
THEOREM AlertsTellTheTruth == Spec => []AlertsTruthful
<1>1. Routed => AlertsTruthful
  BY DEF Routed, Right, AlertsRight, AlertsTruthful, Waiting, WaitingIn
<1> QED BY <1>1, RoutingInvariant, PTL

-----------------------------------------------------------------------------
(* The queue implements ToiletAccess: each step admits, returns, resizes   *)
(* or closes, or is not seen there.                                        *)

(* Only a return ends a visit, and no operation changes what it is.        *)
LEMMA VisitGoesOn ==
    ASSUME Queue, [Next]_vars, NEW q \in Active,
           ~\E p \in Proctors : CompleteToiletRequest(p, q)
    PROVE  status'[q] # "done" /\ kind'[q] = kind[q]
<1>1. /\ TypeOK /\ status \in [RequestIds -> Statuses] /\ q \in RequestIds
      /\ status[q] = "active" /\ kind[q] = "toilet"
  BY DEF Queue, TypeOK, Statuses, Active, ActiveIn
<1>2. ASSUME NEW st \in [RequestIds -> Statuses], NEW act, NEW bl,
             Schedule(st, act, bl), st[q] # "done"
      PROVE  status'[q] # "done"
  BY <1>1, <1>2, PassOver DEF Visiting
<1>3. ASSUME NEW s \in Students, NEW k \in Kinds, NEW a \in Assignments, NEW by,
             CreateRequest(by, s, k, a)
      PROVE  status'[q] # "done" /\ kind'[q] = kind[q]
  <2>1. PICK r \in RequestIds :
          /\ NextId(r)
          /\ kind' = [kind EXCEPT ![r] = k]
          /\ \/ Schedule([status EXCEPT ![r] = "pending"], activated, BlockedAfter({r}))
             \/ NoPass([status EXCEPT ![r] = "pending"])
    BY <1>3 DEF CreateRequest
  <2> DEFINE st == [status EXCEPT ![r] = "pending"]
  <2>2. q # r /\ st \in [RequestIds -> Statuses] /\ st[q] = "active"
    BY <1>1, <2>1 DEF NextId, Statuses
  <2>3. kind'[q] = kind[q]
    BY <1>1, <2>1, <2>2 DEF TypeOK
  <2> HIDE DEF st
  <2>4. status'[q] # "done"
    BY <1>2, <2>1, <2>2 DEF NoPass, st
  <2> QED BY <2>3, <2>4
<1>4. ASSUME NEW r \in RequestIds, NEW x \in {"done", "cancelled"}, q # r,
             \/ Schedule([status EXCEPT ![r] = x], activated, blocked)
             \/ NoPass([status EXCEPT ![r] = x]),
             UNCHANGED identityVars
      PROVE  status'[q] # "done" /\ kind'[q] = kind[q]
  <2> DEFINE st == [status EXCEPT ![r] = x]
  <2>1. st \in [RequestIds -> Statuses] /\ st[q] = "active"
    BY <1>1, <1>4 DEF Statuses
  <2>2. Schedule(st, activated, blocked) \/ NoPass(st)
    BY <1>4
  <2> HIDE DEF st
  <2> QED BY <1>2, <1>4, <2>1, <2>2 DEF NoPass, identityVars
<1>5. ASSUME NEW s \in Students, NEW r \in RequestIds, CancelRequest(s, r)
      PROVE  status'[q] # "done" /\ kind'[q] = kind[q]
  BY <1>1, <1>4, <1>5 DEF CancelRequest, MayCancel
<1>6. ASSUME NEW p \in Proctors, NEW r \in RequestIds,
             CompleteToiletRequest(p, r) \/ ResolveSupportRequest(p, r)
      PROVE  status'[q] # "done" /\ kind'[q] = kind[q]
  BY <1>1, <1>4, <1>6 DEF CompleteToiletRequest, ResolveSupportRequest
<1>7. ASSUME NEW t \in ToiletIds, DeleteToilet(t)
      PROVE  status'[q] # "done" /\ kind'[q] = kind[q]
  <2> DEFINE st == [r \in RequestIds |-> IF r \in DemotedBy(t) THEN "pending" ELSE status[r]]
  <2>1. st \in [RequestIds -> Statuses] /\ st[q] # "done"
    BY <1>1 DEF Statuses
  <2>2. (\E act, bl : Schedule(st, act, bl)) /\ UNCHANGED identityVars
    BY <1>7 DEF DeleteToilet
  <2> HIDE DEF st
  <2> QED BY <1>2, <2>1, <2>2 DEF identityVars
<1>8. ASSUME UNCHANGED identityVars,
             (\E act, bl : Schedule(status, act, bl)) \/ UNCHANGED progressVars
      PROVE  status'[q] # "done" /\ kind'[q] = kind[q]
  BY <1>1, <1>2, <1>8 DEF identityVars, progressVars
<1> QED
  BY <1>3, <1>5, <1>6, <1>7, <1>8
     DEF Next, RefuseCreate, RefuseOverLimit, RefuseCancel, ResolveAlert, CreateToilet,
         SetToiletCapacity, AssignClassToilet, NewWindow, Clock, vars

LEMMA ReturnsOne ==
    ASSUME TypeOK, NEW p, NEW g, NEW r \in RequestIds, NEW q \in RequestIds,
           CompleteToiletRequest(p, r), CompleteToiletRequest(g, q)
    PROVE  q = r
<1> SUFFICES ASSUME q # r PROVE FALSE
  OBVIOUS
<1> DEFINE st(x) == [status EXCEPT ![x] = "done"]
<1>1. \A x \in RequestIds : st(x) \in [RequestIds -> Statuses]
  BY DEF TypeOK, Statuses
<1>2. st(r)[q] = "active" /\ st(q)[q] = "done"
  BY DEF TypeOK, CompleteToiletRequest
<1>3. Schedule(st(r), activated, blocked) /\ Schedule(st(q), activated, blocked)
  BY DEF CompleteToiletRequest
<1> HIDE DEF st
<1> QED BY <1>1, <1>2, <1>3, PassOpensNothing

(* Who held toilets when the step began and goes on holds the same; the    *)
(* others enter, or hold nothing.                                          *)
LEMMA EnterFrom ==
    ASSUME Queue', NEW h \in [RequestIds -> SUBSET ToiletIds],
           \A q \in RequestIds : h[q] # {} => q \in Active' /\ locks'[q] = h[q]
    PROVE  Access!Enter(h)
<1>1. Held' \in [RequestIds -> SUBSET ToiletIds]
  BY DEF Held, Queue, TypeOK
<1>2. \A t \in ToiletIds : Access!Visiting(Held', t) = Users(Active', locks', t)
  BY DEF Access!Visiting, Held, Users, Active, ActiveIn
<1>3. \A t \in ToiletIds : Cardinality(Users(Active', locks', t)) <= capacity'[t]
  BY DEF Queue, WithinCapacity
<1>4. Access!Fits(Held', capacity')
  BY <1>2, <1>3 DEF Access!Fits, Access!Cardinality, Cardinality
<1>5. \A q \in RequestIds : h[q] # {} => Held'[q] = h[q]
  BY DEF Held
<1> QED BY <1>1, <1>4, <1>5 DEF Access!Enter

LEMMA StepImplementsAccess ==
    ASSUME Queue, Queue', VisitsAreSomewhere, [Next]_vars
    PROVE  [Access!Next]_(Access!vars)
<1>1. /\ Held \in [RequestIds -> SUBSET ToiletIds]
      /\ \A q \in RequestIds : Held[q] # {} => q \in Active /\ Held[q] = locks[q]
  BY DEF Held, Queue, TypeOK
<1>2. ASSUME NEW q \in Active, ~\E p \in Proctors : CompleteToiletRequest(p, q),
             locks[q] \cap (Toilets \ Toilets') = {}
      PROVE  q \in Active' /\ locks'[q] = locks[q]
  <2>1. status'[q] = "active" /\ locks'[q] = locks[q]
    BY <1>2, VisitGoesOn, StepKinds, VisitsStep DEF Queue
  <2>2. q \in RequestIds /\ kind[q] = "toilet"
    BY DEF Active, ActiveIn
  <2> QED BY <1>2, <2>1, <2>2, VisitGoesOn DEF Active, ActiveIn
<1>3. ASSUME NEW p \in Proctors, NEW r \in RequestIds, CompleteToiletRequest(p, r)
      PROVE  Access!Return(r)
  <2>1. Held[r] # {} /\ UNCHANGED capacity /\ Toilets' = Toilets
    BY <1>3 DEF CompleteToiletRequest, Held, VisitsAreSomewhere, Active, ActiveIn,
                configVars, Toilets
  <2> DEFINE h == [Held EXCEPT ![r] = {}]
  <2>2. h \in [RequestIds -> SUBSET ToiletIds]
    BY <1>1
  <2>3. ASSUME NEW q \in RequestIds, h[q] # {}
        PROVE  q \in Active' /\ locks'[q] = h[q]
    <3>1. q # r /\ h[q] = Held[q]
      BY <1>1, <2>3
    <3>2. ~\E g \in Proctors : CompleteToiletRequest(g, q)
      BY <1>3, <3>1, ReturnsOne DEF Queue
    <3> QED BY <1>1, <1>2, <2>1, <2>3, <3>1, <3>2
  <2> HIDE DEF h
  <2>4. Access!Enter(h)
    BY <2>2, <2>3, EnterFrom
  <2> QED BY <2>1, <2>4 DEF Access!Return, h
<1>4. ASSUME ~\E p \in Proctors, r \in RequestIds : CompleteToiletRequest(p, r),
             Toilets \subseteq Toilets'
      PROVE  Access!Enter(Held)
  <2>1. ASSUME NEW q \in RequestIds, Held[q] # {}
        PROVE  q \in Active' /\ locks'[q] = Held[q]
    BY <1>1, <1>2, <1>4, <2>1
  <2> QED BY <1>1, <2>1, EnterFrom
<1>5. ASSUME NEW t \in ToiletIds, DeleteToilet(t),
             ~\E p \in Proctors, r \in RequestIds : CompleteToiletRequest(p, r)
      PROVE  Access!Close(t)
  <2>1. capacity' = [capacity EXCEPT ![t] = 0]
    BY <1>5 DEF DeleteToilet
  <2>2. Toilets \ Toilets' \subseteq {t}
    BY <2>1 DEF Toilets, Queue, TypeOK
  <2> DEFINE h == [q \in RequestIds |-> IF t \in Held[q] THEN {} ELSE Held[q]]
  <2>3. h \in [RequestIds -> SUBSET ToiletIds]
    BY <1>1
  <2>4. ASSUME NEW q \in RequestIds, h[q] # {}
        PROVE  q \in Active' /\ locks'[q] = h[q]
    <3>1. q \in Active /\ h[q] = locks[q] /\ t \notin locks[q]
      BY <1>1, <2>4
    <3> QED BY <1>2, <1>5, <2>2, <3>1
  <2> HIDE DEF h
  <2>5. Access!Enter(h)
    BY <2>3, <2>4, EnterFrom
  <2> QED BY <2>1, <2>5 DEF Access!Close, h
<1>6. CASE ~\E p \in Proctors, r \in RequestIds : CompleteToiletRequest(p, r)
  <2>1. ASSUME NEW t \in ToiletIds, NEW n \in 1..MaxCapacity,
               CreateToilet(t, n) \/ SetToiletCapacity(t, n)
        PROVE  Access!Resize(t, n)
    <3>1. capacity' = [capacity EXCEPT ![t] = n]
      BY <2>1 DEF CreateToilet, SetToiletCapacity
    <3>2. Toilets \subseteq Toilets'
      BY <3>1, QueueAssumption DEF Toilets, Queue, TypeOK
    <3> QED BY <1>4, <1>6, <3>1, <3>2 DEF Access!Resize
  <2>2. CASE UNCHANGED capacity
    <3>1. Toilets \subseteq Toilets'
      BY <2>2 DEF Toilets
    <3> QED BY <1>4, <1>6, <2>2, <3>1 DEF Access!Admit, Access!Next
  <2>3. \/ UNCHANGED capacity
        \/ \E t \in ToiletIds : DeleteToilet(t)
        \/ \E t \in ToiletIds, n \in 1..MaxCapacity :
              CreateToilet(t, n) \/ SetToiletCapacity(t, n)
    BY DEF Next, CreateRequest, RefuseCreate, RefuseOverLimit, CancelRequest, RefuseCancel,
           CompleteToiletRequest, ResolveSupportRequest, ResolveAlert, AssignClassToilet,
           NewWindow, Clock, vars, configVars
  <2> QED BY <1>5, <1>6, <2>1, <2>2, <2>3 DEF Access!Next
<1> QED BY <1>3, <1>6 DEF Access!Next

(* The queue implements ToiletAccess: whatever the classes, routes, alerts *)
(* and the clock do, toilets are taken all at once up to their capacity,   *)
(* and given back all at once by a return or by the closing of one.        *)
THEOREM QueueImplementsAccess == Spec => ImplementsAccess
<1>1. Init => Access!Init
  BY DEF Init, Access!Init, Held, Active, ActiveIn
<1> QED
  BY <1>1, StepImplementsAccess, QueueInvariant, VisitsHavePlaces, PTL
     DEF Spec, ImplementsAccess, Access!Spec

-----------------------------------------------------------------------------
(* Legacy keys.  A snapshot in the database names classes the catalogue may *)
(* not list any more.                                                       *)
StoredSnapshots ==
    [failed : BOOLEAN, classes : SUBSET Classes, anomalies : SUBSET SnapshotAnomalies]

(* The rows a reconciliation reads are in their domains, and a class points *)
(* at toilets that exist.                                                   *)
RowsOK ==
    /\ capacity \in [ToiletIds -> Nat]
    /\ mapping \in [Classes -> ToiletIds \cup {NoToilet, NoRow}]
    /\ assigned \in [RequestIds -> StoredSnapshots]
    /\ MappingLive

-----------------------------------------------------------------------------
(* A legacy row that is moved has one live namesake, which may take its     *)
(* toilet.                                                                  *)
LEMMA MovedRow ==
    ASSUME NEW cat \in Catalogues, NEW neutral \in Neutrals(cat),
           NEW c \in Resolved(cat, neutral)
    PROVE  /\ c \in Generated /\ c \in Classes
           /\ c \in Unmatched(cat) /\ c \notin neutral
           /\ Target(c, cat) \in Classes \ Generated
           /\ NameOf[Target(c, cat)] = NameOf[c]
           /\ Compatible(c, Target(c, cat))
<1>1. /\ c \in Unmatched(cat) \cap Generated
      /\ c \notin neutral
  BY DEF Resolved, Neutrals
<1>2. PICK d \in Classes : LiveNamesakes(c, cat) = {d} /\ Compatible(c, d)
  BY DEF Resolved
<1>3. Target(c, cat) = d
  BY <1>2 DEF Target
<1>4. d \in cat /\ NameOf[d] = NameOf[c]
  BY <1>2 DEF LiveNamesakes
<1>5. cat \subseteq Classes \ Generated /\ Generated \subseteq Classes
  BY KeysAssumption
<1> QED BY <1>1, <1>2, <1>3, <1>4, <1>5

(* No two legacy rows give their toilets to the same class. *)
LEMMA OneDonor ==
    ASSUME NEW cat \in Catalogues, NEW neutral \in Neutrals(cat),
           NEW d, NEW c \in Donors(d, Resolved(cat, neutral), cat),
           NEW e \in Donors(d, Resolved(cat, neutral), cat)
    PROVE  e = c
<1>1. /\ c \in Resolved(cat, neutral) /\ Target(c, cat) = d
      /\ e \in Resolved(cat, neutral) /\ Target(e, cat) = d
  BY DEF Donors
<1>2. NameOf[c] = NameOf[e] /\ e \in Unmatched(cat) /\ e \notin neutral
  BY <1>1, MovedRow
<1>3. SameName(c, e, neutral)
  BY <1>2 DEF SameName
<1>4. \A f \in Unmatched(cat) : SameName(c, f, neutral) => f = c
  BY <1>1 DEF Resolved
<1> QED BY <1>2, <1>3, <1>4

(* A class that keeps its key keeps its toilet. *)
LEMMA UnmovedKeepToilets ==
    ASSUME NEW cat \in Catalogues, NEW neutral \in Neutrals(cat),
           NEW c \in Classes \ Resolved(cat, neutral), mapping[c] \in ToiletIds
    PROVE  MappingAfter(Resolved(cat, neutral), cat)[c] = mapping[c]
<1> DEFINE moved == Resolved(cat, neutral)
           given == Donors(c, moved, cat)
<1>1. mapping[c] # NoToilet /\ mapping[c] # NoRow
  BY QueueAssumption
<1>2. CASE given # {}
  <2>1. PICK e \in given : e = (CHOOSE f \in given : TRUE)
    BY <1>2
  <2>2. e \in moved /\ Target(e, cat) = c /\ mapping[e] # NoToilet
    BY DEF Donors
  <2>3. Compatible(e, c)
    BY <2>2, MovedRow
  <2>4. mapping[e] = mapping[c]
    BY <1>1, <2>2, <2>3 DEF Compatible
  <2> QED BY <1>2, <2>1, <2>4 DEF MappingAfter
<1>3. CASE given = {}
  <2>1. c \notin Stale
    BY <1>1 DEF Stale
  <2> QED BY <1>3, <2>1 DEF MappingAfter
<1> QED BY <1>2, <1>3

(* The toilet of a class that is moved is that of its target. *)
LEMMA MovedKeepToilets ==
    ASSUME NEW cat \in Catalogues, NEW neutral \in Neutrals(cat),
           NEW c \in Resolved(cat, neutral), mapping[c] \in ToiletIds
    PROVE  MappingAfter(Resolved(cat, neutral), cat)[Target(c, cat)] = mapping[c]
<1> DEFINE moved == Resolved(cat, neutral)
           d == Target(c, cat)
           given == Donors(d, moved, cat)
<1>1. c \in given
  BY QueueAssumption DEF Donors
<1>2. \A e \in given : e = c
  BY <1>1, OneDonor
<1>3. (CHOOSE e \in given : TRUE) = c
  BY <1>1, <1>2
<1>4. d \in Classes
  BY MovedRow
<1>5. MappingAfter(moved, cat)[d] = mapping[CHOOSE e \in given : TRUE]
  <2> HIDE DEF d, moved
  <2> QED BY <1>1, <1>4 DEF MappingAfter
<1> QED BY <1>3, <1>5

(* What a reconciliation makes of a snapshot. *)
LEMMA SnapshotAfter ==
    ASSUME RowsOK, NEW cat \in Catalogues, NEW neutral \in Neutrals(cat),
           Reconcile(cat, neutral), NEW r \in RequestIds
    PROVE  /\ assigned'[r] \in StoredSnapshots
           /\ ~(Open(r) /\ assigned[r].classes \cap Resolved(cat, neutral) # {}) =>
                 assigned'[r] = assigned[r]
           /\ Open(r) =>
                 assigned'[r].classes = Rekeyed(assigned[r].classes, Resolved(cat, neutral), cat)
<1> DEFINE moved == Resolved(cat, neutral)
           remapped == {q \in RequestIds : Open(q) /\ assigned[q].classes \cap moved # {}}
<1>1. assigned' = [q \in RequestIds |->
             IF q \in remapped
             THEN [assigned[q] EXCEPT !.classes = Rekeyed(@, moved, cat)] ELSE assigned[q]]
  BY DEF Reconcile
<1>2. assigned[r] \in StoredSnapshots
  BY DEF RowsOK
<1>3. Rekeyed(assigned[r].classes, moved, cat) \subseteq Classes
  <2>1. \A c \in moved : Target(c, cat) \in Classes
    BY MovedRow
  <2>2. assigned[r].classes \subseteq Classes
    BY <1>2 DEF StoredSnapshots
  <2> QED BY <2>1, <2>2 DEF Rekeyed
<1>4. CASE r \in remapped
  <2>1. assigned'[r] = [assigned[r] EXCEPT !.classes = Rekeyed(@, moved, cat)]
    BY <1>1, <1>4
  <2> QED BY <1>2, <1>3, <1>4, <2>1 DEF StoredSnapshots
<1>5. CASE r \notin remapped
  <2>1. assigned'[r] = assigned[r]
    BY <1>1, <1>5
  <2>2. Open(r) => assigned[r].classes \cap moved = {}
    BY <1>5
  <2>3. Open(r) => Rekeyed(assigned[r].classes, moved, cat) = assigned[r].classes
    BY <2>2 DEF Rekeyed
  <2> QED BY <1>2, <2>1, <2>3
<1> QED BY <1>4, <1>5

-----------------------------------------------------------------------------
LEMMA ReconcileKeepsRows ==
    ASSUME RowsOK, NEW cat \in Catalogues, NEW neutral \in Neutrals(cat),
           Reconcile(cat, neutral)
    PROVE  RowsOK'
<1> DEFINE moved == Resolved(cat, neutral)
<1>1. mapping' = MappingAfter(moved, cat) /\ UNCHANGED capacity
  BY DEF Reconcile
<1>2. ASSUME NEW c \in Classes
      PROVE  mapping'[c] = NoRow \/ \E e \in Classes : mapping'[c] = mapping[e]
  <2>1. CASE Donors(c, moved, cat) # {}
    <3>1. PICK e \in Donors(c, moved, cat) :
              e = (CHOOSE f \in Donors(c, moved, cat) : TRUE)
      BY <2>1
    <3>2. e \in Classes
      BY MovedRow DEF Donors
    <3> QED BY <1>1, <2>1, <3>1, <3>2 DEF MappingAfter
  <2>2. CASE Donors(c, moved, cat) = {}
    BY <1>1, <2>2 DEF MappingAfter
  <2> QED BY <2>1, <2>2
<1>3. mapping' = [c \in Classes |-> mapping'[c]]
  BY <1>1 DEF MappingAfter
<1>4. /\ mapping' \in [Classes -> ToiletIds \cup {NoToilet, NoRow}]
      /\ MappingLive'
  <2>1. \A c \in Classes : mapping'[c] \in ToiletIds \cup {NoToilet, NoRow}
    BY <1>2 DEF RowsOK
  <2>2. \A c \in Classes : mapping'[c] \in ToiletIds => capacity[mapping'[c]] > 0
    BY <1>2, QueueAssumption DEF RowsOK, MappingLive, Toilets
  <2> QED BY <1>1, <1>3, <2>1, <2>2 DEF MappingLive, Toilets
<1>5. assigned' \in [RequestIds -> StoredSnapshots]
  <2>1. \A r \in RequestIds : assigned'[r] \in StoredSnapshots
    BY SnapshotAfter
  <2>2. assigned' = [r \in RequestIds |-> assigned'[r]]
    BY DEF Reconcile
  <2> QED BY <2>1, <2>2
<1> QED BY <1>1, <1>4, <1>5 DEF RowsOK

(* The operations of ToiletQueue: only a new request has a new snapshot,    *)
(* and only the configuration changes toilets and mappings.                 *)
LEMMA QueueKeepsRows ==
    ASSUME RowsOK, [Next]_vars
    PROVE  /\ RowsOK'
           /\ \A r \in Waiting : assigned'[r] = assigned[r]
<1>1. \/ UNCHANGED <<configVars, assigned>>
      \/ \E s \in Students, k \in Kinds, a \in Assignments, by \in Proctors \cup Students :
            CreateRequest(by, s, k, a)
      \/ \E t \in ToiletIds : DeleteToilet(t)
      \/ \E t \in ToiletIds, n \in 1..MaxCapacity :
            CreateToilet(t, n) \/ SetToiletCapacity(t, n)
      \/ \E c \in Classes, t \in ToiletIds \cup {NoToilet} : AssignClassToilet(c, t)
  BY DEF Next, RefuseCreate, RefuseOverLimit, CancelRequest, RefuseCancel, identityVars,
         CompleteToiletRequest, ResolveSupportRequest, ResolveAlert, NewWindow, Clock, vars
<1>2. CASE UNCHANGED <<configVars, assigned>>
  BY <1>2 DEF RowsOK, configVars, MappingLive, Toilets
<1>3. ASSUME NEW s \in Students, NEW k \in Kinds, NEW a \in Assignments, NEW by,
             CreateRequest(by, s, k, a)
      PROVE  RowsOK' /\ \A r \in Waiting : assigned'[r] = assigned[r]
  <2>1. PICK r \in RequestIds : NextId(r) /\ assigned' = [assigned EXCEPT ![r] = a]
    BY <1>3 DEF CreateRequest
  <2>2. UNCHANGED configVars
    BY <1>3 DEF CreateRequest
  <2>3. a \in StoredSnapshots
    BY QueueAssumption DEF StoredSnapshots
  <2>4. r \notin Waiting
    BY <2>1 DEF NextId, Waiting, WaitingIn
  <2>5. assigned' \in [RequestIds -> StoredSnapshots]
    BY <2>1, <2>3 DEF RowsOK
  <2>6. \A q \in Waiting : assigned'[q] = assigned[q]
    BY <2>1, <2>4 DEF RowsOK, Waiting, WaitingIn
  <2> QED BY <2>2, <2>5, <2>6 DEF RowsOK, configVars, MappingLive, Toilets
<1>4. ASSUME NEW t \in ToiletIds, DeleteToilet(t)
      PROVE  RowsOK' /\ UNCHANGED assigned
  <2>1. /\ capacity' = [capacity EXCEPT ![t] = 0] /\ mapping' = MappingWithout(t)
        /\ UNCHANGED assigned
    BY <1>4 DEF DeleteToilet, identityVars
  <2> QED BY <2>1, QueueAssumption DEF RowsOK, MappingWithout, MappingLive, Toilets
<1>5. ASSUME NEW t \in ToiletIds, NEW n \in 1..MaxCapacity,
             CreateToilet(t, n) \/ SetToiletCapacity(t, n)
      PROVE  RowsOK' /\ UNCHANGED assigned
  <2>1. capacity' = [capacity EXCEPT ![t] = n] /\ UNCHANGED <<mapping, assigned>>
    BY <1>5 DEF CreateToilet, SetToiletCapacity, identityVars
  <2>2. n \in Nat /\ n > 0
    BY QueueAssumption
  <2> QED BY <2>1, <2>2 DEF RowsOK, MappingLive, Toilets
<1>6. ASSUME NEW c \in Classes, NEW t \in ToiletIds \cup {NoToilet}, AssignClassToilet(c, t)
      PROVE  RowsOK' /\ UNCHANGED assigned
  <2>1. /\ \E row \in {t, NoRow} : mapping' = [mapping EXCEPT ![c] = row]
        /\ t \in Toilets \cup {NoToilet}
        /\ UNCHANGED <<capacity, assigned>>
    BY <1>6 DEF AssignClassToilet, identityVars
  <2> QED BY <2>1, QueueAssumption DEF RowsOK, MappingLive, Toilets
<1> QED BY <1>1, <1>2, <1>3, <1>4, <1>5, <1>6

LEMMA RowsInvariant == LegacySpec => []RowsOK
<1>1. LegacyInit => RowsOK
  <2>1. Assignments \cup {Outage} \subseteq StoredSnapshots
    <3>1. Assignments \subseteq StoredSnapshots
      BY QueueAssumption DEF StoredSnapshots
    <3>2. Outage \in StoredSnapshots
      BY DEF Outage, StoredSnapshots, SnapshotAnomalies
    <3> QED BY <3>1, <3>2
  <2>2. 0..MaxCapacity \subseteq Nat
    BY QueueAssumption
  <2>3. ASSUME LegacyInit
        PROVE  /\ capacity \in [ToiletIds -> Nat]
               /\ mapping \in [Classes -> ToiletIds \cup {NoToilet, NoRow}]
               /\ assigned \in [RequestIds -> StoredSnapshots]
    <3>1. PICK db \in Databases : /\ capacity = db.capacity
                                  /\ mapping = db.mapping
                                  /\ assigned = db.assigned
      BY <2>3 DEF LegacyInit
    <3>2. /\ capacity \in [ToiletIds -> 0..MaxCapacity]
          /\ mapping \in [Classes -> ToiletIds \cup {NoToilet, NoRow}]
          /\ assigned \in [RequestIds -> Assignments \cup {Outage}]
      BY <3>1, KeysAssumption
    <3> HIDE DEF StoredSnapshots
    <3> QED BY <2>1, <2>2, <3>2
  <2>4. LegacyInit => MappingLive
    BY KeysAssumption DEF LegacyInit, MappingLive, Toilets
  <2> QED BY <2>3, <2>4 DEF RowsOK
<1>2. RowsOK /\ [LegacyNext]_vars => RowsOK'
  BY ReconcileKeepsRows, QueueKeepsRows DEF LegacyNext, Reconciles
<1> QED BY <1>1, <1>2, PTL DEF LegacySpec

-----------------------------------------------------------------------------
(* No reconciliation takes a toilet away from the classes of an open        *)
(* request, whatever legacy, live and neutral rows it finds.                *)
THEOREM ReconciliationKeepsToilets == LegacySpec => ToiletsKept
<1> DEFINE Kept == Reconciles =>
              \A r \in RequestIds : Open(r) =>
                  MappedToilets(assigned[r], mapping)
                      \subseteq MappedToilets(assigned'[r], mapping')
<1>1. RowsOK => Kept
  <2> SUFFICES ASSUME RowsOK, NEW cat \in Catalogues, NEW neutral \in Neutrals(cat),
                      Reconcile(cat, neutral), NEW r \in RequestIds, Open(r),
                      NEW c \in assigned[r].classes, mapping[c] \in ToiletIds
               PROVE  \E d \in assigned'[r].classes : mapping'[d] = mapping[c]
    BY DEF Reconciles, MappedToilets
  <2> DEFINE moved == Resolved(cat, neutral)
  <2>1. mapping' = MappingAfter(moved, cat)
    BY DEF Reconcile
  <2>2. assigned'[r].classes = Rekeyed(assigned[r].classes, moved, cat)
    BY SnapshotAfter
  <2>3. c \in Classes
    BY DEF RowsOK, StoredSnapshots
  <2>4. CASE c \in moved
    <3>1. Target(c, cat) \in assigned'[r].classes
      BY <2>2, <2>4 DEF Rekeyed
    <3> QED BY <2>1, <2>4, <3>1, MovedKeepToilets
  <2>5. CASE c \notin moved
    <3>1. c \in assigned'[r].classes
      BY <2>2, <2>5 DEF Rekeyed
    <3> QED BY <2>1, <2>3, <2>5, <3>1, UnmovedKeepToilets
  <2> QED BY <2>4, <2>5
<1>2. RowsOK /\ [LegacyNext]_vars => [Kept]_vars
  BY <1>1
<1> QED BY <1>1, RowsInvariant, PTL DEF LegacySpec, ToiletsKept

(* A waiting request whose classes get other keys is routed by the mapping  *)
(* that comes with them.                                                    *)
THEOREM RoutesAreRekeyed == LegacySpec => RoutesFollowKeys
<1> DEFINE Follow == \A r \in Waiting : assigned'[r] # assigned[r] =>
              /\ MappedToilets(assigned'[r], mapping') \subseteq locks'[r]
              /\ mode'[r] = RouteMode(assigned'[r], mapping')
<1>1. ASSUME RowsOK, NEW cat \in Catalogues, NEW neutral \in Neutrals(cat),
             Reconcile(cat, neutral)
      PROVE  Follow
  <2> SUFFICES ASSUME NEW r \in Waiting, assigned'[r] # assigned[r]
               PROVE  /\ MappedToilets(assigned'[r], mapping') \subseteq locks'[r]
                      /\ mode'[r] = RouteMode(assigned'[r], mapping')
    OBVIOUS
  <2> DEFINE moved == Resolved(cat, neutral)
             rerouted == {q \in RequestIds : Open(q) /\ assigned[q].classes \cap moved # {}}
                            \cap Waiting
  <2>1. r \in rerouted /\ r \in RequestIds
    BY <1>1, SnapshotAfter DEF Waiting, WaitingIn
  <2>2. Reroute(rerouted, assigned', mapping', Toilets, alerts)
    BY <1>1 DEF Reconcile, Flushed
  <2>3. /\ locks'[r] = RouteLocks(assigned'[r], mapping', Toilets)
        /\ mode'[r] = RouteMode(assigned'[r], mapping')
    <3> HIDE DEF rerouted
    <3> QED BY <2>1, <2>2 DEF Reroute
  <2>4. RowsOK' /\ UNCHANGED capacity
    BY <1>1, ReconcileKeepsRows DEF Reconcile
  <2>5. MappedToilets(assigned'[r], mapping') \subseteq Toilets
    <3>1. assigned'[r].classes \subseteq Classes
      BY <2>1, <2>4 DEF RowsOK, StoredSnapshots
    <3> QED BY <2>4, <3>1 DEF RowsOK, MappingLive, MappedToilets, Toilets
  <2> QED BY <2>3, <2>5 DEF RouteLocks
<1>2. RowsOK /\ [LegacyNext]_vars => Follow
  <2>1. ASSUME RowsOK, [Next]_vars PROVE Follow
    BY <2>1, QueueKeepsRows
  <2> QED BY <1>1, <2>1 DEF LegacyNext, Reconciles
<1> QED BY <1>2, RowsInvariant, PTL DEF LegacySpec, RoutesFollowKeys

-----------------------------------------------------------------------------
(* The queue on an upgraded database.  What a reconciliation rewrites stays *)
(* in its domain.                                                          *)
LEMMA AssignedAfter ==
    ASSUME TypeOK, NEW cat \in Catalogues, NEW neutral \in Neutrals(cat),
           Reconcile(cat, neutral)
    PROVE  assigned' \in [RequestIds -> Snapshots]
<1> DEFINE moved == Resolved(cat, neutral)
           remapped == {q \in RequestIds : Open(q) /\ assigned[q].classes \cap moved # {}}
           after(q) == [assigned[q] EXCEPT !.classes = Rekeyed(@, moved, cat)]
<1>1. assigned' = [q \in RequestIds |-> IF q \in remapped THEN after(q) ELSE assigned[q]]
  BY DEF Reconcile
<1>2. moved \subseteq {c \in Generated : OneNamesake(c, cat)}
  BY DEF Resolved, OneNamesake
<1>3. ASSUME NEW q \in remapped
      PROVE  after(q) \in Snapshots
  <2>1. assigned[q].classes # {} /\ assigned[q] \in Snapshots
    BY DEF TypeOK, Snapshots
  <2>2. assigned[q] \in Assignments
    BY <2>1 DEF Snapshots, Outage
  <2>3. moved \in SUBSET {c \in Generated : OneNamesake(c, cat)}
    BY <1>2
  <2> HIDE DEF moved
  <2> QED BY <2>2, <2>3, KeysAssumption DEF Snapshots
<1>4. \A q \in RequestIds : assigned[q] \in Snapshots
  BY DEF TypeOK, Snapshots
<1> HIDE DEF after, remapped
<1> QED BY <1>1, <1>3, <1>4

LEMMA ReconcileType ==
    ASSUME TypeOK, RowsOK', NEW cat \in Catalogues, NEW neutral \in Neutrals(cat),
           Reconcile(cat, neutral)
    PROVE  TypeOK'
<1> DEFINE moved == Resolved(cat, neutral)
           remapped == {q \in RequestIds : Open(q) /\ assigned[q].classes \cap moved # {}}
           rerouted == remapped \cap Waiting
<1>1. /\ UNCHANGED <<capacity, retired, owner, kind, created, spent, now>>
      /\ Reroute(rerouted, assigned', Flushed(moved, cat), Toilets, alerts)
      /\ \/ NoPass(status)
         \/ Schedule(status, activated, BlockedAfter(rerouted))
  BY DEF Reconcile
<1>2. /\ Toilets \in SUBSET ToiletIds
      /\ alerts \in [RequestIds -> SUBSET AlertCodes]
      /\ status \in [RequestIds -> Statuses]
      /\ activated \in [RequestIds -> Times \cup {None}]
      /\ blocked \in [RequestIds -> BOOLEAN]
      /\ now \in Times
  BY DEF Toilets, TypeOK, Statuses
<1>3. assigned' \in [RequestIds -> Snapshots]
  BY AssignedAfter
<1> HIDE DEF rerouted, moved
<1>4. /\ locks' \in [RequestIds -> SUBSET ToiletIds]
      /\ mode' \in [RequestIds ->
                      {"normal", "multiple_classes", "fallback_all", "support"}]
      /\ alerts' \in [RequestIds -> SUBSET AlertCodes]
  BY <1>1, <1>2, <1>3, RerouteType
<1>5. /\ status' \in [RequestIds -> Statuses]
      /\ activated' \in [RequestIds -> Times \cup {None}]
      /\ blocked' \in [RequestIds -> BOOLEAN]
  <2>1. CASE NoPass(status)
    BY <1>2, <2>1 DEF NoPass
  <2>2. CASE Schedule(status, activated, BlockedAfter(rerouted))
    BY <1>2, <2>2, ScheduleType, BlockedAfterType
  <2> QED BY <1>1, <2>1, <2>2
<1> QED BY <1>1, <1>3, <1>4, <1>5 DEF TypeOK, RowsOK, Statuses, Snapshots

(* A reconciliation is a pass over the waiting requests it rerouted, or, if *)
(* there is none, a step that moves nobody.                                *)
LEMMA ReconcileStep ==
    ASSUME Queue, TypeOK', NEW cat \in Catalogues, NEW neutral \in Neutrals(cat),
           Reconcile(cat, neutral)
    PROVE  ScheduledStep \/ QuietStep
<1> DEFINE moved == Resolved(cat, neutral)
           remapped == {q \in RequestIds : Open(q) /\ assigned[q].classes \cap moved # {}}
           S == remapped \cap Waiting
<1>1. /\ UNCHANGED <<capacity, kind, created>>
      /\ Reroute(S, assigned', Flushed(moved, cat), Toilets, alerts)
      /\ IF S = {} THEN NoPass(status) ELSE Schedule(status, activated, BlockedAfter(S))
  BY DEF Reconcile
<1>2. /\ status \in [RequestIds -> Statuses]
      /\ \A u \in ToiletIds : capacity[u] \in Nat /\ capacity'[u] = capacity[u]
      /\ Toilets' = Toilets
      /\ \A r \in RequestIds : status[r] # "none" => created'[r] \in Times
  BY <1>1, QueueAssumption DEF Queue, Rows, TypeOK, Statuses, Toilets
<1>3. /\ ActiveIn(status, kind') = Active
      /\ WaitingIn(status, kind') = Waiting
      /\ Active \in SUBSET RequestIds /\ Waiting \in SUBSET RequestIds
      /\ Active \cap S = {}
  BY <1>1 DEF ActiveIn, Active, WaitingIn, Waiting
<1> HIDE DEF moved, S
<1>4. \A r \in RequestIds : /\ locks'[r] \subseteq Toilets
                            /\ r \notin S => locks'[r] = locks[r] \cap Toilets
  BY <1>1, RerouteLocks
<1>5. \A r \in Active : locks'[r] = locks[r] /\ BlockedAfter(S)[r] = blocked[r]
  BY <1>3, <1>4, BlockedAfterElsewhere DEF Queue, Rows
<1>6. ASSUME NEW u \in ToiletIds
      PROVE  Cardinality(Users(Active, locks', u)) <= capacity'[u]
  BY <1>2, <1>5, FewerUsers DEF Queue, WithinCapacity
<1>7. CASE S # {}
  <2>1. Prepared(status, activated, BlockedAfter(S))
    BY <1>2, <1>3, <1>4, <1>5, <1>6 DEF Prepared
  <2> QED BY <1>1, <1>7, <2>1 DEF ScheduledStep
<1>8. CASE S = {}
  <2>1. UNCHANGED <<status, activated, blocked, capacity, kind, created>>
    BY <1>1, <1>8 DEF NoPass
  <2>2. Waiting' = Waiting /\ Active' = Active
    BY <2>1 DEF Waiting, WaitingIn, Active, ActiveIn
  <2>3. \A r \in Waiting \cup Active : locks'[r] = locks[r]
    BY <1>3, <1>4, <1>8 DEF Queue, Rows
  <2>4. \A t \in ToiletIds : Cardinality(Users(Active, locks, t)) <= capacity'[t]
    BY <1>2 DEF Queue, WithinCapacity
  <2> QED BY <1>2, <2>1, <2>2, <2>3, <2>4 DEF QuietStep, Toilets
<1> QED BY <1>7, <1>8

(* On an upgraded database too every column stays in its domain, through   *)
(* any reloads of the catalogue.                                           *)
THEOREM LegacyTypeCorrect == LegacySpec => []TypeOK
<1>1. LegacyInit => TypeOK
  <2> SUFFICES ASSUME NEW db \in Databases,
                      /\ capacity = db.capacity
                      /\ mapping = db.mapping
                      /\ status = db.status
                      /\ owner = db.owner
                      /\ assigned = db.assigned
                      /\ locks = db.locks
                      /\ mode = db.mode
                      /\ alerts = db.alerts
                      /\ retired = {}
                      /\ kind = [r \in RequestIds |-> "toilet"]
                      /\ now \in Times
                      /\ created = [r \in RequestIds |->
                                      IF db.status[r] = "none" THEN None ELSE now]
                      /\ activated = [r \in RequestIds |->
                                        IF db.status[r] = "active" THEN now ELSE None]
                      /\ blocked = [r \in RequestIds |->
                                      db.status[r] = "pending" /\ db.locks[r] = {}]
                      /\ spent = [s \in Students |-> 0]
               PROVE  TypeOK
    BY DEF LegacyInit
  <2>1. /\ capacity \in [ToiletIds -> 0..MaxCapacity]
        /\ mapping \in [Classes -> ToiletIds \cup {NoToilet, NoRow}]
        /\ status \in [RequestIds -> {"none", "pending", "active", "done", "cancelled"}]
        /\ owner \in [RequestIds -> Students \cup {None}]
        /\ assigned \in [RequestIds -> Assignments \cup {Outage}]
    BY KeysAssumption
  <2>2. locks \in [RequestIds -> SUBSET ToiletIds]
    <3>1. locks \in [RequestIds -> SUBSET {t \in ToiletIds : db.capacity[t] > 0}]
      BY KeysAssumption
    <3> QED BY <3>1
  <2>3. /\ mode \in [RequestIds -> {"normal", "multiple_classes", "fallback_all", "support"}]
        /\ alerts \in [RequestIds -> SUBSET AlertCodes]
    BY KeysAssumption
  <2>4. blocked \in [RequestIds -> BOOLEAN]
    BY Zenon
  <2>5. /\ kind \in [RequestIds -> Kinds]
        /\ created \in [RequestIds -> Times \cup {None}]
        /\ activated \in [RequestIds -> Times \cup {None}]
        /\ spent \in [Students -> 0..(StudentRateLimit + 1)]
        /\ retired \subseteq ToiletIds
        /\ now \in Times
    BY QueueAssumption DEF Kinds
  <2> QED BY <2>1, <2>2, <2>3, <2>4, <2>5 DEF TypeOK
<1>2. TypeOK /\ RowsOK' /\ [LegacyNext]_vars => TypeOK'
  BY TypeStep, ReconcileType DEF LegacyNext, Reconciles
<1> QED BY <1>1, <1>2, RowsInvariant, PTL DEF LegacySpec

(* No student of an upgraded database gets two open requests of a kind: a  *)
(* reconciliation changes what a request names, never whose it is.         *)
THEOREM LegacyOneOpenRequest == LegacySpec => []OneOpenPerStudent
<1>1. LegacyInit => OneOpenPerStudent
  <2> SUFFICES ASSUME NEW db \in Databases, status = db.status, owner = db.owner,
                      NEW q \in RequestIds, NEW r \in RequestIds,
                      Open(q), Open(r), owner[q] = owner[r]
               PROVE  q = r
    BY DEF LegacyInit, OneOpenPerStudent
  <2> QED BY KeysAssumption DEF Open
<1>2. ASSUME TypeOK, OneOpenPerStudent, NEW cat \in Catalogues,
             NEW neutral \in Neutrals(cat), Reconcile(cat, neutral)
      PROVE  OneOpenPerStudent'
  <2>1. /\ UNCHANGED <<owner, kind>>
        /\ \/ status' = status
           \/ \E bl : Schedule(status, activated, bl)
    BY <1>2 DEF Reconcile, NoPass
  <2>2. status \in [RequestIds -> Statuses]
    BY <1>2 DEF TypeOK, Statuses
  <2>3. \A r \in RequestIds : status'[r] \in {"pending", "active"} => Open(r)
    BY <2>1, <2>2, PassOpensNothing DEF Open
  <2> QED BY <1>2, <2>1, <2>3 DEF OneOpenPerStudent, Open
<1>3. TypeOK /\ OneOpenPerStudent /\ [LegacyNext]_vars => OneOpenPerStudent'
  BY <1>2, OneOpenStep DEF LegacyNext, Reconciles
<1> QED BY <1>1, <1>3, LegacyTypeCorrect, PTL DEF LegacySpec

(* The prototype's visits need not fit the capacities, nor have those that *)
(* wait been looked at; where they fit, they do so ever after.             *)
LEMMA LegacyStepKinds ==
    ASSUME Queue, TypeOK', [LegacyNext]_vars
    PROVE  ScheduledStep \/ QuietStep
BY StepKinds, ReconcileStep DEF LegacyNext, Reconciles

LEMMA LegacyQueueInvariant == LegacySpec /\ WithinCapacity => []Queue
<1>1. LegacyInit => Rows
  <2> SUFFICES ASSUME LegacyInit PROVE Rows
    OBVIOUS
  <2>1. \A r \in RequestIds : status[r] # "none" => created[r] \in Times
    BY DEF LegacyInit
  <2>2. \A r \in RequestIds : locks[r] \subseteq Toilets
    BY KeysAssumption DEF LegacyInit, Toilets
  <2> QED BY <2>1, <2>2 DEF Rows, Waiting, WaitingIn, Active, ActiveIn
<1>2. TypeOK /\ TypeOK' /\ Rows /\ WithinCapacity /\ [LegacyNext]_vars
        => (Rows /\ WithinCapacity)'
  BY LegacyStepKinds, ScheduledKeepsRows, QuietKeepsRows DEF Queue
<1> QED BY <1>1, <1>2, LegacyTypeCorrect, PTL DEF LegacySpec, Queue

(* If the visits the upgrade found fit their toilets, no toilet is ever    *)
(* over its capacity: rerouting a request to its new key and admitting the *)
(* queue behind it fills no toilet twice.                                  *)
THEOREM LegacyCapacityRespected == LegacySpec /\ WithinCapacity => []WithinCapacity
<1>1. Queue => WithinCapacity
  BY DEF Queue
<1> QED BY <1>1, LegacyQueueInvariant, PTL

(* Nor does a request whose class got another key overtake an older one    *)
(* that waits for the same toilet.                                         *)
THEOREM LegacySeniorityRespected == LegacySpec /\ WithinCapacity => NoOvertaking
<1>1. Queue /\ Queue' /\ [LegacyNext]_vars
        => [\A r \in Active' \ Active, q \in Waiting' :
              Senior(created', q, r) => ~Compete(locks', q, r)]_vars
  BY LegacyStepKinds, SeniorsFirst DEF Queue
<1> QED BY <1>1, LegacyQueueInvariant, PTL DEF LegacySpec, NoOvertaking

(* A visit keeps its toilets and its start although the reconciliation     *)
(* gives the classes of its snapshot other keys.                           *)
THEOREM LegacyVisitsLeftAlone == LegacySpec /\ WithinCapacity => VisitsUndisturbed
<1>1. Queue /\ Queue' /\ [LegacyNext]_vars
        => [\A r \in Active :
              \/ status'[r] = "done"
              \/ locks[r] \cap (Toilets \ Toilets') # {}
              \/ status'[r] = "active" /\ locks'[r] = locks[r]
                    /\ activated'[r] = activated[r]]_vars
  BY LegacyStepKinds, VisitsStep DEF Queue
<1> QED BY <1>1, LegacyQueueInvariant, PTL DEF LegacySpec, VisitsUndisturbed

(* If nobody admissible waits on the upgraded database, nobody ever does:   *)
(* a route that a reconciliation changes is followed by a pass.            *)
THEOREM LegacyQueueIsScheduled ==
    LegacySpec /\ WithinCapacity /\ NobodyOverlooked => []NobodyOverlooked
<1>1. Queue /\ Queue' /\ NobodyOverlooked /\ [LegacyNext]_vars => NobodyOverlooked'
  BY LegacyStepKinds, ScheduledKeepsRows, QuietKeepsNobodyOverlooked DEF Queue
<1> QED BY <1>1, LegacyQueueInvariant, PTL DEF LegacySpec

(* If the visits the upgrade found hold toilets, every visit ever does. *)
THEOREM LegacyVisitsHavePlaces ==
    LegacySpec /\ WithinCapacity /\ VisitsAreSomewhere => []VisitsAreSomewhere
<1>1. Queue /\ Queue' /\ VisitsAreSomewhere /\ [LegacyNext]_vars => VisitsAreSomewhere'
  BY LegacyStepKinds, VisitsKeepPlaces DEF Queue
<1> QED BY <1>1, LegacyQueueInvariant, PTL DEF LegacySpec

(* To ToiletAccess a reconciliation is an admission, perhaps of nobody. *)
LEMMA ReconcileImplementsAccess ==
    ASSUME Queue, Queue', NEW cat \in Catalogues, NEW neutral \in Neutrals(cat),
           Reconcile(cat, neutral)
    PROVE  Access!Next
<1>1. /\ UNCHANGED <<capacity, kind>>
      /\ NoPass(status) \/ \E bl : Schedule(status, activated, bl)
  BY DEF Reconcile
<1>2. status \in [RequestIds -> Statuses]
  BY DEF Queue, TypeOK, Statuses
<1>3. ASSUME NEW q \in RequestIds, Held[q] # {}
      PROVE  q \in Active' /\ locks'[q] = Held[q]
  <2>1. q \in Active /\ Held[q] = locks[q] /\ status[q] = "active" /\ kind[q] = "toilet"
    BY <1>3 DEF Held, Active, ActiveIn
  <2>2. status'[q] # "done"
    BY <1>1, <1>2, <2>1, PassOver DEF NoPass, Visiting
  <2>3. status'[q] = "active" /\ locks'[q] = locks[q]
    BY <1>1, <2>1, <2>2, ReconcileStep, VisitsStep DEF Queue, Toilets
  <2> QED BY <1>1, <2>1, <2>3 DEF Active, ActiveIn
<1>4. Held \in [RequestIds -> SUBSET ToiletIds]
  BY DEF Held, Queue, TypeOK
<1>5. Access!Enter(Held)
  BY <1>3, <1>4, EnterFrom
<1> QED BY <1>1, <1>5 DEF Access!Admit, Access!Next

(* The queue on an upgraded database takes the steps of ToiletAccess too,   *)
(* from the visits the upgrade found instead of from none.                 *)
THEOREM LegacyStepsImplementAccess ==
    LegacySpec /\ WithinCapacity /\ VisitsAreSomewhere => [][Access!Next]_(Access!vars)
<1>1. Queue /\ Queue' /\ VisitsAreSomewhere /\ [LegacyNext]_vars
        => [Access!Next]_(Access!vars)
  BY StepImplementsAccess, ReconcileImplementsAccess DEF LegacyNext, Reconciles
<1> QED BY <1>1, LegacyQueueInvariant, LegacyVisitsHavePlaces, PTL DEF LegacySpec

-----------------------------------------------------------------------------
(* Routes and alerts on an upgraded database.  A class that gets a toilet   *)
(* from a legacy row had none, and whoever waits for it is on the fallback. *)
LEMMA ReconcileHandles ==
    ASSUME Routed, TypeOK', NEW cat \in Catalogues, NEW neutral \in Neutrals(cat),
           Reconcile(cat, neutral), NEW q \in RequestIds
    PROVE  Handled(q) \/ Stranded(q)
<1> DEFINE moved == Resolved(cat, neutral)
           remapped == {r \in RequestIds : Open(r) /\ assigned[r].classes \cap moved # {}}
           S == remapped \cap Waiting
           bl == IF S = {} THEN blocked ELSE BlockedAfter(S)
<1>1. /\ mapping' = MappingAfter(moved, cat)
      /\ UNCHANGED <<capacity, kind>>
      /\ assigned' = [r \in RequestIds |->
            IF r \in remapped
            THEN [assigned[r] EXCEPT !.classes = Rekeyed(@, moved, cat)] ELSE assigned[r]]
      /\ Reroute(S, assigned', mapping', Toilets, alerts)
      /\ IF S = {} THEN NoPass(status) ELSE Schedule(status, activated, BlockedAfter(S))
  BY DEF Reconcile, Flushed
<1>2. /\ TypeOK /\ Right(q) /\ Toilets' = Toilets
      /\ status \in [RequestIds -> Statuses]
      /\ alerts \in [RequestIds -> SUBSET AlertCodes]
  BY <1>1 DEF Routed, TypeOK, Statuses, Toilets
<1>3. CASE q \in S
  <2>1. status[q] = "pending" /\ kind'[q] = "toilet"
    BY <1>1, <1>3 DEF Waiting, WaitingIn
  <2>2. BlockedAfter(S)[q] = (locks'[q] = {})
    BY <1>3 DEF BlockedAfter
  <2>3. Schedule(status, activated, BlockedAfter(S))
    BY <1>1, <1>3
  <2> HIDE DEF S
  <2> QED BY <1>1, <1>2, <1>3, <2>1, <2>2, <2>3, RouteRebuilt
<1>4. CASE q \in Waiting \ S
  <2>1. /\ assigned'[q] = assigned[q]
        /\ \A c \in assigned[q].classes : c \notin moved
    BY <1>1, <1>4 DEF Waiting, WaitingIn, Open
  <2>2. /\ locks'[q] = locks[q] /\ locks[q] \subseteq Toilets' /\ mode'[q] = mode[q]
        /\ alerts'[q] = alerts[q] /\ kind'[q] = kind[q] /\ bl[q] = blocked[q]
    BY <1>1, <1>2, <1>4 DEF Reroute, BlockedAfter, Right, RouteRight
  <2>3. \/ Schedule(status, activated, bl)
        \/ status' = status /\ UNCHANGED blocked
    BY <1>1 DEF NoPass
  <2>4. Retained(q) \/ Visiting(q)
    <3> HIDE DEF bl
    <3> QED BY <1>2, <2>1, <2>2, <2>3, KeptOrVisiting
  <2>5. assigned[q].classes \subseteq Classes
    BY <1>2, QueueAssumption DEF TypeOK, Outage
  <2>6. CASE \A c \in assigned[q].classes : mapping[c] \in ToiletIds
    <3>1. \A c \in assigned[q].classes : mapping'[c] = mapping[c]
      BY <1>1, <2>1, <2>5, <2>6, UnmovedKeepToilets
    <3> QED BY <2>4, <3>1 DEF Handled, Unmoved
  <2>7. CASE \E c \in assigned[q].classes : mapping[c] \notin ToiletIds
    <3>1. RouteMode(assigned[q], mapping) = "fallback_all"
      BY <2>7 DEF RouteMode, Fallback, Unmapped
    <3>2. mode[q] = "fallback_all"
      BY <1>2, <1>4, <3>1 DEF Right, RouteRight
    <3> QED BY <2>4, <3>2 DEF Handled, Stranded
  <2> QED BY <2>6, <2>7
<1>5. CASE q \notin Waiting
  <2>1. alerts'[q] = alerts[q] /\ kind'[q] = kind[q]
    BY <1>1, <1>5 DEF Reroute
  <2>2. CASE status[q] = "active" /\ kind[q] = "toilet"
    <3>1. status'[q] = "active"
      <4>1. CASE S = {}
        BY <1>1, <2>2, <4>1 DEF NoPass
      <4>2. CASE S # {}
        <5> HIDE DEF S
        <5> QED BY <1>1, <1>2, <2>2, <4>2, PassOver DEF Visiting
      <4> QED BY <4>1, <4>2
    <3> QED BY <2>1, <2>2, <3>1 DEF Handled, Visiting
  <2>3. CASE ~(status[q] = "active" /\ kind[q] = "toilet")
    <3>1. alerts[q] = {}
      BY <1>2, <1>5, <2>3 DEF Right, Open, Waiting, WaitingIn
    <3>2. q \notin Waiting'
      <4>1. CASE S = {}
        BY <1>1, <1>5, <4>1 DEF NoPass, Waiting, WaitingIn
      <4>2. CASE S # {}
        <5>1. Visiting(q) \/ status'[q] = status[q]
          <6> HIDE DEF S
          <6> QED BY <1>1, <1>2, <4>2, PassOver
        <5> QED BY <1>5, <2>1, <5>1 DEF Visiting, Waiting, WaitingIn
      <4> QED BY <4>1, <4>2
    <3> QED BY <2>1, <3>1, <3>2 DEF Handled, Ended
  <2> QED BY <2>2, <2>3
<1> QED BY <1>3, <1>4, <1>5

LEMMA LegacyRoutingInvariant ==
    LegacySpec /\ RouteExact /\ AlertsTruthful => []Routed
<1> DEFINE Inv == \A r \in RequestIds : Right(r)
<1>1. RouteExact /\ AlertsTruthful => Inv
  BY DEF RouteExact, AlertsTruthful, Right, RouteRight, AlertsRight, Waiting, WaitingIn
<1>2. RowsOK => MappingLive
  BY DEF RowsOK
<1>3. /\ TypeOK /\ TypeOK' /\ MappingLive /\ MappingLive' /\ Inv
      /\ [LegacyNext]_vars
      => Inv'
  <2> SUFFICES ASSUME Routed, TypeOK', MappingLive', [LegacyNext]_vars,
                      NEW r \in RequestIds
               PROVE  Right(r)'
    BY DEF Routed
  <2>1. Handled(r) \/ Stranded(r)
    BY StepHandles, ReconcileHandles DEF LegacyNext, Reconciles
  <2> QED BY <2>1, HandledIsRight DEF Routed
<1>4. TypeOK /\ MappingLive /\ Inv => Routed
  BY DEF Routed
<1> QED BY <1>1, <1>2, <1>3, <1>4, LegacyTypeCorrect, RowsInvariant, PTL DEF LegacySpec

(* If the routes the upgrade made are exact (RoutesConverted of             *)
(* SchemaUpgrade), no reconciliation leaves a waiting request on other      *)
(* toilets than those of its classes, except on the fallback.              *)
THEOREM LegacyRoutesExact == LegacySpec /\ RouteExact /\ AlertsTruthful => []RouteExact
<1>1. Routed => RouteExact
  BY DEF Routed, Right, RouteRight, RouteExact, Waiting, WaitingIn
<1> QED BY <1>1, LegacyRoutingInvariant, PTL

(* And no alert is left open that the new keys do not bear out. *)
THEOREM LegacyAlertsTellTheTruth ==
    LegacySpec /\ RouteExact /\ AlertsTruthful => []AlertsTruthful
<1>1. Routed => AlertsTruthful
  BY DEF Routed, Right, AlertsRight, AlertsTruthful, Waiting, WaitingIn
<1> QED BY <1>1, LegacyRoutingInvariant, PTL

-----------------------------------------------------------------------------
(* What a reconciliation does not move stays as it was: the rows that are  *)
(* neither moved nor stale nor the target of a row, and whether an open    *)
(* request names a class that is not moved.                                *)
LEMMA RestOfTheRows ==
    ASSUME RowsOK, NEW cat \in Catalogues, NEW neutral \in Neutrals(cat),
           Reconcile(cat, neutral), NEW c \in Classes
    PROVE  /\ c \in Resolved(cat, neutral) \cap Generated => mapping'[c] = NoRow
           /\ c \in Stale => mapping'[c] = NoRow
           /\ c \notin cat /\ c \notin Resolved(cat, neutral) /\ c \notin Stale =>
                 mapping'[c] = mapping[c]
           /\ c \notin Generated /\ mapping'[c] # mapping[c] =>
                 \E e \in Resolved(cat, neutral) : Target(e, cat) = c
<1> DEFINE moved == Resolved(cat, neutral)
<1>1. mapping' = MappingAfter(moved, cat)
  BY DEF Reconcile
<1>2. \A e \in Donors(c, moved, cat) : e \in moved /\ Target(e, cat) = c
  BY DEF Donors
<1>3. Donors(c, moved, cat) # {} => c \in cat /\ c \notin Generated
  <2> SUFFICES ASSUME NEW e \in moved, Target(e, cat) = c
               PROVE  c \in cat /\ c \notin Generated
    BY <1>2
  <2>1. PICK d : LiveNamesakes(e, cat) = {d}
    BY DEF Resolved
  <2>2. c \in cat
    BY <2>1 DEF Target, LiveNamesakes
  <2> QED BY <2>2, KeysAssumption
<1>4. Stale \subseteq Generated /\ moved \subseteq Generated
  BY DEF Stale, Resolved
<1>5. Donors(c, moved, cat) = {} =>
         mapping'[c] = IF c \in Stale \cup moved THEN NoRow ELSE mapping[c]
  BY <1>1 DEF MappingAfter
<1> HIDE DEF moved
<1>6. c \in moved \/ c \in Stale => mapping'[c] = NoRow
  BY <1>3, <1>4, <1>5
<1>7. c \notin cat /\ c \notin moved /\ c \notin Stale => mapping'[c] = mapping[c]
  BY <1>3, <1>5
<1>8. c \notin Generated /\ mapping'[c] # mapping[c] =>
         \E e \in moved : Target(e, cat) = c
  BY <1>2, <1>4, <1>5
<1> QED BY <1>6, <1>7, <1>8 DEF moved

(* No request is opened or closed, so that a class that keeps its key is   *)
(* named by an open request after the pass if it was before, and a         *)
(* generated key by none that did not name it before.                      *)
LEMMA AnchorsStay ==
    ASSUME RowsOK, NEW cat \in Catalogues, NEW neutral \in Neutrals(cat),
           Reconcile(cat, neutral), NEW c \in Classes
    PROVE  /\ Anchored(c) /\ c \notin Resolved(cat, neutral) => Anchored(c)'
           /\ Anchored(c)' /\ c \in Generated => Anchored(c)
<1> DEFINE moved == Resolved(cat, neutral)
           rerouted == {r \in RequestIds : Open(r) /\ assigned[r].classes \cap moved # {}}
                          \cap Waiting
<1>1. \/ NoPass(status)
      \/ Schedule(status, activated, BlockedAfter(rerouted))
  BY DEF Reconcile
<1>2. \A r \in RequestIds : Open(r)' <=> Open(r)
  <2>1. CASE NoPass(status)
    BY <2>1 DEF NoPass, Open
  <2>2. CASE Schedule(status, activated, BlockedAfter(rerouted))
    <3> HIDE DEF rerouted
    <3>1. PICK A \in SUBSET WaitingIn(status, kind') :
             status' = [r \in RequestIds |-> IF r \in A THEN "active" ELSE status[r]]
      BY <2>2 DEF Schedule
    <3> QED BY <3>1 DEF Open, WaitingIn
  <2> QED BY <1>1, <2>1, <2>2
<1>3. \A r \in RequestIds : Open(r) =>
         assigned'[r].classes = (assigned[r].classes \ moved)
                                   \cup {Target(d, cat) : d \in assigned[r].classes \cap moved}
  BY SnapshotAfter DEF Rekeyed
<1>4. \A d \in moved : Target(d, cat) \notin Generated
  BY MovedRow
<1>5. Anchored(c)' <=> \/ \E r \in RequestIds : Open(r)' /\ c \in assigned'[r].classes
                       \/ \E p \in Proctors : c \in ClassScope[p]
  BY DEF Anchored
<1> HIDE DEF moved
<1>6. Anchored(c) /\ c \notin moved => Anchored(c)'
  BY <1>2, <1>3, <1>5 DEF Anchored
<1>7. Anchored(c)' /\ c \in Generated => Anchored(c)
  BY <1>2, <1>3, <1>4, <1>5 DEF Anchored
<1> QED BY <1>6, <1>7 DEF moved

(* A generated key that is still unmatched after the pass was unmatched     *)
(* before it and not moved, and has the row it had.                         *)
LEMMA StillUnmatched ==
    ASSUME RowsOK, NEW cat \in Catalogues, NEW neutral \in Neutrals(cat),
           Reconcile(cat, neutral), NEW c \in Generated \cap Classes, mapping'[c] # NoRow
    PROVE  /\ c \notin Resolved(cat, neutral) /\ c \notin Stale /\ c \notin cat
           /\ mapping'[c] = mapping[c]
           /\ c \in Unmatched(cat)' => c \in Unmatched(cat)
<1>1. c \notin cat
  BY KeysAssumption
<1>2. c \notin Resolved(cat, neutral) /\ c \notin Stale /\ mapping'[c] = mapping[c]
  BY <1>1, RestOfTheRows
<1>3. Anchored(c)' => Anchored(c)
  BY AnchorsStay
<1> QED BY <1>1, <1>2, <1>3 DEF Unmatched, HasRow

(* A second pass over the same catalogue moves no key, whatever neutral    *)
(* rows it finds, and no generated row is left that nobody needs.          *)
LEMMA PassSettles ==
    ASSUME RowsOK, NEW cat \in Catalogues, NEW neutral \in Neutrals(cat),
           Reconcile(cat, neutral)
    PROVE  Resolved(cat, neutral)' = {} /\ Stale' = {}
<1> DEFINE moved == Resolved(cat, neutral)
<1>1. ASSUME NEW c \in Resolved(cat, neutral)'
      PROVE  FALSE
  <2>1. /\ c \in Unmatched(cat)' /\ c \in Generated /\ c \in Classes
        /\ \A d \in Unmatched(cat)' : SameName(c, d, neutral) => d = c
        /\ \E d \in Classes : LiveNamesakes(c, cat) = {d} /\ Compatible(c, d)'
    BY <1>1, KeysAssumption DEF Resolved, SameName, LiveNamesakes
  <2>2. mapping'[c] # NoRow
    BY <2>1 DEF Unmatched, HasRow
  <2>3. /\ c \notin moved /\ c \in Unmatched(cat) /\ mapping'[c] = mapping[c]
    BY <2>1, <2>2, StillUnmatched
  <2>4. c \notin neutral
    BY <2>1 DEF Neutrals
  <2>5. \A e \in moved : NameOf[e] # NameOf[c]
    <3> SUFFICES ASSUME NEW e \in moved, NameOf[e] = NameOf[c] PROVE FALSE
      OBVIOUS
    <3>1. \A f \in Unmatched(cat) : SameName(e, f, neutral) => f = e
      BY DEF Resolved
    <3> QED BY <2>3, <2>4, <3>1 DEF SameName
  <2>6. PICK d \in Classes : LiveNamesakes(c, cat) = {d} /\ Compatible(c, d)'
    BY <2>1
  <2>7. d \in cat /\ d \notin Generated /\ NameOf[d] = NameOf[c]
    BY <2>6, KeysAssumption DEF LiveNamesakes
  <2>8. mapping'[d] = mapping[d]
    BY <2>5, <2>7, RestOfTheRows, MovedRow
  <2>9. Compatible(c, d)
    BY <2>3, <2>6, <2>8 DEF Compatible
  <2>10. PICK e \in Unmatched(cat) : SameName(c, e, neutral) /\ e # c
    BY <2>1, <2>3, <2>6, <2>9 DEF Resolved
  <2>11. e \in Classes /\ e \notin cat /\ NameOf[e] = NameOf[c] /\ mapping[e] # NoRow
         /\ (mapping[e] # NoToilet \/ Anchored(e))
    BY <2>10 DEF SameName, Unmatched, HasRow
  <2>12. e \notin moved /\ e \notin Stale
    BY <2>5, <2>11 DEF Stale
  <2>13. mapping'[e] = mapping[e] /\ (Anchored(e) => Anchored(e)')
    BY <2>11, <2>12, RestOfTheRows, AnchorsStay
  <2>14. e \in Unmatched(cat)'
    BY <2>11, <2>13 DEF Unmatched, HasRow
  <2> QED BY <2>1, <2>10, <2>14
<1>2. ASSUME NEW c \in Stale'
      PROVE  FALSE
  <2>1. c \in Generated /\ c \in Classes /\ mapping'[c] = NoToilet /\ ~Anchored(c)'
    BY <1>2, KeysAssumption DEF Stale
  <2>2. NoToilet # NoRow
    BY KeysAssumption
  <2>3. c \notin moved /\ c \notin Stale /\ mapping'[c] = mapping[c]
    BY <2>1, <2>2, StillUnmatched
  <2>4. Anchored(c)
    BY <2>1, <2>3 DEF Stale
  <2> QED BY <2>1, <2>3, <2>4, AnchorsStay
<1> QED BY <1>1, <1>2

(* One reconciliation is enough: what it leaves, the next start over the   *)
(* same catalogue leaves too.                                              *)
THEOREM OnePassIsEnough == LegacySpec => Settled
<1> DEFINE Enough == \A cat \in Catalogues : \A neutral \in Neutrals(cat) :
              Reconcile(cat, neutral) => Resolved(cat, neutral)' = {} /\ Stale' = {}
<1>1. RowsOK => Enough
  BY PassSettles
<1>2. RowsOK /\ [LegacyNext]_vars => [Enough]_vars
  BY <1>1
<1> QED BY <1>2, RowsInvariant, PTL DEF LegacySpec, Settled

=============================================================================
