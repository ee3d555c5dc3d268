---------------------------- MODULE ToiletQueue ----------------------------
(***************************************************************************)
(* The request queue of the toilet service: MutationService in             *)
(* src/service.py, the part that opens, routes, admits, demotes and closes *)
(* requests and the configuration operations that reroute them.            *)
(*                                                                         *)
(* MutationService._run executes every operation under a process-wide lock *)
(* and in one BEGIN IMMEDIATE transaction, so each action below is one     *)
(* whole operation: guards in the order of the code's checks, the state it *)
(* leaves, and the scheduling pass the code ends it with.  A rejection the *)
(* code raises before it changes anything is an action that is disabled; a *)
(* rejection it commits (_CommitRejection) is a Refuse action.             *)
(***************************************************************************)
EXTENDS Scheduler

CONSTANTS
    Students,         \* users.id
    Classes,          \* class public ids
    SupportKinds,     \* settings.general_request_types
    Assignments,      \* outcomes of _normalize_assignment
    Proctors,         \* operators with the proctor role
    GlobalProctors,   \* those with all_classes
    ClassScope,       \* Proctors -> the classes in the operator's scope
    StudentRateLimit, \* settings.student_rate_limit, 0 turns it off
    Times,            \* readings of the wall clock
    MaxCapacity,      \* BOUND: largest toilets.capacity considered
    DismissedCodes,   \* BOUND: alert codes staff resolve by hand
    NoToilet,         \* a classes row whose toilet_id is NULL
    NoRow,            \* no classes row
    None              \* a column that is NULL

INSTANCE Routing

ASSUME QueueAssumption ==
    /\ Assignments \subseteq [failed : BOOLEAN, classes : SUBSET Classes,
                              anomalies : SUBSET SnapshotAnomalies]
    /\ \A a \in Assignments : "assignment_malformed" \in a.anomalies => a.failed
    /\ GlobalProctors \subseteq Proctors
    /\ ClassScope \in [Proctors -> SUBSET Classes]
    /\ StudentRateLimit \in Nat
    /\ MaxCapacity \in Nat
    /\ DismissedCodes \subseteq AlertCodes
    /\ Times \subseteq Nat /\ Times # {}
    /\ "toilet" \notin SupportKinds
    /\ NoToilet \notin ToiletIds /\ NoRow \notin ToiletIds
    /\ None \notin Students \cup Times

VARIABLES
    capacity,  \* toilets: capacity by id, 0 where there is no such row
    retired,   \* toilets: ids of deleted rows, which AUTOINCREMENT never reuses
    mapping,   \* classes: toilet_id by class public id
    status, owner, kind, assigned, created, activated,   \* requests
    mode, blocked,                    \* requests: routing_mode, blocked_reason
    locks,     \* request_toilet_locks: the toilets each request requires
    alerts,    \* operational_alerts: codes with resolved_at NULL
    spent,     \* rate_limit_buckets: count of each student's current window
    now        \* self.clock()

configVars == <<capacity, retired, mapping>>
routeVars == <<mode, locks, alerts>>
progressVars == <<status, activated, blocked>>
identityVars == <<owner, kind, assigned, created>>
vars == <<configVars, routeVars, progressVars, identityVars, spent, now>>

-----------------------------------------------------------------------------
(* Reading the state. *)

Kinds == {"toilet"} \cup SupportKinds
Toilets == {t \in ToiletIds : capacity[t] > 0}
Open(r) == status[r] \in {"pending", "active"}
WaitingIn(st, kd) == {r \in RequestIds : st[r] = "pending" /\ kd[r] = "toilet"}
ActiveIn(st, kd) == {r \in RequestIds : st[r] = "active" /\ kd[r] = "toilet"}
Waiting == WaitingIn(status, kind)
Active == ActiveIn(status, kind)

(* _require_proctor_scope: a request without classes is everybody's. *)
InScope(p, classes) ==
    \/ p \in GlobalProctors
    \/ classes = {}
    \/ classes \cap ClassScope[p] # {}

(* OperationalAlert.global_scope as _rebuild_route and delete_toilet set it. *)
GlobalAlert(code, classes) ==
    /\ code # "multiple_classes"
    /\ code = "computer_without_class" => classes = {}

-----------------------------------------------------------------------------
(* The alerts open after a rebuild: _resolve_routing_alerts closes the      *)
(* routing alerts that are not desired and _ensure_alert opens the rest.   *)
\* Mutant: routing alerts are never closed.
OpenAfterMut(open, desired) == open \cup desired
OpenAfter(open, desired) == (open \ ROUTING_ALERT_CODES) \cup desired

(* _rebuild_route of every request of S; the others keep their route, less *)
(* the lock rows a deleted toilet takes with it (ON DELETE CASCADE).       *)
(* `raised' are the alerts already open when it runs.                      *)
Reroute(S, as, m, live, raised) ==
    /\ locks' = [r \in RequestIds |->
          IF r \in S THEN RouteLocks(as[r], m, live)
          ELSE locks[r] \cap live]
    /\ mode' = [r \in RequestIds |->
          IF r \in S THEN RouteMode(as[r], m) ELSE mode[r]]
    /\ alerts' = [r \in RequestIds |->
          IF r \in S THEN OpenAfter(raised[r], DesiredAlerts(as[r], m, live))
          ELSE raised[r]]

(* blocked_reason as _rebuild_route leaves it. *)
BlockedAfter(S) ==
    [r \in RequestIds |-> IF r \in S THEN locks'[r] = {} ELSE blocked[r]]

(* _schedule: the pass that ends an operation, over the statuses, times and *)
(* blocked reasons the operation left and the routes and capacities of the  *)
(* new state.                                                               *)
Schedule(st, act, bl) ==
    LET waiting == WaitingIn(st, kind')
        holders == ActiveIn(st, kind')
    IN \E A \in SUBSET waiting :
        /\ IsSchedule(A, waiting, holders, locks', capacity', created')
        /\ status' = [r \in RequestIds |-> IF r \in A THEN "active" ELSE st[r]]
        /\ activated' = [r \in RequestIds |-> IF r \in A THEN now ELSE act[r]]
        /\ blocked' = [r \in RequestIds |->
              r \notin A /\ (bl[r] \/ (r \in waiting /\ locks'[r] = {}))]

NoPass(st) == status' = st /\ UNCHANGED <<activated, blocked>>

-----------------------------------------------------------------------------
(* _consume_rate_limit on the student's bucket. *)

Budgeted == StudentRateLimit > 0
WithinBudget(s) == Budgeted => spent[s] < StudentRateLimit

Spend(s) ==
    /\ WithinBudget(s)
    /\ spent' = IF Budgeted THEN [spent EXCEPT ![s] = @ + 1] ELSE spent

(* The bucket is full: the count stops one past the limit and is kept. *)
\* Mutant: the count goes on.
CountRefusalMut(n) == n + 1
CountRefusal(n) == IF n < StudentRateLimit + 1 THEN n + 1 ELSE n

RefuseOverLimit(s) ==
    /\ ~WithinBudget(s)
    /\ spent' = [spent EXCEPT ![s] = CountRefusal(@)]
    /\ UNCHANGED <<configVars, routeVars, progressVars, identityVars, now>>

-----------------------------------------------------------------------------
(* Requests. *)

\* Mutant: an active request does not count.
HasOpenMut(s, k) ==
    \E r \in RequestIds : status[r] = "pending" /\ owner[r] = s /\ kind[r] = k
HasOpen(s, k) == \E r \in RequestIds : Open(r) /\ owner[r] = s /\ kind[r] = k

(* The id the requests table hands out next. *)
NextId(r) ==
    /\ status[r] = "none"
    /\ \A q \in RequestIds : q < r => status[q] # "none"

MayCreate(by, a) == by \in Proctors => InScope(by, a.classes)

CreateRequest(by, s, k, a) ==
    /\ MayCreate(by, a)
    /\ Spend(s)
    /\ ~HasOpen(s, k)
    /\ \E r \in RequestIds :
        /\ NextId(r)
        /\ owner' = [owner EXCEPT ![r] = s]
        /\ kind' = [kind EXCEPT ![r] = k]
        /\ assigned' = [assigned EXCEPT ![r] = a]
        /\ created' = [created EXCEPT ![r] = now]
        /\ LET st == [status EXCEPT ![r] = "pending"]
           IN \/ /\ k = "toilet"
                 /\ UNCHANGED configVars
                 /\ Reroute({r}, assigned', mapping, Toilets, alerts)
                 /\ Schedule(st, activated, BlockedAfter({r}))
              \/ /\ k # "toilet"
                 /\ mode' = [mode EXCEPT ![r] = "support"]
                 /\ NoPass(st)
                 /\ UNCHANGED <<configVars, locks, alerts>>
    /\ UNCHANGED now

(* "user already has an open request of this type", the attempt still spent. *)
RefuseCreate(by, s, k, a) ==
    /\ Budgeted
    /\ MayCreate(by, a)
    /\ HasOpen(s, k)
    /\ Spend(s)
    /\ UNCHANGED <<configVars, routeVars, progressVars, identityVars, now>>

MayCancel(s, r) ==
    /\ status[r] # "none" /\ owner[r] = s
    /\ Open(r)
    /\ ~(kind[r] = "toilet" /\ status[r] = "active")

CancelRequest(s, r) ==
    /\ Spend(s)
    /\ MayCancel(s, r)
    /\ alerts' = [alerts EXCEPT ![r] = {}]
    /\ UNCHANGED <<configVars, mode, locks, identityVars, now>>
    /\ LET st == [status EXCEPT ![r] = "cancelled"]
       IN IF kind[r] = "toilet" THEN Schedule(st, activated, blocked)
          ELSE NoPass(st)

RefuseCancel(s, r) ==
    /\ Budgeted
    /\ ~MayCancel(s, r)
    /\ Spend(s)
    /\ UNCHANGED <<configVars, routeVars, progressVars, identityVars, now>>

\* Mutant: a return does not end with a scheduling pass.
CompleteToiletRequestMut(p, r) ==
    /\ kind[r] = "toilet"
    /\ InScope(p, assigned[r].classes)
    /\ status[r] = "active"
    /\ activated[r] <= now
    /\ alerts' = [alerts EXCEPT ![r] = {}]
    /\ UNCHANGED <<configVars, mode, locks, identityVars, spent, now>>
    /\ NoPass([status EXCEPT ![r] = "done"])

(* Any completed_at between activation and now is accepted, so a return is *)
(* possible unless the clock reads earlier than the activation.            *)
CompleteToiletRequest(p, r) ==
    /\ kind[r] = "toilet"
    /\ InScope(p, assigned[r].classes)
    /\ status[r] = "active"
    /\ activated[r] <= now
    /\ alerts' = [alerts EXCEPT ![r] = {}]
    /\ UNCHANGED <<configVars, mode, locks, identityVars, spent, now>>
    /\ Schedule([status EXCEPT ![r] = "done"], activated, blocked)

ResolveSupportRequest(p, r) ==
    /\ kind[r] # "toilet"
    /\ status[r] = "pending"
    /\ InScope(p, assigned[r].classes)
    /\ NoPass([status EXCEPT ![r] = "done"])
    /\ UNCHANGED <<configVars, routeVars, identityVars, spent, now>>

ResolveAlert(p, r, code) ==
    /\ code \in alerts[r]
    /\ InScope(p, assigned[r].classes) \/ GlobalAlert(code, assigned[r].classes)
    /\ alerts' = [alerts EXCEPT ![r] = @ \ {code}]
    /\ UNCHANGED <<configVars, mode, locks, progressVars, identityVars, spent, now>>

-----------------------------------------------------------------------------
(* Configuration. *)

(* "Per contract, creation does not rewrite or schedule existing rows." *)
CreateToilet(t, n) ==
    /\ t \notin Toilets \cup retired
    /\ capacity' = [capacity EXCEPT ![t] = n]
    /\ UNCHANGED <<retired, mapping, routeVars, progressVars, identityVars,
                   spent, now>>

\* Mutant: the active use is not looked at.
MayResizeMut(t, n) == t \in Toilets
MayResize(t, n) == t \in Toilets /\ n >= Cardinality(Users(Active, locks, t))

\* Mutant: off by one, growth by a single place does not count.
GrowsMut(t, n) == n > capacity[t] + 1
Grows(t, n) == n > capacity[t]

SetToiletCapacity(t, n) ==
    /\ MayResize(t, n)
    /\ capacity' = [capacity EXCEPT ![t] = n]
    /\ UNCHANGED <<retired, mapping, routeVars, identityVars, spent, now>>
    /\ IF Grows(t, n) THEN Schedule(status, activated, blocked)
       ELSE UNCHANGED progressVars

(* A row without a toilet is kept as an anchor while an open request or an *)
(* operator's scope names the class.                                       *)
Anchored(c) ==
    \/ \E r \in RequestIds : Open(r) /\ c \in assigned[r].classes
    \/ \E p \in Proctors : c \in ClassScope[p]

(* The pending toilet requests whose snapshot names class c. *)
\* Mutant: those of more than one class are forgotten.
PendingOfMut(c) == {r \in Waiting : assigned[r].classes = {c}}
\* Mutant: visits in progress are rerouted as well.
PendingOfMutActive(c) == {r \in Waiting \cup Active : c \in assigned[r].classes}
PendingOf(c) == {r \in Waiting : c \in assigned[r].classes}

(* The mapping _rebuild_route reads.  The session does not autoflush, so a *)
(* row this operation adds is not yet there for the query; the new value   *)
(* of a row that was there is.                                             *)
Visible(c) == IF mapping[c] = NoRow THEN mapping ELSE mapping'

AssignClassToilet(c, t) ==
    /\ t \in Toilets \cup {NoToilet}
    /\ LET rerouted == PendingOf(c)
           row == IF t = NoToilet /\ (mapping[c] = NoRow \/ ~Anchored(c))
                  THEN NoRow ELSE t
       IN /\ mapping' = [mapping EXCEPT ![c] = row]
          /\ UNCHANGED <<capacity, retired, identityVars, spent, now>>
          /\ Reroute(rerouted, assigned, Visible(c), Toilets, alerts)
          /\ Schedule(status, activated, BlockedAfter(rerouted))

MappingWithout(t) == [c \in Classes |-> IF mapping[c] = t THEN NoRow ELSE mapping[c]]

\* Mutant: active visits stay active.
DemotedByMut(t) == {}
DemotedBy(t) == Users(Active, locks, t)

DeleteToilet(t) ==
    /\ t \in Toilets
    /\ LET demoted == DemotedBy(t)
           affected == Users(Waiting, locks, t) \cup demoted
       IN /\ capacity' = [capacity EXCEPT ![t] = 0]
          /\ retired' = retired \cup {t}
          /\ mapping' = MappingWithout(t)
          /\ UNCHANGED <<identityVars, spent, now>>
          /\ Reroute(affected, assigned, mapping', Toilets \ {t},
                [r \in RequestIds |-> IF r \in demoted
                     THEN alerts[r] \cup {"active_toilet_deleted"} ELSE alerts[r]])
          /\ Schedule([r \in RequestIds |-> IF r \in demoted THEN "pending" ELSE status[r]],
                      [r \in RequestIds |-> IF r \in demoted THEN None ELSE activated[r]],
                      BlockedAfter(affected))

-----------------------------------------------------------------------------
(* The world: a new rate-limit window begins, and the wall clock, which is *)
(* not monotone, reads something else.                                     *)

NewWindow ==
    /\ Budgeted
    /\ spent' = [s \in Students |-> 0]
    /\ UNCHANGED <<configVars, routeVars, progressVars, identityVars, now>>

Clock ==
    /\ now' \in Times \ {now}
    /\ UNCHANGED <<configVars, routeVars, progressVars, identityVars, spent>>

-----------------------------------------------------------------------------
Init ==
    /\ capacity = [t \in ToiletIds |-> 0]
    /\ retired = {}
    /\ mapping = [c \in Classes |-> NoRow]
    /\ status = [r \in RequestIds |-> "none"]
    /\ owner = [r \in RequestIds |-> None]
    /\ kind = [r \in RequestIds |-> "toilet"]
    /\ assigned = [r \in RequestIds |-> Outage]
    /\ now \in Times
    /\ created = [r \in RequestIds |-> None]
    /\ activated = [r \in RequestIds |-> None]
    /\ mode = [r \in RequestIds |-> "normal"]
    /\ blocked = [r \in RequestIds |-> FALSE]
    /\ locks = [r \in RequestIds |-> {}]
    /\ alerts = [r \in RequestIds |-> {}]
    /\ spent = [s \in Students |-> 0]

Next ==
    \/ \E s \in Students, k \in Kinds, a \in Assignments :
          \E by \in Proctors \cup {s} :
             CreateRequest(by, s, k, a) \/ RefuseCreate(by, s, k, a)
    \/ \E s \in Students :
          \/ RefuseOverLimit(s)
          \/ \E r \in RequestIds : CancelRequest(s, r) \/ RefuseCancel(s, r)
    \/ \E p \in Proctors, r \in RequestIds :
          \/ CompleteToiletRequest(p, r)
          \/ ResolveSupportRequest(p, r)
          \/ \E code \in DismissedCodes : ResolveAlert(p, r, code)
    \/ \E t \in ToiletIds :
          \/ DeleteToilet(t)
          \/ \E n \in 1..MaxCapacity : CreateToilet(t, n) \/ SetToiletCapacity(t, n)
    \/ \E c \in Classes, t \in ToiletIds \cup {NoToilet} : AssignClassToilet(c, t)
    \/ NewWindow
    \/ Clock

Spec == Init /\ [][Next]_vars

(* Somebody whose scope covers every class marks each visitor as returned  *)
(* sooner or later: the physical world the queue serves.                   *)
Returns(r) == \E p \in GlobalProctors : CompleteToiletRequest(p, r)
FairSpec == Spec /\ \A r \in RequestIds : WF_vars(Returns(r))

-----------------------------------------------------------------------------
(* What is promised.                                                       *)

(* Every column holds a value of its domain, and a row that was never      *)
(* inserted holds nothing.                                                 *)
TypeOK ==
    /\ capacity \in [ToiletIds -> 0..MaxCapacity]
    /\ retired \subseteq ToiletIds
    /\ mapping \in [Classes -> ToiletIds \cup {NoToilet, NoRow}]
    /\ status \in [RequestIds -> {"none", "pending", "active", "done", "cancelled"}]
    /\ owner \in [RequestIds -> Students \cup {None}]
    /\ kind \in [RequestIds -> Kinds]
    /\ assigned \in [RequestIds -> Assignments \cup {Outage}]
    /\ created \in [RequestIds -> Times \cup {None}]
    /\ activated \in [RequestIds -> Times \cup {None}]
    /\ mode \in [RequestIds -> {"normal", "multiple_classes", "fallback_all", "support"}]
    /\ blocked \in [RequestIds -> BOOLEAN]
    /\ locks \in [RequestIds -> SUBSET ToiletIds]
    /\ alerts \in [RequestIds -> SUBSET AlertCodes]
    /\ spent \in [Students -> 0..(StudentRateLimit + 1)]
    /\ now \in Times

(* A student never has two open requests of one kind: create_request's     *)
(* check and the partial unique index behind it, across the demotion that  *)
(* makes an active request pending again.                                  *)
OneOpenPerStudent ==
    \A q, r \in RequestIds :
        Open(q) /\ Open(r) /\ owner[q] = owner[r] /\ kind[q] = kind[r] => q = r

(* No toilet ever holds more active visits than its capacity, whatever mix *)
(* of admissions, capacity changes, reroutings and deletions came before.  *)
WithinCapacity ==
    \A t \in ToiletIds : Cardinality(Users(Active, locks, t)) <= capacity[t]

(* Nothing is left to admit between operations: another pass of _schedule  *)
(* would activate nobody.  An operation that frees a place or shortens a   *)
(* route and forgets to schedule leaves somebody standing before a free    *)
(* toilet.                                                                 *)
NobodyOverlooked ==
    IsSchedule({}, Waiting, Active, locks, capacity, created)

(* A class points at a toilet only while that toilet exists. *)
MappingLive == \A c \in Classes : mapping[c] \in ToiletIds => mapping[c] \in Toilets

(* The route of a waiting request is safe under the mapping of this        *)
(* moment, not only of the one it was computed in: it requires existing    *)
(* toilets, among them every toilet its classes use now, and unless it is  *)
(* a fallback exactly those.                                               *)
RouteCovers ==
    \A r \in Waiting :
        /\ locks[r] \subseteq Toilets
        /\ MappedToilets(assigned[r], mapping) \subseteq locks[r]
        /\ mode[r] # "fallback_all" =>
              /\ mode[r] = RouteMode(assigned[r], mapping)
              /\ locks[r] = MappedToilets(assigned[r], mapping)
        /\ blocked[r] <=> locks[r] = {}

(* "Class-to-toilet changes rebuild pending routes" (MutationService): a   *)
(* waiting request is routed by the fallback only while its lookup failed  *)
(* or one of its classes has no toilet.                                    *)
FallbackJustified ==
    \A r \in Waiting :
        mode[r] = "fallback_all" => Fallback(assigned[r], mapping)

(* An active visit holds at least one toilet and only toilets that exist:  *)
(* no deletion leaves a visitor without the place they were sent to.       *)
VisitsAreSomewhere ==
    \A r \in Active : locks[r] # {} /\ locks[r] \subseteq Toilets /\ ~blocked[r]

(* The open alerts tell the truth: none on a closed or support request,    *)
(* and on a waiting one no routing problem that the present mapping does   *)
(* not have; the two that a later configuration change can outdate are     *)
(* backed by the route the request still has.                              *)
AlertsTruthful ==
    \A r \in RequestIds :
        /\ ~Open(r) \/ kind[r] # "toilet" => alerts[r] = {}
        /\ r \in Waiting =>
              /\ alerts[r] \ {"active_toilet_deleted", "no_toilets",
                              "class_without_toilet"}
                    \subseteq DesiredAlerts(assigned[r], mapping, Toilets)
              /\ "no_toilets" \in alerts[r] => locks[r] = {}
              /\ "class_without_toilet" \in alerts[r] =>
                    mode[r] = "fallback_all" /\ ~LookupFailed(assigned[r])

(* Nobody is passed by a younger request that competes with them: when a   *)
(* step admits r, every older request still waiting needs other toilets.   *)
(* Routes may have changed in the same step, and a demoted visit waits     *)
(* with its original seniority.                                            *)
NoOvertaking ==
    [][\A r \in Active' \ Active, q \in Waiting' :
          Senior(created', q, r) => ~Compete(locks', q, r)]_vars

(* A visit in progress is left alone: it ends by being returned, or loses  *)
(* its place because a toilet it held was deleted, and until then its      *)
(* toilets do not change ("Toilet deletion is the sole configuration       *)
(* operation that may demote an active request").                          *)
VisitsUndisturbed ==
    [][\A r \in Active :
          \/ status'[r] = "done"
          \/ locks[r] \cap (Toilets \ Toilets') # {}
          \/ status'[r] = "active" /\ locks'[r] = locks[r]
                /\ activated'[r] = activated[r]]_vars

(* The queue implements ToiletAccess: a visitor occupies the toilets of    *)
(* their active request.                                                   *)
Held == [r \in RequestIds |-> IF r \in Active THEN locks[r] ELSE {}]

Access == INSTANCE ToiletAccess
              WITH Visitors <- RequestIds, held <- Held, room <- capacity

ImplementsAccess == Access!Spec

(* A request that has toilets to wait for is admitted, or it stops waiting *)
(* for them.                                                               *)
Served ==
    \A r \in RequestIds :
        (r \in Waiting /\ locks[r] # {}) ~> (r \notin Waiting \/ locks[r] = {})

=============================================================================
