------------------------------ MODULE Routing ------------------------------
(***************************************************************************)
(* What _rebuild_route of MutationService (src/service.py) makes of the    *)
(* snapshot of a student's assignment: the toilets required, the routing   *)
(* mode and the alerts.  A snapshot has the classes of the student's       *)
(* computers, the anomalies known of it, and whether the lookup failed.    *)
(* ToiletQueue routes every waiting request by these operators, Assignment *)
(* the answers of Olimp-control.                                           *)
(***************************************************************************)
EXTENDS Naturals

CONSTANT ToiletIds   \* the ids the toilets table can hand out

SnapshotAnomalies ==
    {"computer_without_class", "student_not_found", "no_computers",
     "assignment_malformed", "assignment_lookup_failed"}

ROUTING_ALERT_CODES ==
    SnapshotAnomalies \cup
        {"multiple_classes", "no_class", "class_without_toilet", "no_toilets"}

AlertCodes == ROUTING_ALERT_CODES \cup {"active_toilet_deleted"}

(* The snapshot stored when Olimp-control could not be asked. *)
Outage == [failed |-> TRUE, classes |-> {},
           anomalies |-> {"assignment_lookup_failed"}]

-----------------------------------------------------------------------------
(* The route of a pending toilet request with snapshot a under a class     *)
(* mapping m, when `live' are the rows of toilets.                         *)

LookupFailed(a) == a.failed \/ "assignment_lookup_failed" \in a.anomalies
Unmapped(a, m) == {c \in a.classes : m[c] \notin ToiletIds}
Fallback(a, m) == LookupFailed(a) \/ a.classes = {} \/ Unmapped(a, m) # {}
MappedToilets(a, m) == {m[c] : c \in a.classes} \cap ToiletIds

RouteLocks(a, m, live) ==
    IF Fallback(a, m) THEN live ELSE MappedToilets(a, m) \cap live

RouteMode(a, m) ==
    IF Fallback(a, m) THEN "fallback_all"
    ELSE IF \E c, d \in a.classes : c # d THEN "multiple_classes"
    ELSE "normal"

DesiredAlerts(a, m, live) ==
    (a.anomalies \ {"assignment_lookup_failed"})
      \cup {code \in {"multiple_classes"} : \E c, d \in a.classes : c # d}
      \cup (IF LookupFailed(a) THEN {"assignment_lookup_failed"}
            ELSE IF a.classes = {} THEN {"no_class"}
            ELSE {code \in {"class_without_toilet"} : Unmapped(a, m) # {}})
      \cup {code \in {"no_toilets"} : RouteLocks(a, m, live) = {}}

=============================================================================
