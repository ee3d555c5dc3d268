--------------------------- MODULE MCLegacyKeys ---------------------------
(* Instances of LegacyKeys: class 7a of the prototype, and two live classes *)
(* of that name, one of which an earlier version may have mirrored.        *)
EXTENDS LegacyKeys, TLC

CONSTANTS s1, s2, t1, t2, old, new, twin, p2

MCClasses == {old, new, twin}
MCGenerated == {old}
MCNameOf == [c \in MCClasses |-> "7a"]
MCCatalogues == {{}, {new}, {new, twin}}
MCRequests == 1..2
MCTimes == {0}
NoCodes == {}
NoScope == [p \in {p2} |-> {}]

Known(C) == [failed |-> FALSE, classes |-> C, anomalies |-> {}]
MCAssignments == {Known(C) : C \in {{old}, {new}, {old, new}}}

(* Rows, and the request that was open when the prototype was stopped. *)
Rows ==
    {m \in [MCClasses -> {t1, t2, NoToilet, NoRow}] :
        /\ m[old] # NoRow
        /\ m[twin] # NoRow => m[twin] = m[old]}

MCDatabases ==
    {[capacity |-> [t \in {t1, t2} |-> 1], mapping |-> row,
      status |-> [r \in MCRequests |-> IF r = 1 THEN st ELSE "none"],
      owner |-> [r \in MCRequests |-> IF r = 1 /\ st # "none" THEN s ELSE None],
      assigned |-> [r \in MCRequests |-> IF r = 1 /\ st # "none" THEN a ELSE Outage],
      locks |-> [r \in MCRequests |->
          IF r = 1 /\ st # "none" THEN RouteLocks(a, row, {t1, t2}) ELSE {}],
      mode |-> [r \in MCRequests |->
          IF r = 1 /\ st # "none" THEN RouteMode(a, row) ELSE "normal"],
      alerts |-> [r \in MCRequests |->
          IF r = 1 /\ st # "none" THEN DesiredAlerts(a, row, {t1, t2}) ELSE {}]] :
        s \in {s1, s2}, row \in Rows, st \in {"none", "pending", "active"},
        a \in {Known({old}), Known({old, new})}}

(* No operation reads the route, snapshot or owner of a closed request. *)
OpenRowsView ==
    <<configVars, spent, now, alerts,
      [r \in RequestIds |->
         IF Open(r) THEN <<status[r], owner[r], kind[r], assigned[r], created[r],
                           activated[r], mode[r], blocked[r], locks[r]>>
         ELSE <<status[r] = "none">>]>>

Symmetric == Permutations({t1, t2}) \cup Permutations({s1, s2})

(* Two instances: one student, whose attempts are counted and refused, with *)
(* requests for a toilet and for support; and two students with requests   *)
(* for a toilet, of whom one at a time has made an attempt in this window. *)
Instances ==
    \/ \E s \in Students : \A r \in RequestIds, o \in Students \ {s} :
          owner[r] # o /\ spent[o] = 0
    \/ /\ \A r \in RequestIds : kind[r] = "toilet"
       /\ \E s \in Students : \A o \in Students :
             spent[o] <= IF o = s THEN 1 ELSE 0
=============================================================================
