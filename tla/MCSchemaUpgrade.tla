------------------------- MODULE MCSchemaUpgrade -------------------------
(* Instances of SchemaUpgrade: the empty file, prototypes with one class    *)
(* and two toilets, and databases of every version.                         *)
EXTENDS SchemaUpgrade

MCUsers == {"ann", "bob"}
MCClasses == {"7a"}
MCToilets == {1, 2}
MCRequests == {1, 2}

NoData ==
    [schema |-> {}, version |-> None, toiletOf |-> [c \in MCClasses |-> None],
     choices |-> {}, home |-> [u \in MCUsers |-> None], toilets |-> {},
     user |-> [r \in MCRequests |-> IF r = 1 THEN "ann" ELSE "bob"],
     type |-> [r \in MCRequests |-> "paper"],
     status |-> [r \in MCRequests |-> "done"], mode |-> [r \in MCRequests |-> "support"],
     blocked |-> [r \in MCRequests |-> FALSE],
     named |-> [r \in MCRequests |-> None], locks |-> {}, snapshots |-> {}, alerts |-> {},
     sessions |-> {}, secret |-> [u \in MCUsers |-> None]]

PrototypeSchema ==
    {"toilets", "users", "classes", "sessions", "requests", "class_toilets",
     "school_class_id", "password_hash", "requests.toilet", "unique_name"}

Prototypes ==
    {[NoData EXCEPT
        !.schema = PrototypeSchema, !.toilets = t,
        !.choices = {<<"7a", c>> : c \in choice},
        !.home = [u \in MCUsers |-> IF u = "ann" THEN home ELSE None],
        !.user = [r \in MCRequests |-> IF r = 1 THEN "ann" ELSE owner],
        !.type = [r \in MCRequests |-> IF r = 1 THEN "toilet" ELSE type],
        !.status = [r \in MCRequests |-> IF r = 1 THEN first ELSE second],
        !.mode = [r \in MCRequests |-> None],
        !.named = [r \in MCRequests |-> IF r = 1 THEN name ELSE None],
        !.sessions = {"bare"},
        !.secret = [u \in MCUsers |-> IF u = "bob" THEN "admin" ELSE None]] :
        t \in {{}, MCToilets}, choice \in {{}, {2}, {1, 2}}, home \in {"7a", None},
        owner \in MCUsers, type \in {"toilet", "paper"},
        first \in {"pending", "active", "done"}, second \in {"pending", "active"},
        name \in {1, 3, None}}

CurrentSchema ==
    {Creation[i] : i \in 1..Len(Creation)} \cup
    {"public_id", "toilet_id", "autoincrement", "csrf_token"}

Routes ==
    {{}, {Lock(1, 1, "legacy_name")}, {Lock(1, 2, "legacy_class_mapping")},
     {Lock(1, 1, "legacy_name"), Lock(1, 2, "legacy_class_mapping")},
     {Lock(1, 1, "legacy_fallback_all"), Lock(1, 2, "legacy_fallback_all")}}

Versioned ==
    {[NoData EXCEPT
        !.schema = CurrentSchema \cup retired \cup {"user_current_classes"},
        !.version = v, !.toilets = MCToilets,
        !.type = [r \in MCRequests |-> IF r = 1 THEN "toilet" ELSE "paper"],
        !.status = [r \in MCRequests |-> IF r = 1 THEN "pending" ELSE "active"],
        !.mode = [r \in MCRequests |-> IF r = 1 THEN mode ELSE "support"],
        !.locks = route, !.snapshots = placed,
        !.sessions = IF v < 3 THEN {"dev", "cms"} ELSE {"operator", "cms"},
        !.secret = [u \in MCUsers |-> IF u = "ann" THEN "proctor" ELSE None]] :
        v \in 1..4, retired \in {{}, {"password_hash", "display_name"}},
        route \in Routes, placed \in {{}, {1}}, mode \in {"normal", "fallback_all"}}

Repaired ==
    [NoData EXCEPT !.schema = CurrentSchema \cup {"display_name"},
                   !.version = SCHEMA_VERSION, !.sessions = {"cms"}]

MCOrigins ==
    {NoData, Repaired} \cup Versioned \cup
    {o \in Prototypes : \A p \in o.choices : p[2] \in o.toilets}

=============================================================================
