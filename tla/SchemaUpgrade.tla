--------------------------- MODULE SchemaUpgrade ---------------------------
(***************************************************************************)
(* upgrade_schema of src/migrations.py: what Database.initialize does to a *)
(* database every time the application starts, with the process dying at   *)
(* any point in between and starting again.                                *)
(*                                                                         *)
(* A step of the model is what becomes durable at once.  The functions     *)
(* that change data are one transaction each; the CREATE and ALTER         *)
(* statements outside of them are durable one by one, because pysqlite     *)
(* begins a transaction only at the first INSERT, UPDATE or DELETE.        *)
(* A database is an empty file, the prototype, or one of versions 1 to 5;  *)
(* its columns, tables and indexes are the elements of "schema" as far as  *)
(* the upgrade looks at them.                                              *)
(***************************************************************************)
EXTENDS Naturals, FiniteSets, Sequences, SequencesExt

CONSTANTS
    Users,
    Classes,
    Toilets,      \* their primary keys
    Requests,     \* their primary keys, in the order of created_at
    Origins,      \* the databases a process may find
    CrashLimit,   \* BOUND: how often the process may die
    None

SCHEMA_VERSION == 5

VARIABLES
    origin,     \* history: the database before the first start
    schema,     \* the tables, columns and indexes there are
    version,    \* schema_version
    toiletOf,   \* classes.toilet_id
    request,    \* status, routing_mode, blocked_reason, completed_by
    locks,      \* request_toilet_locks with their source
    snapshots,  \* request_class_snapshots
    alerts,     \* operational_alerts
    sessions,   \* the kinds of sessions there are
    operators,  \* operator_accounts: the highest role of each
    audit,      \* the schema.upgraded events
    pc,         \* the step the process is at
    legacy,     \* what it found when it started: legacy,
    found,      \* version
    missing,    \* and the elements create_all has to make
    crashes

routeVars == <<request, locks, snapshots, alerts>>
identityVars == <<sessions, operators>>
attemptVars == <<legacy, found, missing>>
vars == <<origin, schema, version, toiletOf, routeVars, identityVars, audit,
          pc, attemptVars, crashes>>

-----------------------------------------------------------------------------
(* The parts of a database. *)

\* In the order metadata.create_all makes them: a table, then its indexes.
Creation == <<"toilets", "users", "ix_users_username", "classes", "sessions",
              "requests", "uq_requests_open_user_type", "relations">>
TableOf(e) == CASE e = "ix_users_username" -> "users"
                [] e = "uq_requests_open_user_type" -> "requests"
                [] OTHER -> e
\* The columns a table of the present models has and an older one has not.
ColumnsOf(e) == CASE e = "classes" -> {"public_id", "toilet_id", "autoincrement"}
                  [] e = "sessions" -> {"csrf_token"}
                  [] OTHER -> {}
RetiredColumns == {"school_class_id", "password_hash", "display_name"}
Retired == RetiredColumns \cup {"class_toilets"}

Elements ==
    {Creation[i] : i \in 1..Len(Creation)} \cup Retired \cup
    {"public_id", "toilet_id", "autoincrement", "csrf_token", "requests.toilet",
     "unique_name", "user_current_classes"}

Sources == {"legacy_name", "legacy_class_mapping", "legacy_fallback_all", "route"}
Codes == {"class_without_toilet", "no_class", "no_toilets"}
Statuses == {"pending", "active", "done", "cancelled"}
Modes == {"normal", "multiple_classes", "fallback_all", "support"}
SessionKinds == {"bare", "dev", "cms", "operator"}

(* The databases there are: an empty file, the prototype, which had none of *)
(* the columns the routes of today are kept in, and one of each version.   *)
(* A request that has no row is a completed one.                           *)
EmptyFile(o) ==
    /\ o.version = None /\ o.schema = {}
    /\ \A c \in Classes : o.toiletOf[c] = None
    /\ \A r \in Requests : o.status[r] = "done" /\ o.mode[r] # None
    /\ o.locks = {} /\ o.snapshots = {} /\ o.alerts = {} /\ o.sessions = {}
PrototypeFile(o) ==
    /\ o.version = None
    /\ {"classes", "class_toilets", "school_class_id", "requests.toilet"} \subseteq o.schema
    /\ {"public_id", "toilet_id", "csrf_token"} \cap o.schema = {}
    /\ \A c \in Classes : o.toiletOf[c] = None
    /\ \A r \in Requests : o.mode[r] = None /\ ~o.blocked[r]
    /\ o.locks = {} /\ o.snapshots = {} /\ o.alerts = {} /\ o.sessions \subseteq {"bare"}
VersionFile(o) ==
    /\ o.version \in 1..SCHEMA_VERSION
    /\ \A r \in Requests : o.mode[r] # None
    /\ o.version >= 3 => o.sessions \subseteq {"cms", "operator"}

ASSUME UpgradeAssumption ==
    /\ None \notin Nat \cup Modes \cup Classes \cup {"schema-upgrade"}
    /\ Toilets \subseteq Nat /\ Requests \subseteq Nat /\ CrashLimit \in Nat
    /\ \A o \in Origins :
        /\ o.schema \subseteq Elements
        /\ o.toiletOf \in [Classes -> Toilets \cup {None}]
        /\ o.choices \subseteq Classes \X Toilets /\ o.toilets \subseteq Toilets
        /\ o.home \in [Users -> Classes \cup {None}] /\ o.user \in [Requests -> Users]
        /\ o.status \in [Requests -> Statuses]
        /\ o.mode \in [Requests -> Modes \cup {None}] /\ o.blocked \in [Requests -> BOOLEAN]
        /\ o.locks \subseteq [request : Requests, toilet : Toilets, source : Sources]
        /\ o.snapshots \subseteq Requests
        /\ o.alerts \subseteq [request : Requests, code : Codes]
        /\ o.sessions \subseteq SessionKinds
        /\ o.secret \in [Users -> {"admin", "proctor", None}]
        /\ EmptyFile(o) \/ PrototypeFile(o) \/ VersionFile(o)

Lock(r, t, s) == [request |-> r, toilet |-> t, source |-> s]
Locked(r) == \E l \in locks : l.request = r
Snapped(r) == r \in snapshots
IsOpen(req) == req.status \in {"pending", "active"}
OpenVisit(r) == origin.type[r] = "toilet" /\ IsOpen(request[r])
ClassOf(r) == origin.home[origin.user[r]]
Least(S) == CHOOSE x \in S : \A y \in S : x <= y
ChosenToilets(c) == {t \in Toilets : <<c, t>> \in origin.choices}

(* What makes a database without a version a prototype. *)
LooksLegacy ==
    /\ version = None
    /\ "classes" \in schema
    /\ \/ {"public_id", "csrf_token"} \ schema # {}
       \/ {"class_toilets", "school_class_id", "requests.toilet"} \cap schema # {}

-----------------------------------------------------------------------------
(* The program: which steps an attempt takes, from what it found. *)

Program == <<"alter", "convert", "unname", "sessions", "create", "unlock", "repair",
             "rebuild", "purge", "identity", "index", "populate", "mirror", "finalize">>

Older(v, n) == v = None \/ v < n

\* Mutant: a database without a version has no old credentials.
CredentialStepsMut(v) ==
    {s \in {"purge", "identity"} : v # None /\ Older(v, IF s = "purge" THEN 3 ELSE 4)}
CredentialSteps(v) ==
    {s \in {"purge", "identity"} : Older(v, IF s = "purge" THEN 3 ELSE 4)}

\* Mutant: only a database that had a version is finalized.
FinalStepsMut(v) ==
    IF v # None /\ (v < SCHEMA_VERSION \/ RetiredColumns \cap schema # {})
    THEN {"finalize"} ELSE {}
FinalSteps(v) ==
    IF Older(v, SCHEMA_VERSION) \/ RetiredColumns \cap schema # {}
    THEN {"finalize"} ELSE {}

Due(l, v) ==
    {"create", "index"} \cup CredentialSteps(v) \cup FinalSteps(v)
    \cup (IF l THEN {"alter", "convert", "unname", "sessions", "populate"} ELSE {})
    \cup (IF v # None /\ v < 2 THEN {"unlock", "repair"} ELSE {})
    \cup (IF Older(v, SCHEMA_VERSION) THEN {"rebuild", "mirror"} ELSE {})

(* The first due step after the i-th, or the running application. *)
After(i, due) ==
    LET rest == {j \in (i + 1)..Len(Program) : Program[j] \in due}
    IN IF rest = {} THEN "up" ELSE Program[Least(rest)]
Position(step) == CHOOSE i \in 1..Len(Program) : Program[i] = step

Proceed ==
    /\ pc' = After(Position(pc), Due(legacy, found))
    /\ UNCHANGED <<origin, attemptVars, crashes>>

(* create_all looks for missing tables when its turn comes; no step before *)
(* it makes or drops one, so what it will find is known from the start.    *)
Start ==
    /\ pc = "down"
    /\ legacy' = LooksLegacy
    /\ found' = version
    /\ missing' = {i \in 1..Len(Creation) : TableOf(Creation[i]) \notin schema}
    /\ pc' = After(0, Due(LooksLegacy, version))
    /\ UNCHANGED <<origin, schema, version, toiletOf, routeVars, identityVars, audit, crashes>>

-----------------------------------------------------------------------------
(* _upgrade_legacy_tables *)

Alter ==
    /\ pc = "alter"
    /\ LET lacking == {"public_id", "toilet_id"} \ schema
       IN \/ /\ lacking # {}
             /\ \E e \in lacking : schema' = schema \cup {e}
             /\ UNCHANGED <<origin, attemptVars, crashes, pc>>
          \/ lacking = {} /\ UNCHANGED schema /\ Proceed
    /\ UNCHANGED <<version, toiletOf, routeVars, identityVars, audit>>

(* An open request that an older open one of its owner and kind precedes. *)
Duplicate(r) ==
    \E q \in Requests : q < r /\ origin.user[q] = origin.user[r]
        /\ origin.type[q] = origin.type[r]
        /\ IsOpen(request[q]) /\ IsOpen(request[r])

\* Mutant: it is not noted who cancelled.
CancelledMut(req) == [req EXCEPT !.status = "cancelled"]
Cancelled(req) == [req EXCEPT !.status = "cancelled", !.by = "schema-upgrade"]

DefaultMode(r) == IF origin.type[r] = "toilet" THEN "normal" ELSE "support"

Convert ==
    /\ pc = "convert"
    /\ toiletOf' = [c \in Classes |->
          IF toiletOf[c] = None /\ "class_toilets" \in schema /\ ChosenToilets(c) # {}
          THEN Least(ChosenToilets(c)) ELSE toiletOf[c]]
    /\ request' = [r \in Requests |->
          LET req == [request[r] EXCEPT !.mode = IF @ = None THEN DefaultMode(r) ELSE @]
          IN IF Duplicate(r) THEN Cancelled(req) ELSE req]
    /\ Proceed
    /\ UNCHANGED <<schema, version, locks, snapshots, alerts, identityVars, audit>>

(* _rebuild_legacy_classes, and the same again for any older version with   *)
(* _ensure_toilet_autoincrement.                                            *)
RebuildTables ==
    /\ pc \in {"unname", "rebuild"}
    /\ schema' = (schema \ {"unique_name"}) \cup {"autoincrement"}
    /\ Proceed
    /\ UNCHANGED <<version, toiletOf, routeVars, identityVars, audit>>

(* _rebuild_legacy_sessions *)
RebuildSessions ==
    /\ pc = "sessions"
    /\ IF "sessions" \in schema /\ "csrf_token" \notin schema
       THEN /\ schema' = schema \cup {"csrf_token"}
            /\ sessions' = {"dev" : s \in sessions}
       ELSE UNCHANGED <<schema, sessions>>
    /\ Proceed
    /\ UNCHANGED <<version, toiletOf, routeVars, operators, audit>>

-----------------------------------------------------------------------------
(* create_all *)

Create ==
    /\ pc = "create"
    /\ missing # {}
    /\ LET e == Creation[Least(missing)]
       IN schema' = schema \cup {e} \cup ColumnsOf(e)
    /\ missing' = missing \ {Least(missing)}
    /\ UNCHANGED <<origin, version, toiletOf, routeVars, identityVars, audit,
                   pc, legacy, found, crashes>>

Created ==
    /\ pc = "create"
    /\ missing = {}
    /\ Proceed
    /\ UNCHANGED <<schema, version, toiletOf, routeVars, identityVars, audit>>

-----------------------------------------------------------------------------
(* Repairs of version 1. *)

(* _repair_v1_legacy_locks *)
Unlock ==
    /\ pc = "unlock"
    /\ locks' = {l \in locks : l.source = "legacy_class_mapping" =>
          \A k \in locks : k.request = l.request => k.source # "legacy_name"}
    /\ Proceed
    /\ UNCHANGED <<schema, version, toiletOf, request, snapshots, alerts, identityVars, audit>>

(* _repair_legacy_fallback_routes, given the locks and the snapshots. *)
NeedsFallback(r, lk, sn) ==
    /\ OpenVisit(r)
    /\ \/ r \notin sn
       \/ \A l \in lk : l.request # r
       \/ \E l \in lk : l.request = r /\ l.source = "legacy_fallback_all"

AlertsFor(r, lk, sn) ==
    {[request |-> r, code |-> IF r \in sn THEN "class_without_toilet" ELSE "no_class"]}
    \cup IF \E l \in lk : l.request = r THEN {} ELSE {[request |-> r, code |-> "no_toilets"]}

RepairRoutes(lk, sn) ==
    /\ request' = [r \in Requests |->
          [request[r] EXCEPT
              !.mode = IF NeedsFallback(r, lk, sn) THEN "fallback_all" ELSE @,
              !.blocked = IF /\ origin.type[r] = "toilet"
                             /\ request[r].status = "pending"
                             /\ \A l \in lk : l.request # r
                          THEN TRUE ELSE @]]
    /\ alerts' = alerts \cup UNION {AlertsFor(r, lk, sn) :
          r \in {q \in Requests : OpenVisit(q) /\ request'[q].mode = "fallback_all"}}

Repair ==
    /\ pc = "repair"
    /\ RepairRoutes(locks, snapshots)
    /\ Proceed
    /\ UNCHANGED <<schema, version, toiletOf, locks, snapshots, identityVars, audit>>

-----------------------------------------------------------------------------
(* Credentials. *)

(* _invalidate_nonproduction_sessions *)
Purge ==
    /\ pc = "purge"
    /\ sessions' = sessions \cap {"cms", "operator"}
    /\ Proceed
    /\ UNCHANGED <<schema, version, toiletOf, routeVars, operators, audit>>

(* _upgrade_local_identity_tables: INSERT OR IGNORE by username. *)
Identity ==
    /\ pc = "identity"
    /\ operators' = [u \in Users |->
          IF operators[u] = None /\ "password_hash" \in schema THEN origin.secret[u]
          ELSE operators[u]]
    /\ Proceed
    /\ UNCHANGED <<schema, version, toiletOf, routeVars, sessions, audit>>

-----------------------------------------------------------------------------
(* The unique index of open requests can only be made if it holds. *)
NoDuplicates == \A r \in Requests : ~Duplicate(r)

Index ==
    /\ pc = "index"
    /\ NoDuplicates
    /\ schema' = schema \cup {"uq_requests_open_user_type"}
    /\ Proceed
    /\ UNCHANGED <<version, toiletOf, routeVars, identityVars, audit>>

(* _populate_legacy_relations *)
Inserted(lk, new) ==
    lk \cup {l \in new : \A k \in lk : <<k.request, k.toilet>> # <<l.request, l.toilet>>}

NamedLocks ==
    {Lock(r, origin.named[r], "legacy_name") :
        r \in {q \in Requests : "requests.toilet" \in schema /\ origin.named[q] \in origin.toilets}}

\* Mutant: what version 1 did, the mapping of the class beside the named toilet.
MappingLocksMut(lk) ==
    {Lock(r, toiletOf[ClassOf(r)], "legacy_class_mapping") :
        r \in {q \in Requests :
            /\ "school_class_id" \in schema
            /\ OpenVisit(q) /\ ClassOf(q) # None
            /\ toiletOf[ClassOf(q)] # None}}
MappingLocks(lk) ==
    {Lock(r, toiletOf[ClassOf(r)], "legacy_class_mapping") :
        r \in {q \in Requests :
            /\ "school_class_id" \in schema
            /\ OpenVisit(q) /\ ClassOf(q) # None
            /\ toiletOf[ClassOf(q)] # None
            /\ \A l \in lk : l.request # q}}

FallbackLocks(lk) ==
    {Lock(r, t, "legacy_fallback_all") :
        r \in {q \in Requests : OpenVisit(q) /\ \A l \in lk : l.request # q},
        t \in origin.toilets}

Populate ==
    /\ pc = "populate"
    /\ LET named == Inserted(locks, NamedLocks)
           mapped == Inserted(named, MappingLocks(named))
           routed == Inserted(mapped, FallbackLocks(mapped))
           placed == snapshots \cup
               {r \in Requests : "school_class_id" \in schema /\ ClassOf(r) # None}
       IN /\ locks' = routed
          /\ snapshots' = placed
          /\ RepairRoutes(routed, placed)
    /\ Proceed
    /\ UNCHANGED <<schema, version, toiletOf, identityVars, audit>>

(* _drop_current_class_mirror *)
\* Mutant: the other retired table goes with it.
MirrorMut == {"user_current_classes", "class_toilets"}
Mirror == {"user_current_classes"}

DropMirror ==
    /\ pc = "mirror"
    /\ schema' = schema \ Mirror
    /\ Proceed
    /\ UNCHANGED <<version, toiletOf, routeVars, identityVars, audit>>

(* _legacy_upgrade_details and _finalize_schema_upgrade: what is retired    *)
(* goes, the event is written and the version published, all at once.      *)
Details ==
    [collapsed |-> {c \in Classes : "class_toilets" \in schema /\ Cardinality(ChosenToilets(c)) > 1},
     cancelled |-> {r \in Requests : request[r].by = "schema-upgrade"},
     removed   |-> Retired \cap schema]

Finalize ==
    /\ pc = "finalize"
    /\ schema' = (schema \ Retired) \cup
          IF RetiredColumns \cap schema # {} THEN {"ix_users_username"} ELSE {}
    /\ audit' = IF legacy \/ found # None THEN Append(audit, Details) ELSE audit
    /\ version' = SCHEMA_VERSION
    /\ Proceed
    /\ UNCHANGED <<toiletOf, routeVars, identityVars>>

-----------------------------------------------------------------------------
(* The process dies, or the running application is stopped. *)
Crash ==
    /\ pc # "down"
    /\ crashes < CrashLimit
    /\ crashes' = crashes + 1
    /\ pc' = "down"
    /\ legacy' = FALSE
    /\ found' = None
    /\ missing' = {}
    /\ UNCHANGED <<origin, schema, version, toiletOf, routeVars, identityVars, audit>>

Init ==
    /\ origin \in Origins
    /\ schema = origin.schema
    /\ version = origin.version
    /\ toiletOf = origin.toiletOf
    /\ request = [r \in Requests |->
          [status |-> origin.status[r], mode |-> origin.mode[r],
           blocked |-> origin.blocked[r], by |-> None]]
    /\ locks = origin.locks
    /\ snapshots = origin.snapshots
    /\ alerts = origin.alerts
    /\ sessions = origin.sessions
    /\ operators = [u \in Users |-> None]
    /\ audit = <<>>
    /\ pc = "down"
    /\ legacy = FALSE
    /\ found = None
    /\ missing = {}
    /\ crashes = 0

Step == \/ Start \/ Alter \/ Convert \/ RebuildTables \/ RebuildSessions
        \/ Create \/ Created \/ Unlock \/ Repair \/ Purge \/ Identity
        \/ Index \/ Populate \/ DropMirror \/ Finalize

Next == Step \/ Crash

Spec == Init /\ [][Next]_vars

(* A process that runs executes its statements, and one that died is       *)
(* started again.                                                          *)
FairSpec == Spec /\ WF_vars(Step)

-----------------------------------------------------------------------------
(* What is promised.                                                       *)

Steps == {Program[i] : i \in 1..Len(Program)} \cup {"down", "up"}
RequestStates ==
    [status : Statuses, mode : Modes \cup {None},
     blocked : BOOLEAN, by : {"schema-upgrade", None}]

(* Every value is of its kind, and in a published queue no request is       *)
(* without a routing mode.                                                  *)
TypeOK ==
    /\ schema \subseteq Elements
    /\ version \in 1..SCHEMA_VERSION \cup {None}
    /\ toiletOf \in [Classes -> Toilets \cup {None}]
    /\ request \in [Requests -> RequestStates]
    /\ version = SCHEMA_VERSION => \A r \in Requests : request[r].mode # None
    /\ locks \subseteq [request : Requests, toilet : Toilets, source : Sources]
    /\ snapshots \subseteq Requests
    /\ alerts \subseteq [request : Requests, code : Codes]
    /\ sessions \subseteq SessionKinds
    /\ operators \in [Users -> {"admin", "proctor", None}]
    /\ pc \in Steps
    /\ legacy \in BOOLEAN
    /\ found \in 1..SCHEMA_VERSION \cup {None}
    /\ missing \subseteq 1..Len(Creation)
    /\ crashes \in 0..CrashLimit

Published == version = SCHEMA_VERSION
Prototype == origin.version = None /\ "classes" \in origin.schema
Superseded(r) ==
    /\ Prototype
    /\ origin.status[r] \in {"pending", "active"}
    /\ \E q \in Requests : q < r /\ origin.user[q] = origin.user[r]
          /\ origin.type[q] = origin.type[r] /\ origin.status[q] \in {"pending", "active"}
WaitsOrVisits(r) ==
    origin.type[r] = "toilet" /\ origin.status[r] \in {"pending", "active"} /\ ~Superseded(r)

ByName(r) == Prototype /\ origin.named[r] \in origin.toilets
ByClass(r) == Prototype /\ ClassOf(r) # None /\ ChosenToilets(ClassOf(r)) # {}
SourcesOf(r) == {l.source : l \in {k \in origin.locks : k.request = r}}

(* The toilets a request is for, said of the original database alone.      *)
RouteOf(r) ==
    CASE ByName(r) -> {origin.named[r]}
      [] ~ByName(r) /\ ByClass(r) /\ WaitsOrVisits(r) -> {Least(ChosenToilets(ClassOf(r)))}
      [] Prototype /\ ~ByName(r) /\ ~ByClass(r) /\ WaitsOrVisits(r) -> origin.toilets
      [] Prototype /\ ~ByName(r) /\ ~WaitsOrVisits(r) -> {}
      [] ~Prototype -> {l.toilet : l \in {k \in origin.locks : k.request = r /\
            ~(origin.version = 1 /\ k.source = "legacy_class_mapping"
              /\ "legacy_name" \in SourcesOf(r))}}

HasClass(r) == IF Prototype THEN ClassOf(r) # None ELSE r \in origin.snapshots

(* No class or no toilet of its own to go by. *)
Unresolved(r) ==
    \/ ~HasClass(r)
    \/ Prototype /\ ~ByName(r) /\ ~ByClass(r)
    \/ ~Prototype /\ (SourcesOf(r) = {} \/ "legacy_fallback_all" \in SourcesOf(r))

OnFallback(r) ==
    WaitsOrVisits(r) /\ (Unresolved(r) \/ origin.mode[r] = "fallback_all")
ReasonsFor(r) ==
    {IF HasClass(r) THEN "class_without_toilet" ELSE "no_class"}
    \cup (IF RouteOf(r) = {} THEN {"no_toilets"} ELSE {})

(* However often the upgrade is interrupted, and wherever, the published    *)
(* queue is the one the original database describes: the oldest open        *)
(* request of a student and kind is the one that stays open; a request is   *)
(* for the toilet it named, else for the least one of its owner's class,    *)
(* else for all; and the ones that could not be resolved are on the         *)
(* fallback route, with the alerts that say why.                            *)
RoutesConverted ==
    Published => \A r \in Requests :
        /\ {l.toilet : l \in {k \in locks : k.request = r}} = RouteOf(r)
        /\ request[r].status = IF Superseded(r) THEN "cancelled" ELSE origin.status[r]
        /\ Prototype \/ origin.version = 1 =>
              /\ (request[r].mode = "fallback_all") =
                    (origin.mode[r] = "fallback_all" \/ OnFallback(r))
              /\ request[r].blocked =
                    (origin.blocked[r] \/
                     (WaitsOrVisits(r) /\ origin.status[r] = "pending" /\ RouteOf(r) = {}))
              /\ {a.code : a \in {b \in alerts : b.request = r}} =
                    {a.code : a \in {b \in origin.alerts : b.request = r}} \cup
                    (IF OnFallback(r) THEN ReasonsFor(r) ELSE {})

(* A database that held data is upgraded with one event, which tells all    *)
(* the classes that lost a choice, all the requests that were cancelled     *)
(* and all that was removed, those of interrupted attempts included.        *)
AuditComplete ==
    /\ Len(audit) <= 1
    /\ Published /\ Prototype =>
          audit = <<[collapsed |-> {c \in Classes : Cardinality(ChosenToilets(c)) > 1},
                     cancelled |-> {r \in Requests : Superseded(r)},
                     removed   |-> Retired \cap origin.schema]>>
    /\ audit # <<>> => Published

(* What the conversion reads is there until the version is published: the   *)
(* retired columns and tables go in no other step.                          *)
SourcesUntilPublished ==
    [][schema \cap Retired \subseteq schema' \/ version' = SCHEMA_VERSION]_vars

(* Nobody's credentials of a retired kind survive the upgrade, and everyone *)
(* who had a password has an account with the same authority.               *)
CredentialsCarried ==
    Published =>
        /\ sessions = origin.sessions \cap {"cms", "operator"}
        /\ \A u \in Users : Older(origin.version, 4) /\ "password_hash" \in origin.schema =>
              operators[u] = origin.secret[u]

(* Once the process stops dying, the application runs on the new schema:    *)
(* no partial upgrade leaves a database the next attempt cannot continue.   *)
Upgraded == <>[](pc = "up" /\ Published /\ Retired \cap schema = {})

=============================================================================
