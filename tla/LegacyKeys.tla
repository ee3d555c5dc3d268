---------------------------- MODULE LegacyKeys ----------------------------
(***************************************************************************)
(* The queue on a database that was upgraded from the prototype:           *)
(* reconcile_legacy_class_mapping_keys of src/service.py, which src/main.py *)
(* calls at every start and whenever an administrator reloads the classes, *)
(* while requests are opened, rerouted and closed as in ToiletQueue.       *)
(*                                                                         *)
(* The prototype knew classes by name.  The upgrade gave each a generated  *)
(* key, and the reconciliation moves its row, and the open requests that   *)
(* name it, to the key of the one live class of the same name.  It does    *)
(* the same to operators' scopes and sessions, which is StaffAccess!Rescope;*)
(* here ClassScope names no generated key.                                 *)
(***************************************************************************)
EXTENDS ToiletQueue

CONSTANTS
    Generated,   \* class keys made by the upgrade
    NameOf,      \* Classes -> names, of the class or of the prototype's row
    Catalogues,  \* the sets of classes Olimp-control may list
    Databases    \* what upgrade_schema may have published

-----------------------------------------------------------------------------
(* Class keys.                                                             *)

LiveNamesakes(c, cat) == {d \in cat : NameOf[d] = NameOf[c]}
Target(c, cat) == CHOOSE d \in LiveNamesakes(c, cat) : TRUE
OneNamesake(c, cat) == \E d \in Classes : LiveNamesakes(c, cat) = {d}

(* A snapshot that named both keys names the live one once. *)
Rekeyed(classes, moved, cat) ==
    (classes \ moved) \cup {Target(c, cat) : c \in classes \cap moved}

(* The answers contain what the database has and what becomes of it, and a *)
(* database obeys its foreign keys and the index that admits one open      *)
(* request of a kind per user.                                             *)
ASSUME KeysAssumption ==
    /\ Generated \subseteq Classes
    /\ \A cat \in Catalogues :
          /\ cat \subseteq Classes \ Generated
          /\ \A moved \in SUBSET {c \in Generated : OneNamesake(c, cat)}, a \in Assignments :
                [a EXCEPT !.classes = Rekeyed(@, moved, cat)] \in Assignments
    /\ \A p \in Proctors : ClassScope[p] \cap Generated = {}
    /\ NoToilet # NoRow
    /\ \A db \in Databases :
          /\ db.capacity \in [ToiletIds -> 0..MaxCapacity]
          /\ db.mapping \in [Classes -> ToiletIds \cup {NoToilet, NoRow}]
          /\ \A c \in Classes : db.mapping[c] \in ToiletIds => db.capacity[db.mapping[c]] > 0
          /\ db.status \in [RequestIds -> {"none", "pending", "active", "done", "cancelled"}]
          /\ db.owner \in [RequestIds -> Students \cup {None}]
          /\ \A q, r \in RequestIds :
                /\ {db.status[q], db.status[r]} \subseteq {"pending", "active"}
                /\ db.owner[q] = db.owner[r]
                => q = r
          /\ db.assigned \in [RequestIds -> Assignments \cup {Outage}]
          /\ db.locks \in [RequestIds -> SUBSET {t \in ToiletIds : db.capacity[t] > 0}]
          /\ db.mode \in [RequestIds -> {"normal", "multiple_classes", "fallback_all", "support"}]
          /\ db.alerts \in [RequestIds -> SUBSET AlertCodes]

-----------------------------------------------------------------------------
(* The rows a pass looks at, given the live catalogue.  A row bears the     *)
(* name of its class if the prototype, an earlier version that mirrored the *)
(* catalogue or a former pass wrote it, and its own key as a name if        *)
(* AssignClassToilet did; which of the unmatched rows of real classes are   *)
(* "neutral" in this way is left open.                                     *)

HasRow(c) == mapping[c] # NoRow

Unmatched(cat) ==
    {c \in Classes \ cat : HasRow(c) /\ (mapping[c] # NoToilet \/ Anchored(c))}

SameName(c, d, neutral) == c = d \/ (d \notin neutral /\ NameOf[c] = NameOf[d])

(* The row of the target may take the legacy row's toilet. *)
\* Mutant: whatever the target has.
CompatibleMut(c, d) == TRUE
Compatible(c, d) ==
    \/ mapping[c] = NoToilet
    \/ mapping[d] \in {NoRow, NoToilet, mapping[c]}

(* "An unmatched synthetic legacy class UUID is remapped only when ... its  *)
(* saved name has one exact unique match in the live class catalog."       *)
Resolved(cat, neutral) ==
    {c \in Unmatched(cat) \cap Generated :
        /\ \A d \in Unmatched(cat) : SameName(c, d, neutral) => d = c
        /\ \E d \in Classes : LiveNamesakes(c, cat) = {d} /\ Compatible(c, d)}

Neutrals(cat) == SUBSET (Unmatched(cat) \ Generated)

(* Generated rows that nobody needs any more. *)
Stale ==
    {c \in Generated : mapping[c] = NoToilet /\ ~Anchored(c)}

(* The legacy rows whose toilet goes to d. *)
Donors(d, moved, cat) ==
    {c \in moved : Target(c, cat) = d /\ mapping[c] # NoToilet}

\* Mutant: a row merged into one that was there is not deleted.
MappingAfterMut(moved, cat) ==
    [c \in Classes |->
        IF Donors(c, moved, cat) # {}
        THEN mapping[CHOOSE d \in Donors(c, moved, cat) : TRUE]
        ELSE IF c \in Stale \/ (c \in moved /\ ~HasRow(Target(c, cat))) THEN NoRow
        ELSE mapping[c]]
MappingAfter(moved, cat) ==
    [c \in Classes |->
        IF Donors(c, moved, cat) # {}
        THEN mapping[CHOOSE d \in Donors(c, moved, cat) : TRUE]
        ELSE IF c \in Stale \cup moved THEN NoRow
        ELSE mapping[c]]

(* The mapping the rebuilt routes read: all key moves were flushed. *)
\* Mutant: they were not.
FlushedMut(moved, cat) == mapping
Flushed(moved, cat) == MappingAfter(moved, cat)

Reconcile(cat, neutral) ==
    LET moved == Resolved(cat, neutral)
        remapped == {r \in RequestIds : Open(r) /\ assigned[r].classes \cap moved # {}}
        rerouted == remapped \cap Waiting
    IN /\ mapping' = MappingAfter(moved, cat)
       /\ assigned' = [r \in RequestIds |->
             IF r \in remapped
             THEN [assigned[r] EXCEPT !.classes = Rekeyed(@, moved, cat)] ELSE assigned[r]]
       /\ UNCHANGED <<capacity, retired, owner, kind, created, spent, now>>
       /\ Reroute(rerouted, assigned', Flushed(moved, cat), Toilets, alerts)
       /\ IF rerouted = {} THEN NoPass(status)
          ELSE Schedule(status, activated, BlockedAfter(rerouted))

-----------------------------------------------------------------------------
(* An upgraded database: the open requests of the prototype with the routes *)
(* SchemaUpgrade gives them, none of them admitted by the upgrade itself.  *)
LegacyInit ==
    \E db \in Databases :
        /\ capacity = db.capacity
        /\ mapping = db.mapping
        /\ status = db.status
        /\ owner = db.owner
        /\ assigned = db.assigned
        /\ locks = db.locks
        /\ mode = db.mode
        /\ alerts = db.alerts
        /\ retired = {}
        /\ kind = [r \in RequestIds |-> "toilet"]
        /\ now \in Times
        /\ created = [r \in RequestIds |-> IF db.status[r] = "none" THEN None ELSE now]
        /\ activated = [r \in RequestIds |-> IF db.status[r] = "active" THEN now ELSE None]
        /\ blocked = [r \in RequestIds |-> db.status[r] = "pending" /\ db.locks[r] = {}]
        /\ spent = [s \in Students |-> 0]

Reconciles ==
    \E cat \in Catalogues : \E neutral \in Neutrals(cat) : Reconcile(cat, neutral)

LegacyNext == Next \/ Reconciles

LegacySpec == LegacyInit /\ [][LegacyNext]_vars

-----------------------------------------------------------------------------
(* What is promised.                                                       *)

(* No reconciliation takes a toilet away: every toilet the classes of an    *)
(* open request used before it they use after it, under whichever key.     *)
(* "Ambiguous, missing, non-migration, and conflicting mappings are left   *)
(* untouched."                                                             *)
ToiletsKept ==
    [][Reconciles =>
          \A r \in RequestIds : Open(r) =>
              MappedToilets(assigned[r], mapping)
                  \subseteq MappedToilets(assigned'[r], mapping')]_vars

(* One pass is enough: a second one over the same catalogue, which the      *)
(* next start makes, finds nothing left that it could move.                *)
Settled ==
    [][\A cat \in Catalogues : \A neutral \in Neutrals(cat) :
          Reconcile(cat, neutral) => Resolved(cat, neutral)' = {} /\ Stale' = {}]_vars

(* A waiting request whose classes get other keys is routed by the mapping  *)
(* that comes with them, in the same step.                                 *)
RoutesFollowKeys ==
    [][\A r \in Waiting : assigned'[r] # assigned[r] =>
          /\ MappedToilets(assigned'[r], mapping') \subseteq locks'[r]
          /\ mode'[r] = RouteMode(assigned'[r], mapping')]_vars

(* Only requests that named a legacy key are rerouted, although another     *)
(* class may get a toilet by the move.  Nobody waits for a toilet that is   *)
(* not one of their classes', unless they are on the fallback (which need   *)
(* not contain the new one, so that RouteCovers is not promised here).     *)
RouteExact ==
    \A r \in Waiting :
        /\ locks[r] \subseteq Toilets
        /\ mode[r] # "fallback_all" =>
              /\ mode[r] = RouteMode(assigned[r], mapping)
              /\ locks[r] = MappedToilets(assigned[r], mapping)
        /\ blocked[r] <=> locks[r] = {}

=============================================================================
