------------------------ MODULE SchemaUpgradeProofs ------------------------
(***************************************************************************)
(* Theorems about SchemaUpgrade for any databases a process may find and   *)
(* any number of crashes.                                                  *)
(***************************************************************************)
EXTENDS SchemaUpgrade, WellFoundedInduction, TLAPS

-----------------------------------------------------------------------------
(* Least chooses the least member of any set of natural numbers that has one. *)
LEMMA LeastIsIn ==
    ASSUME NEW S \in SUBSET Nat, S # {}
    PROVE  Least(S) \in S /\ \A n \in S : Least(S) <= n
<1> DEFINE below == {p \in Nat \X Nat : p[1] < p[2]}
<1>1. PICK n \in S : \A m \in S : <<m, n>> \notin below
  <2>1. IsWellFoundedOn(below, Nat)
    BY NatLessThanWellFounded, Zenon DEF OpToRel
  <2> HIDE DEF below
  <2> QED BY <2>1, WFMin
<1>2. ASSUME NEW m \in S
      PROVE  n <= m
  <2>1. m \in Nat /\ n \in Nat /\ <<m, n>> \notin below
    BY <1>1
  <2>2. ~(m < n)
    BY <2>1
  <2> QED BY <2>1, <2>2
<1> QED BY <1>2 DEF Least

(* The steps of the program have a place in it, the last one the last. *)
LEMMA PositionOf ==
    /\ \A s \in {Program[i] : i \in 1..Len(Program)} : Position(s) \in 1..Len(Program)
    /\ Position("finalize") = Len(Program)
<1>1. ASSUME NEW s \in {Program[i] : i \in 1..Len(Program)}
      PROVE  Position(s) \in 1..Len(Program)
  BY <1>1 DEF Position
<1>2. Len(Program) = 14 /\ Program[14] = "finalize"
  BY DEF Program
<1>3. ASSUME NEW i \in 1..14, Program[i] = "finalize"
      PROVE  i = 14
  BY <1>3 DEF Program
<1>4. Position("finalize") = 14
  BY <1>2, <1>3 DEF Position
<1> QED BY <1>1, <1>2, <1>4

(* An attempt goes on with a step that is due, or serves. *)
LEMMA AfterIsDue ==
    ASSUME NEW i \in Nat, NEW due
    PROVE  /\ After(i, due) \in due \cup {"up"}
           /\ i >= Len(Program) => After(i, due) = "up"
<1> DEFINE rest == {j \in (i + 1)..Len(Program) : Program[j] \in due}
<1>1. Len(Program) \in Nat
  BY DEF Program
<1>2. rest \in SUBSET Nat
  BY <1>1
<1>3. i >= Len(Program) => rest = {}
  BY <1>1
<1>4. rest # {} => Program[Least(rest)] \in due
  <2>1. \A j \in rest : Program[j] \in due
    OBVIOUS
  <2> HIDE DEF rest
  <2> QED BY <1>2, <2>1, LeastIsIn
<1>5. After(i, due) = IF rest = {} THEN "up" ELSE Program[Least(rest)]
  BY DEF After
<1> QED BY <1>3, <1>4, <1>5

-----------------------------------------------------------------------------
(* The conversion's sources stay until the version is published, whatever   *)
(* the database was and wherever the process dies.                          *)
THEOREM SourcesRemain == Spec => SourcesUntilPublished
<1> DEFINE Kept == schema \cap Retired \subseteq schema' \/ version' = SCHEMA_VERSION
<1>1. Step => Kept
  <2> SUFFICES ASSUME Step PROVE Kept
    OBVIOUS
  <2>1. CASE Alter \/ RebuildSessions \/ Create \/ Index
    BY <2>1 DEF Alter, RebuildSessions, Create, Index
  <2>2. CASE RebuildTables \/ DropMirror
    BY <2>2 DEF RebuildTables, DropMirror, Mirror, Retired, RetiredColumns
  <2>3. CASE Start \/ Convert \/ Created \/ Unlock \/ Repair \/ Purge \/ Identity \/ Populate
    BY <2>3 DEF Start, Convert, Created, Unlock, Repair, Purge, Identity, Populate
  <2>4. CASE Finalize
    BY <2>4 DEF Finalize
  <2> QED BY <2>1, <2>2, <2>3, <2>4 DEF Step
<1>2. Crash \/ UNCHANGED vars => Kept
  BY DEF Crash, vars
<1>3. [Next]_vars => Kept
  BY <1>1, <1>2 DEF Next
<1> QED BY <1>3, PTL DEF Spec, SourcesUntilPublished

-----------------------------------------------------------------------------
(* The event is written once, with the version, and by then nothing is left *)
(* that would make a later attempt write it again.                          *)
OneEvent == Len(audit) <= 1 /\ (audit # <<>> => Published)

Announced ==
    /\ Published
    /\ RetiredColumns \cap schema = {}
    /\ pc # "finalize"
    /\ pc \in {"down", "up"} \/ found = SCHEMA_VERSION

EventInv ==
    /\ missing \subseteq 1..Len(Creation)
    /\ audit # <<>> => Len(audit) = 1 /\ Announced

(* A database that was announced has no final steps left. *)
LEMMA NothingToFinish ==
    ASSUME RetiredColumns \cap schema = {}, NEW l
    PROVE  "finalize" \notin Due(l, SCHEMA_VERSION)
<1>1. FinalSteps(SCHEMA_VERSION) = {}
  BY UpgradeAssumption DEF FinalSteps, Older, SCHEMA_VERSION
<1>2. "finalize" \notin CredentialSteps(SCHEMA_VERSION)
  BY DEF CredentialSteps
<1> QED BY <1>1, <1>2 DEF Due

(* What a step leaves alone, of what the invariant is about. *)
LEMMA OrdinaryStep ==
    ASSUME EventInv, NEW i \in Nat,
           pc \notin {"down", "up"},
           pc' = After(i, Due(legacy, found)),
           UNCHANGED <<audit, version, found>>,
           missing' \subseteq 1..Len(Creation),
           RetiredColumns \cap schema' \subseteq schema
    PROVE  EventInv'
<1>1. CASE audit = <<>>
  BY <1>1 DEF EventInv
<1>2. CASE audit # <<>> /\ Len(audit) = 1 /\ Announced
  <2>1. "finalize" \notin Due(legacy, found)
    BY <1>2, NothingToFinish DEF Announced
  <2>2. pc' # "finalize"
    BY <2>1, AfterIsDue
  <2> QED BY <1>2, <2>2 DEF EventInv, Announced, Published
<1> QED BY <1>1, <1>2 DEF EventInv

(* What create_all makes is no retired column. *)
LEMMA NothingRetiredMade ==
    ASSUME NEW i \in 1..Len(Creation)
    PROVE  RetiredColumns \cap ({Creation[i]} \cup ColumnsOf(Creation[i])) = {}
<1>1. Creation[i] \notin RetiredColumns
  BY DEF Creation, RetiredColumns
<1>2. ColumnsOf(Creation[i]) \subseteq {"public_id", "toilet_id", "autoincrement", "csrf_token"}
  BY DEF ColumnsOf
<1> QED BY <1>1, <1>2 DEF RetiredColumns

LEMMA StepKeepsEvent ==
    ASSUME EventInv, Step
    PROVE  EventInv'
<1> DEFINE names == {Program[i] : i \in 1..Len(Program)}
<1>1. {"alter", "convert", "unname", "sessions", "create", "unlock", "repair",
       "rebuild", "purge", "identity", "index", "populate", "mirror", "finalize"} \subseteq names
  <2>1. Len(Program) = 14
    BY DEF Program
  <2>2. /\ Program[1] = "alter" /\ Program[2] = "convert" /\ Program[3] = "unname"
        /\ Program[4] = "sessions" /\ Program[5] = "create" /\ Program[6] = "unlock"
        /\ Program[7] = "repair" /\ Program[8] = "rebuild" /\ Program[9] = "purge"
        /\ Program[10] = "identity" /\ Program[11] = "index" /\ Program[12] = "populate"
        /\ Program[13] = "mirror" /\ Program[14] = "finalize"
    BY DEF Program
  <2> QED BY <2>1, <2>2
<1>2. /\ Len(Program) = 14
      /\ \A s \in names : Position(s) \in Nat
  BY PositionOf DEF Program
<1> HIDE DEF names
<1>3. CASE Start
  <2>1. /\ pc = "down" /\ found' = version /\ UNCHANGED <<schema, version, audit>>
        /\ pc' = After(0, Due(LooksLegacy, version))
        /\ missing' \subseteq 1..Len(Creation)
    BY <1>3 DEF Start
  <2>2. CASE audit = <<>>
    BY <2>1, <2>2 DEF EventInv
  <2>3. CASE audit # <<>> /\ Len(audit) = 1 /\ Announced
    <3>1. version = SCHEMA_VERSION /\ "finalize" \notin Due(LooksLegacy, version)
      BY <2>3, NothingToFinish DEF Announced, Published
    <3>2. pc' # "finalize"
      BY <2>1, <3>1, AfterIsDue
    <3> QED BY <2>1, <2>3, <3>1, <3>2 DEF EventInv, Announced, Published
  <2> QED BY <2>2, <2>3 DEF EventInv
<1>4. CASE Alter
  <2>1. CASE {"public_id", "toilet_id"} \ schema # {}
    <3>1. /\ UNCHANGED <<pc, found, missing, audit, version>>
          /\ RetiredColumns \cap schema' \subseteq schema
      BY <1>4, <2>1 DEF Alter, attemptVars, RetiredColumns
    <3> QED BY <3>1 DEF EventInv, Announced, Published
  <2>2. CASE {"public_id", "toilet_id"} \ schema = {}
    <3>1. pc = "alter" /\ Proceed /\ UNCHANGED <<audit, version, schema>>
      BY <1>4, <2>2 DEF Alter
    <3> QED BY <1>1, <1>2, <3>1, OrdinaryStep DEF Proceed, attemptVars, EventInv
  <2> QED BY <2>1, <2>2
<1>5. CASE Create
  <2>1. /\ pc = "create" /\ missing # {}
        /\ schema' = schema \cup {Creation[Least(missing)]} \cup ColumnsOf(Creation[Least(missing)])
        /\ missing' = missing \ {Least(missing)}
        /\ UNCHANGED <<version, audit, pc, found>>
    BY <1>5 DEF Create
  <2>2. Least(missing) \in 1..Len(Creation)
    <3>1. missing \in SUBSET Nat
      BY DEF EventInv, Creation
    <3> QED BY <2>1, <3>1, LeastIsIn DEF EventInv
  <2>3. RetiredColumns \cap schema' \subseteq schema
    BY <2>1, <2>2, NothingRetiredMade
  <2> QED BY <2>1, <2>3 DEF EventInv, Announced, Published
<1>6. CASE RebuildTables \/ RebuildSessions \/ DropMirror \/ Index
  <2>1. /\ pc \in names \ {"finalize"} /\ Proceed /\ UNCHANGED <<audit, version>>
        /\ RetiredColumns \cap schema' \subseteq schema
    BY <1>1, <1>6 DEF RebuildTables, RebuildSessions, DropMirror, Index, RetiredColumns
  <2>2. pc \notin {"down", "up"}
    BY <1>6 DEF RebuildTables, RebuildSessions, DropMirror, Index
  <2> QED BY <1>2, <2>1, <2>2, OrdinaryStep DEF Proceed, attemptVars, EventInv
<1>7. CASE Convert \/ Created \/ Unlock \/ Repair \/ Purge \/ Identity \/ Populate
  <2>1. pc \in names /\ pc \notin {"down", "up"} /\ Proceed /\ UNCHANGED <<schema, audit, version>>
    BY <1>1, <1>7 DEF Convert, Created, Unlock, Repair, Purge, Identity, Populate
  <2> QED BY <1>2, <2>1, OrdinaryStep DEF Proceed, attemptVars, EventInv
<1>8. CASE Finalize
  <2>1. /\ pc = "finalize" /\ Proceed /\ version' = SCHEMA_VERSION
        /\ RetiredColumns \cap schema' = {}
        /\ audit' \in {audit, Append(audit, Details)}
    BY <1>8 DEF Finalize, Retired, RetiredColumns
  <2>2. audit = <<>>
    BY <2>1 DEF EventInv, Announced
  <2>3. audit' = <<>> \/ Len(audit') = 1
    BY <2>1, <2>2
  <2>4. pc' = "up"
    BY <1>2, <2>1, PositionOf, AfterIsDue DEF Proceed
  <2> QED BY <2>1, <2>3, <2>4 DEF EventInv, Announced, Published, Proceed, attemptVars
<1> QED BY <1>3, <1>4, <1>5, <1>6, <1>7, <1>8 DEF Step

(* However often the upgrade is interrupted and started again, it writes   *)
(* one event at most, and writes it together with the version.             *)
THEOREM OneEventAtMost == Spec => []OneEvent
<1>1. Init => EventInv
  BY DEF Init, EventInv
<1>2. EventInv /\ [Next]_vars => EventInv'
  <2>1. ASSUME EventInv, Crash PROVE EventInv'
    BY <2>1 DEF Crash, EventInv, Announced, Published
  <2>2. ASSUME EventInv, UNCHANGED vars PROVE EventInv'
    BY <2>2 DEF vars, attemptVars, EventInv, Announced, Published
  <2> QED BY <2>1, <2>2, StepKeepsEvent DEF Next
<1>3. EventInv => OneEvent
  <2> SUFFICES ASSUME EventInv PROVE OneEvent
    OBVIOUS
  <2>1. CASE audit = <<>>
    BY <2>1 DEF OneEvent
  <2>2. CASE audit # <<>>
    <3>1. Len(audit) = 1 /\ Published
      BY <2>2 DEF EventInv, Announced
    <3> QED BY <3>1 DEF OneEvent
  <2> QED BY <2>1, <2>2
<1> QED BY <1>1, <1>2, <1>3, PTL DEF Spec

-----------------------------------------------------------------------------
(* Where an attempt is.                                                    *)

LEMMA ProgramIs ==
    /\ Len(Program) = 14
    /\ Program[1] = "alter" /\ Program[2] = "convert" /\ Program[3] = "unname"
    /\ Program[4] = "sessions" /\ Program[5] = "create" /\ Program[6] = "unlock"
    /\ Program[7] = "repair" /\ Program[8] = "rebuild" /\ Program[9] = "purge"
    /\ Program[10] = "identity" /\ Program[11] = "index" /\ Program[12] = "populate"
    /\ Program[13] = "mirror" /\ Program[14] = "finalize"
BY DEF Program

Names == {Program[i] : i \in 1..Len(Program)}

LEMMA NamesAre ==
    Names = {"alter", "convert", "unname", "sessions", "create", "unlock", "repair",
             "rebuild", "purge", "identity", "index", "populate", "mirror", "finalize"}
<1>1. {"alter", "convert", "unname", "sessions", "create", "unlock", "repair",
       "rebuild", "purge", "identity", "index", "populate", "mirror", "finalize"} \subseteq Names
  BY ProgramIs DEF Names
<1>2. ASSUME NEW i \in 1..14
      PROVE  Program[i] \in {"alter", "convert", "unname", "sessions", "create", "unlock",
             "repair", "rebuild", "purge", "identity", "index", "populate", "mirror", "finalize"}
  <2>1. \/ i = 1 \/ i = 2 \/ i = 3 \/ i = 4 \/ i = 5 \/ i = 6 \/ i = 7 \/ i = 8 \/ i = 9
        \/ i = 10 \/ i = 11 \/ i = 12 \/ i = 13 \/ i = 14
    OBVIOUS
  <2> QED BY <2>1, ProgramIs
<1> QED BY <1>1, <1>2, ProgramIs DEF Names

LEMMA Places ==
    /\ \A i \in 1..14 : Position(Program[i]) = i
    /\ \A s \in Names : Position(s) \in 1..14 /\ Program[Position(s)] = s
<1>1. ASSUME NEW i \in 1..14, NEW j \in 1..14, Program[i] = Program[j]
      PROVE  i = j
  BY <1>1, ProgramIs
<1>2. ASSUME NEW i \in 1..14
      PROVE  Position(Program[i]) = i
  BY <1>1, ProgramIs DEF Position
<1> QED BY <1>2, ProgramIs DEF Names

(* No step that is due is passed. *)
LEMMA AfterPassesNone ==
    ASSUME NEW i \in Nat, NEW due, NEW n \in 1..14, Program[n] \in due, i < n
    PROVE  After(i, due) \in Names /\ Position(After(i, due)) <= n
<1> DEFINE rest == {j \in (i + 1)..Len(Program) : Program[j] \in due}
<1>1. rest \in SUBSET Nat /\ n \in rest /\ rest \subseteq 1..14
  BY ProgramIs
<1>2. After(i, due) = Program[Least(rest)]
  BY <1>1 DEF After
<1> HIDE DEF rest
<1>3. Least(rest) \in 1..14 /\ Least(rest) <= n
  BY <1>1, LeastIsIn
<1> QED BY <1>2, <1>3, Places, ProgramIs DEF Names

LEMMA AfterIsNamed ==
    ASSUME NEW i \in Nat, NEW due
    PROVE  After(i, due) = "up" \/ After(i, due) \in Names \cap due
<1> DEFINE rest == {j \in (i + 1)..Len(Program) : Program[j] \in due}
<1>1. rest \in SUBSET Nat /\ rest \subseteq 1..14
  BY ProgramIs
<1>2. After(i, due) = IF rest = {} THEN "up" ELSE Program[Least(rest)]
  BY DEF After
<1>3. \A j \in rest : Program[j] \in Names \cap due
  BY <1>1, ProgramIs DEF Names
<1> HIDE DEF rest
<1> QED BY <1>1, <1>2, <1>3, LeastIsIn

(* The attempt is past its n-th step, whether that was due or not. *)
Past(n) == pc = "up" \/ (pc \in Names /\ Position(pc) > n)

-----------------------------------------------------------------------------
(* The databases the process may find.                                     *)

LEMMA ThreeKinds ==
    ASSUME origin \in Origins
    PROVE  /\ Prototype => PrototypeFile(origin)
           /\ origin.version = None /\ ~Prototype => EmptyFile(origin)
           /\ origin.version # None => VersionFile(origin) /\ ~Prototype
           /\ EmptyFile(origin) \/ PrototypeFile(origin) \/ VersionFile(origin)
BY UpgradeAssumption DEF EmptyFile, PrototypeFile, VersionFile, Prototype, SCHEMA_VERSION

(* What a step or a crash does to the schema: of what the program looks at, *)
(* nothing comes that is retired and nothing retired goes before the end.  *)
LEMMA SchemaMoves ==
    ASSUME Next, missing \subseteq 1..Len(Creation)
    PROVE  /\ version' = version \/ (version' = SCHEMA_VERSION /\ pc = "finalize")
           /\ schema \ (Retired \cup {"unique_name", "user_current_classes"}) \subseteq schema'
           /\ schema' \cap (Retired \cup {"requests.toilet"}) \subseteq schema
           /\ version' = version /\ version # SCHEMA_VERSION =>
                 schema \cap Retired \subseteq schema'
           /\ schema \subseteq Elements => schema' \subseteq Elements
           /\ missing' \subseteq 1..Len(Creation)
<1> DEFINE made == {"public_id", "toilet_id", "autoincrement", "csrf_token",
                    "uq_requests_open_user_type", "ix_users_username"}
<1>1. /\ made \subseteq Elements
      /\ \A i \in 1..Len(Creation) : Creation[i] \in Elements
      /\ \A i \in 1..Len(Creation) : Creation[i] \notin Retired \cup {"requests.toilet"}
  <2>1. /\ Len(Creation) = 8 /\ Creation[1] = "toilets" /\ Creation[2] = "users"
        /\ Creation[3] = "ix_users_username" /\ Creation[4] = "classes"
        /\ Creation[5] = "sessions" /\ Creation[6] = "requests"
        /\ Creation[7] = "uq_requests_open_user_type" /\ Creation[8] = "relations"
    BY DEF Creation
  <2>2. \A i \in 1..Len(Creation) : Creation[i] \in Elements
    BY DEF Elements
  <2>3. made \subseteq Elements
    BY <2>1, <2>2 DEF Elements
  <2>4. \A i \in 1..8 : Creation[i] \notin Retired \cup {"requests.toilet"}
    BY <2>1 DEF Retired, RetiredColumns
  <2> QED BY <2>1, <2>2, <2>3, <2>4
<1>2. made \cap (Retired \cup {"requests.toilet"}) = {}
  BY DEF Retired, RetiredColumns
<1> HIDE DEF made
<1>3. CASE Start
  BY <1>3 DEF Start
<1>4. CASE Alter
  <2>1. \/ schema' = schema
        \/ \E e \in {"public_id", "toilet_id"} : schema' = schema \cup {e}
    BY <1>4 DEF Alter
  <2>2. {"public_id", "toilet_id"} \subseteq made
    BY DEF made
  <2>3. version' = version /\ missing' = missing
    BY <1>4 DEF Alter, Proceed, attemptVars
  <2> QED BY <1>1, <1>2, <2>1, <2>2, <2>3
<1>5. CASE RebuildTables \/ RebuildSessions \/ Index \/ DropMirror
  <2>1. /\ schema' \subseteq schema \cup made
        /\ schema \ {"unique_name", "user_current_classes"} \subseteq schema'
        /\ version' = version /\ missing' = missing
    BY <1>5 DEF RebuildTables, RebuildSessions, Index, DropMirror, Mirror, Proceed,
                attemptVars, made
  <2>2. {"unique_name", "user_current_classes"} \cap Retired = {}
    BY DEF Retired, RetiredColumns
  <2> QED BY <1>1, <1>2, <2>1, <2>2
<1>6. CASE Create
  <2>1. /\ missing # {} /\ version' = version /\ missing' \subseteq missing
        /\ schema' = schema \cup {Creation[Least(missing)]} \cup ColumnsOf(Creation[Least(missing)])
    BY <1>6 DEF Create
  <2>2. Least(missing) \in 1..Len(Creation)
    <3>1. missing \in SUBSET Nat
      BY DEF Creation
    <3> QED BY <2>1, <3>1, LeastIsIn
  <2>3. ColumnsOf(Creation[Least(missing)]) \subseteq made
    BY DEF ColumnsOf, made
  <2> QED BY <1>1, <1>2, <2>1, <2>2, <2>3
<1>7. CASE Convert \/ Created \/ Unlock \/ Repair \/ Purge \/ Identity \/ Populate
  BY <1>7 DEF Convert, Created, Unlock, Repair, Purge, Identity, Populate, Proceed, attemptVars
<1>8. CASE Finalize
  <2>1. /\ version' = SCHEMA_VERSION /\ pc = "finalize" /\ missing' = missing
        /\ schema \ Retired \subseteq schema' /\ schema' \subseteq (schema \ Retired) \cup made
    BY <1>8 DEF Finalize, Proceed, attemptVars, made
  <2> QED BY <1>1, <1>2, <2>1
<1>9. CASE Crash
  BY <1>9 DEF Crash
<1> QED BY <1>3, <1>4, <1>5, <1>6, <1>7, <1>8, <1>9 DEF Next, Step

-----------------------------------------------------------------------------
(* An attempt finds what is there, and does what is due for it; it finds a  *)
(* prototype as long as no version is published.                           *)
AttemptInv ==
    /\ origin \in Origins
    /\ schema \subseteq Elements /\ missing \subseteq 1..Len(Creation)
    /\ crashes \in 0..CrashLimit /\ legacy \in BOOLEAN
    /\ found \in 1..SCHEMA_VERSION \cup {None}
    /\ version = origin.version \/ Published
    /\ ~Published =>
          /\ schema \cap Retired = origin.schema \cap Retired
          /\ "requests.toilet" \in schema <=> "requests.toilet" \in origin.schema
          /\ "classes" \in origin.schema => "classes" \in schema
    /\ pc \in Names \cup {"down", "up"}
    /\ pc \in Names =>
          /\ found = version /\ (legacy => version = None)
          /\ pc \in Due(legacy, found) \cup {"finalize"}
    /\ Prototype /\ ~Published /\ pc # "down" => legacy

(* What is due, of the steps before the last. *)
LEMMA DueSteps ==
    ASSUME NEW l, NEW v
    PROVE  /\ \A s \in {"alter", "convert", "unname", "sessions", "populate"} :
                 s \in Due(l, v) <=> l
           /\ \A s \in {"unlock", "repair"} : s \in Due(l, v) <=> v # None /\ v < 2
           /\ "purge" \in Due(l, v) <=> Older(v, 3)
           /\ "identity" \in Due(l, v) <=> Older(v, 4)
BY DEF Due, CredentialSteps, FinalSteps

(* Nothing but the start of an attempt, and its last step, changes what is  *)
(* due: the attempt goes on, starts, waits or is over.                     *)
LEMMA Kinds ==
    ASSUME Next, pc \in Names \cup {"down", "up"}
    PROVE  \/ Start
           \/ pc \in {"alter", "create"} /\ UNCHANGED <<pc, legacy, found, version>>
           \/ /\ pc \in Names /\ pc' = After(Position(pc), Due(legacy, found))
              /\ UNCHANGED <<legacy, found>>
           \/ pc' = "down" /\ legacy' = FALSE /\ found' = None /\ version' = version
<1>1. CASE Alter
  BY <1>1, NamesAre DEF Alter, Proceed, attemptVars
<1>2. CASE Create
  BY <1>2 DEF Create
<1>3. CASE \/ Convert \/ RebuildTables \/ RebuildSessions \/ Created \/ Unlock \/ Repair
           \/ Purge \/ Identity \/ Index \/ Populate \/ DropMirror \/ Finalize
  BY <1>3, NamesAre DEF Convert, RebuildTables, RebuildSessions, Created, Unlock, Repair,
     Purge, Identity, Index, Populate, DropMirror, Finalize, Proceed, attemptVars
<1>4. CASE Crash
  BY <1>4 DEF Crash
<1> QED BY <1>1, <1>2, <1>3, <1>4 DEF Next, Step

(* An attempt gets past a step by taking it, or because it was not due. *)
LEMMA PastStep ==
    ASSUME AttemptInv, Next, NEW n \in 1..14, Past(n)'
    PROVE  Past(n) \/ pc = Program[n] \/ Program[n] \notin Due(legacy', found')
<1>1. "down" \notin Names /\ "up" \notin Names
  BY NamesAre
<1>2. CASE Start
  <2>1. /\ pc' = After(0, Due(LooksLegacy, version))
        /\ legacy' = LooksLegacy /\ found' = version
    BY <1>2 DEF Start
  <2>2. CASE Program[n] \in Due(LooksLegacy, version)
    <3>1. After(0, Due(LooksLegacy, version)) \in Names
          /\ Position(After(0, Due(LooksLegacy, version))) <= n
      BY <2>2, AfterPassesNone
    <3>2. Position(pc') \in 1..14 /\ Position(pc') <= n /\ pc' \in Names
      BY <2>1, <3>1, Places
    <3> QED BY <1>1, <3>2 DEF Past, Names, Position
  <2> QED BY <2>1, <2>2
<1>3. CASE UNCHANGED pc
  BY <1>3 DEF Past, Names, Position
<1>4. CASE /\ pc \in Names /\ pc' = After(Position(pc), Due(legacy, found))
           /\ UNCHANGED <<legacy, found>>
  <2>1. Position(pc) \in 1..14 /\ Program[Position(pc)] = pc
    BY <1>4, Places
  <2>2. CASE Position(pc) > n
    BY <1>4, <2>2 DEF Past
  <2>3. CASE Position(pc) = n
    BY <2>1, <2>3
  <2>4. CASE Position(pc) < n /\ Program[n] \in Due(legacy, found)
    <3>1. /\ After(Position(pc), Due(legacy, found)) \in Names
          /\ Position(After(Position(pc), Due(legacy, found))) <= n
      BY <2>1, <2>4, AfterPassesNone
    <3>2. Position(pc') \in 1..14 /\ Position(pc') <= n /\ pc' \in Names
      BY <1>4, <3>1, Places
    <3> QED BY <1>1, <3>2 DEF Past, Names, Position
  <2> QED BY <1>4, <2>1, <2>2, <2>3, <2>4
<1>5. CASE pc' = "down"
  BY <1>1, <1>5 DEF Past, Names
<1> QED BY <1>2, <1>3, <1>4, <1>5, Kinds DEF AttemptInv

LEMMA AttemptStep ==
    ASSUME AttemptInv, Next
    PROVE  AttemptInv'
<1>1. /\ version' = version \/ (version' = SCHEMA_VERSION /\ pc = "finalize")
      /\ schema \ (Retired \cup {"unique_name", "user_current_classes"}) \subseteq schema'
      /\ schema' \cap (Retired \cup {"requests.toilet"}) \subseteq schema
      /\ version' = version /\ version # SCHEMA_VERSION => schema \cap Retired \subseteq schema'
      /\ schema' \subseteq Elements
      /\ missing' \subseteq 1..Len(Creation)
  BY SchemaMoves DEF AttemptInv
<1>2. origin' = origin
  BY DEF Next, Step, Start, Alter, Convert, RebuildTables, RebuildSessions, Create, Created,
     Unlock, Repair, Purge, Identity, Index, Populate, DropMirror, Finalize, Crash, Proceed
<1>3. version' = origin'.version \/ Published'
  BY <1>1, <1>2 DEF AttemptInv, Published
<1>4. ASSUME ~Published'
      PROVE  /\ ~Published /\ version' = version
             /\ schema' \cap Retired = origin.schema \cap Retired
             /\ "requests.toilet" \in schema' <=> "requests.toilet" \in origin.schema
             /\ "classes" \in origin.schema => "classes" \in schema'
  <2>1. version' = version /\ ~Published
    BY <1>1, <1>4 DEF Published
  <2>2. {"requests.toilet", "classes"} \cap
            (Retired \cup {"unique_name", "user_current_classes"}) = {}
    BY DEF Retired, RetiredColumns
  <2> QED BY <1>1, <2>1, <2>2 DEF AttemptInv, Published
<1>5. version \in 1..SCHEMA_VERSION \cup {None}
  <2>1. origin.version \in 1..SCHEMA_VERSION \cup {None}
    BY ThreeKinds DEF AttemptInv, EmptyFile, PrototypeFile, VersionFile
  <2> QED BY <2>1 DEF AttemptInv, Published, SCHEMA_VERSION
<1>6. crashes' \in 0..CrashLimit /\ legacy' \in BOOLEAN /\ found' \in 1..SCHEMA_VERSION \cup {None}
  <2>1. crashes' \in 0..CrashLimit
    BY UpgradeAssumption DEF AttemptInv, Next, Step, Start, Alter, Convert, RebuildTables,
       RebuildSessions, Create, Created, Unlock, Repair, Purge, Identity, Index, Populate,
       DropMirror, Finalize, Crash, Proceed
  <2>2. CASE Start
    BY <1>5, <2>1, <2>2 DEF Start, LooksLegacy
  <2> QED BY <2>1, <2>2, Kinds DEF AttemptInv
<1>7. /\ pc' \in Names \cup {"down", "up"}
      /\ pc' \in Names =>
            /\ found' = version' /\ (legacy' => version' = None)
            /\ pc' \in Due(legacy, found)' \cup {"finalize"}
      /\ Prototype /\ ~Published' /\ pc' # "down" => legacy'
  <2>0. "down" \notin Names /\ "up" \notin Names
    BY NamesAre
  <2>1. CASE Start
    <3>1. /\ pc' = After(0, Due(LooksLegacy, version)) /\ UNCHANGED <<schema, version>>
          /\ legacy' = LooksLegacy /\ found' = version
      BY <2>1 DEF Start
    <3>2. pc' = "up" \/ pc' \in Names \cap Due(LooksLegacy, version)
      BY <3>1, AfterIsNamed
    <3>3. Due(legacy, found)' = Due(LooksLegacy, version)
      BY <3>1 DEF Due, CredentialSteps, FinalSteps
    <3>4. LooksLegacy => version = None
      BY DEF LooksLegacy
    <3>5. ASSUME Prototype, ~Published'
          PROVE  LooksLegacy
      <4>1. PrototypeFile(origin)
        BY <3>5, ThreeKinds DEF AttemptInv
      <4>2. ~Published /\ version = None
        BY <3>1, <3>5, <4>1 DEF AttemptInv, Published, PrototypeFile
      <4>3. "class_toilets" \in schema /\ "classes" \in schema
        BY <4>1, <4>2 DEF AttemptInv, PrototypeFile, Retired
      <4> QED BY <4>2, <4>3 DEF LooksLegacy
    <3> QED BY <2>0, <3>1, <3>2, <3>3, <3>4, <3>5
  <2>2. CASE pc \in {"alter", "create"} /\ UNCHANGED <<pc, legacy, found, version>>
    <3>1. pc \in Names /\ pc # "finalize"
      BY <2>2, NamesAre
    <3>2. pc \in Due(legacy, found)
      BY <3>1 DEF AttemptInv
    <3>3. pc' \in Due(legacy, found)'
      BY <2>2, <3>2 DEF Due, CredentialSteps, FinalSteps
    <3> QED BY <2>2, <3>1, <3>3 DEF AttemptInv, Published
  <2>3. CASE /\ pc \in Names /\ pc' = After(Position(pc), Due(legacy, found))
             /\ UNCHANGED <<legacy, found>>
    <3>1. Position(pc) \in 1..14 /\ Program[Position(pc)] = pc
      BY <2>3, Places
    <3>2. pc' = "up" \/ pc' \in Names \cap Due(legacy, found)
      BY <2>3, <3>1, AfterIsNamed
    <3>3. CASE pc = "finalize"
      <4>1. Position(pc) = 14
        BY <3>3, Places, ProgramIs
      <4>2. pc' = "up"
        BY <2>3, <4>1, AfterIsDue, ProgramIs
      <4> QED BY <1>1, <2>0, <2>3, <4>2 DEF AttemptInv, Published
    <3>4. CASE pc # "finalize"
      <4>1. version' = version
        BY <1>1, <3>4
      <4>2. ASSUME pc' \in Due(legacy, found), pc' # "finalize"
            PROVE  pc' \in Due(legacy, found)'
        BY <2>3, <4>2 DEF Due, CredentialSteps, FinalSteps
      <4> QED BY <2>0, <2>3, <3>2, <4>1, <4>2 DEF AttemptInv, Published
    <3> QED BY <3>3, <3>4
  <2>4. CASE pc' = "down"
    BY <2>0, <2>4
  <2> QED BY <2>1, <2>2, <2>3, <2>4, Kinds DEF AttemptInv
<1> QED BY <1>1, <1>2, <1>3, <1>4, <1>6, <1>7 DEF AttemptInv, Prototype, Published, Names, SCHEMA_VERSION

LEMMA AttemptHolds == Spec => []AttemptInv
<1>1. Init => AttemptInv
  <2> SUFFICES ASSUME Init PROVE AttemptInv
    OBVIOUS
  <2>1. pc = "down" /\ "down" \notin Names
    BY NamesAre DEF Init
  <2>2. /\ origin \in Origins /\ schema = origin.schema /\ version = origin.version
        /\ crashes = 0 /\ legacy = FALSE /\ found = None /\ missing = {}
    BY DEF Init
  <2>3. schema \subseteq Elements /\ crashes \in 0..CrashLimit
    BY <2>2, UpgradeAssumption
  <2> QED BY <2>1, <2>2, <2>3, ThreeKinds DEF AttemptInv
<1>2. AttemptInv /\ [Next]_vars => AttemptInv'
  <2>1. ASSUME AttemptInv, UNCHANGED vars
        PROVE  AttemptInv'
    BY <2>1 DEF vars, attemptVars, AttemptInv, Published, Prototype, Due, CredentialSteps,
       FinalSteps, Names
  <2> QED BY <2>1, AttemptStep
<1> QED BY <1>1, <1>2, PTL DEF Spec
-----------------------------------------------------------------------------
(* Credentials.                                                            *)

Lasting == {"cms", "operator"}

(* The sessions that may last are those of the original database; what the *)
(* upgrade makes of a table without tokens for forms were no such sessions; *)
(* and no other kind is left once they were purged, or if they had been.   *)
SessionInv ==
    /\ sessions \subseteq SessionKinds
    /\ sessions \cap Lasting = origin.sessions \cap Lasting
    /\ version = None /\ "csrf_token" \notin schema => sessions \subseteq {"bare"}
    /\ Past(9) \/ Published \/ ~Older(origin.version, 3) => sessions \subseteq Lasting

(* Nobody has an account but for the password he had, and everybody does    *)
(* once the accounts were made.                                            *)
OperatorInv ==
    /\ operators \in [Users -> {"admin", "proctor", None}]
    /\ \A u \in Users : operators[u] \in {None, origin.secret[u]}
    /\ (Past(10) \/ Published) /\ Older(origin.version, 4) /\ "password_hash" \in origin.schema =>
          \A u \in Users : operators[u] = origin.secret[u]

(* How a step of an attempt that is not past its n-th step gets past it.   *)
LEMMA DuePassed ==
    ASSUME AttemptInv, Next, NEW n \in 1..13, Past(n)' \/ Published', ~Past(n), ~Published,
           pc # Program[n]
    PROVE  Past(n)' /\ Program[n] \notin Due(legacy', found') /\ found' = origin.version
           /\ version' = version /\ version = origin.version /\ (legacy' = legacy \/ pc = "down")
<1>1. pc # "finalize" \/ Past(n)
  <2>1. Position("finalize") = 14 /\ "finalize" \in Names
    BY Places, ProgramIs, NamesAre
  <2> QED BY <2>1 DEF Past
<1>2. version' = version /\ ~Published'
  BY <1>1, SchemaMoves DEF AttemptInv, Published
<1>3. Past(n)' /\ Program[n] \notin Due(legacy', found')
  BY <1>2, PastStep
<1>4. pc' # "down"
  BY <1>3, NamesAre DEF Past, Names
<1>5. version = origin.version
  BY DEF AttemptInv
<1>6. CASE Start
  BY <1>2, <1>3, <1>5, <1>6 DEF Start
<1>7. CASE pc \in {"alter", "create"} /\ UNCHANGED <<pc, legacy, found, version>>
  BY <1>3, <1>7 DEF Past, Names, Position
<1>8. CASE pc \in Names /\ UNCHANGED <<legacy, found>>
  BY <1>2, <1>3, <1>5, <1>8 DEF AttemptInv
<1> QED BY <1>4, <1>6, <1>7, <1>8, Kinds DEF AttemptInv

(* The steps that are taken only on a database of their kind. *)
LEMMA StepsOfAKind ==
    ASSUME AttemptInv
    PROVE  /\ pc \in {"alter", "convert", "unname", "sessions", "populate"} =>
                 legacy /\ version = None /\ ~Published /\ origin.version = None
           /\ pc \in {"unlock", "repair"} =>
                 version = 1 /\ ~Published /\ origin.version = 1
           /\ pc = "purge" => Older(version, 3) /\ ~Published /\ version = origin.version
           /\ pc = "identity" => Older(version, 4) /\ ~Published /\ version = origin.version
<1>1. None \notin Nat
  BY UpgradeAssumption
<1>2. ASSUME pc \in {"alter", "convert", "unname", "sessions", "populate"}
      PROVE  legacy /\ version = None
  <2>1. pc \in Names /\ pc \in Due(legacy, found) \cup {"finalize"}
    BY <1>2, NamesAre DEF AttemptInv
  <2> QED BY <1>2, <2>1, DueSteps DEF AttemptInv
<1>3. ASSUME pc \in {"unlock", "repair"}
      PROVE  version # None /\ version < 2
  <2>1. pc \in Names /\ pc \in Due(legacy, found) \cup {"finalize"}
    BY <1>3, NamesAre DEF AttemptInv
  <2> QED BY <1>3, <2>1, DueSteps DEF AttemptInv
<1>4. ASSUME pc = "purge"
      PROVE  Older(version, 3)
  <2>1. pc \in Names /\ pc \in Due(legacy, found) \cup {"finalize"}
    BY <1>4, NamesAre DEF AttemptInv
  <2> QED BY <1>4, <2>1, DueSteps DEF AttemptInv
<1>5. ASSUME pc = "identity"
      PROVE  Older(version, 4)
  <2>1. pc \in Names /\ pc \in Due(legacy, found) \cup {"finalize"}
    BY <1>5, NamesAre DEF AttemptInv
  <2> QED BY <1>5, <2>1, DueSteps DEF AttemptInv
<1>6. version \in 1..SCHEMA_VERSION \cup {None} /\ (version = origin.version \/ Published)
  <2>1. origin.version \in 1..SCHEMA_VERSION \cup {None}
    BY ThreeKinds DEF AttemptInv, EmptyFile, PrototypeFile, VersionFile
  <2> QED BY <2>1 DEF AttemptInv, Published, SCHEMA_VERSION
<1> QED BY <1>1, <1>2, <1>3, <1>4, <1>5, <1>6 DEF Published, Older, SCHEMA_VERSION

LEMMA OriginStays ==
    ASSUME Next
    PROVE  origin' = origin
BY DEF Next, Step, Start, Alter, Convert, RebuildTables, RebuildSessions, Create, Created,
   Unlock, Repair, Purge, Identity, Index, Populate, DropMirror, Finalize, Crash, Proceed

(* Only two steps touch the sessions, and only one the accounts. *)
LEMMA IdentityMoves ==
    ASSUME Next
    PROVE  /\ RebuildSessions \/ Purge \/ sessions' = sessions
           /\ Identity \/ operators' = operators
<1>1. CASE Start \/ Alter \/ Convert \/ RebuildTables
  BY <1>1 DEF Start, Alter, Convert, RebuildTables, identityVars
<1>2. CASE RebuildSessions
  BY <1>2 DEF RebuildSessions, Proceed
<1>3. CASE Create \/ Created \/ Unlock \/ Repair
  BY <1>3 DEF Create, Created, Unlock, Repair, identityVars
<1>4. CASE Purge
  BY <1>4 DEF Purge
<1>5. CASE Identity
  BY <1>5 DEF Identity
<1>6. CASE Index \/ Populate \/ DropMirror \/ Finalize \/ Crash
  BY <1>6 DEF Index, Populate, DropMirror, Finalize, Crash, identityVars
<1> QED BY <1>1, <1>2, <1>3, <1>4, <1>5, <1>6 DEF Next, Step

LEMMA SessionStep ==
    ASSUME AttemptInv, SessionInv, Next
    PROVE  SessionInv'
<1>1. /\ origin' = origin /\ (version' = version \/ version' = SCHEMA_VERSION)
      /\ "csrf_token" \in schema => "csrf_token" \in schema'
      /\ schema' \subseteq Elements
  <2>1. "csrf_token" \notin Retired \cup {"unique_name", "user_current_classes"}
    BY DEF Retired, RetiredColumns
  <2> QED BY <2>1, OriginStays, SchemaMoves DEF AttemptInv
<1>2. SCHEMA_VERSION # None
  BY UpgradeAssumption DEF SCHEMA_VERSION
<1>3. CASE Purge
  <2>1. sessions' = sessions \cap Lasting /\ version' = version /\ schema' = schema
    BY <1>3 DEF Purge, Lasting
  <2>2. sessions' \subseteq Lasting /\ sessions' \cap Lasting = sessions \cap Lasting
        /\ sessions' \subseteq sessions
    BY <2>1
  <2>3. version' = None /\ "csrf_token" \notin schema' => sessions' \subseteq {"bare"}
    BY <2>1, <2>2 DEF SessionInv
  <2>4. sessions' \subseteq SessionKinds /\ sessions' \cap Lasting = origin'.sessions \cap Lasting
    BY <1>1, <2>2 DEF SessionInv
  <2> QED BY <2>2, <2>3, <2>4 DEF SessionInv
<1>4. CASE RebuildSessions
  <2>1. pc = "sessions" /\ version' = version
    BY <1>4 DEF RebuildSessions
  <2>2. origin.version = None /\ version = None /\ ~Published /\ Older(origin.version, 3)
    BY <2>1, StepsOfAKind DEF Older
  <2>3. Program[4] = "sessions" /\ Program[9] = "purge" /\ Position("sessions") = 4
    BY ProgramIs, Places
  <2>4. ~Past(9)
    BY <2>1, <2>3 DEF Past
  <2>5. ~Past(9)' /\ ~Published'
    <3>1. Past(9)' \/ Published' => "purge" \notin Due(legacy', found') /\ found' = origin.version
      BY <2>1, <2>2, <2>3, <2>4, DuePassed
    <3> QED BY <2>2, <3>1, DueSteps
  <2>6. CASE "sessions" \in schema /\ "csrf_token" \notin schema
    <3>1. sessions' = {"dev" : s \in sessions} /\ "csrf_token" \in schema'
      BY <1>4, <2>6 DEF RebuildSessions
    <3>2. sessions \subseteq {"bare"}
      BY <2>2, <2>6 DEF SessionInv
    <3>3. sessions' \subseteq {"dev"} /\ sessions' \cap Lasting = {} /\ sessions \cap Lasting = {}
      BY <3>1, <3>2 DEF Lasting
    <3> QED BY <1>1, <2>2, <2>5, <3>1, <3>3 DEF SessionInv, SessionKinds
  <2>7. CASE ~("sessions" \in schema /\ "csrf_token" \notin schema)
    <3>1. sessions' = sessions
      BY <1>4, <2>7 DEF RebuildSessions
    <3> QED BY <1>1, <2>1, <2>2, <2>5, <3>1 DEF SessionInv
  <2> QED BY <2>6, <2>7
<1>5. CASE sessions' = sessions
  <2>1. sessions \subseteq Lasting \/ ~(Past(9)' \/ Published')
    <3>1. CASE Past(9) \/ Published \/ ~Older(origin.version, 3)
      BY <3>1 DEF SessionInv
    <3>2. CASE ~Past(9) /\ ~Published /\ Older(origin.version, 3) /\ pc # "purge"
      <4>1. Past(9)' \/ Published' => "purge" \notin Due(legacy', found') /\ found' = origin.version
        BY <3>2, DuePassed, ProgramIs
      <4> QED BY <3>2, <4>1, DueSteps
    <3>3. CASE pc = "purge"
      <4>1. Purge \/ Crash
        BY <3>3 DEF Next, Step, Start, Alter, Convert, RebuildTables, RebuildSessions, Create,
           Created, Unlock, Repair, Identity, Index, Populate, DropMirror, Finalize
      <4>2. CASE Purge
        BY <1>5, <4>2 DEF Purge, Lasting
      <4>3. CASE Crash
        <5>1. pc' = "down" /\ version' = version
          BY <4>3 DEF Crash
        <5>2. ~Past(9)'
          BY <5>1, NamesAre DEF Past, Names
        <5>3. ~Published'
          BY <3>3, <5>1, StepsOfAKind DEF Published
        <5> QED BY <5>2, <5>3
      <4> QED BY <4>1, <4>2, <4>3
    <3> QED BY <3>1, <3>2, <3>3
  <2> QED BY <1>1, <1>2, <1>5, <2>1 DEF SessionInv
<1> QED BY <1>3, <1>4, <1>5, IdentityMoves

LEMMA OperatorStep ==
    ASSUME AttemptInv, OperatorInv, Next
    PROVE  OperatorInv'
<1>1. origin' = origin
  BY OriginStays
<1>2. origin.secret \in [Users -> {"admin", "proctor", None}]
  BY UpgradeAssumption DEF AttemptInv
<1>3. CASE Identity
  <2>1. /\ pc = "identity"
        /\ operators' = [u \in Users |->
              IF operators[u] = None /\ "password_hash" \in schema THEN origin.secret[u]
              ELSE operators[u]]
    BY <1>3 DEF Identity
  <2>2. "password_hash" \in origin.schema => "password_hash" \in schema
    BY <2>1, StepsOfAKind DEF AttemptInv, Retired, RetiredColumns
  <2> QED BY <1>1, <1>2, <2>1, <2>2 DEF OperatorInv
<1>4. CASE operators' = operators /\ ~Identity
  <2>1. ASSUME Past(10)' \/ Published', Older(origin.version, 4),
               "password_hash" \in origin.schema
        PROVE  \A u \in Users : operators[u] = origin.secret[u]
    <3>1. CASE Past(10) \/ Published
      BY <2>1, <3>1 DEF OperatorInv
    <3>2. CASE ~Past(10) /\ ~Published /\ pc # "identity"
      <4>1. "identity" \notin Due(legacy', found') /\ found' = origin.version
        BY <2>1, <3>2, DuePassed, ProgramIs
      <4> QED BY <2>1, <4>1, DueSteps
    <3>3. CASE pc = "identity"
      <4>1. Crash
        BY <1>4, <3>3 DEF Next, Step, Start, Alter, Convert, RebuildTables, RebuildSessions,
           Create, Created, Unlock, Repair, Purge, Index, Populate, DropMirror, Finalize
      <4>2. pc' = "down" /\ version' = version
        BY <4>1 DEF Crash
      <4>3. ~Past(10)'
        BY <4>2, NamesAre DEF Past, Names
      <4>4. ~Published'
        BY <3>3, <4>2, StepsOfAKind DEF Published
      <4> QED BY <2>1, <4>3, <4>4
    <3> QED BY <3>1, <3>2, <3>3
  <2> QED BY <1>1, <1>4, <2>1 DEF OperatorInv
<1> QED BY <1>3, <1>4, IdentityMoves

LEMMA IdentityHolds == Spec => [](SessionInv /\ OperatorInv)
<1>1. Init => SessionInv /\ OperatorInv
  <2> SUFFICES ASSUME Init PROVE SessionInv /\ OperatorInv
    OBVIOUS
  <2>1. /\ origin \in Origins /\ sessions = origin.sessions /\ schema = origin.schema
        /\ version = origin.version /\ operators = [u \in Users |-> None] /\ pc = "down"
    BY DEF Init
  <2>2. ~Past(9) /\ ~Past(10)
    BY <2>1, NamesAre DEF Past
  <2>3. /\ sessions \subseteq SessionKinds
        /\ version = None => sessions \subseteq {"bare"}
        /\ ~Older(origin.version, 3) => sessions \subseteq Lasting
    BY <2>1, ThreeKinds, UpgradeAssumption
       DEF EmptyFile, PrototypeFile, VersionFile, Older, Lasting, SCHEMA_VERSION
  <2>4. Published => ~Older(origin.version, 3) /\ ~Older(origin.version, 4)
    BY <2>1, UpgradeAssumption DEF Published, Older, SCHEMA_VERSION
  <2> QED BY <2>1, <2>2, <2>3, <2>4, UpgradeAssumption DEF SessionInv, OperatorInv
<1>2. AttemptInv /\ SessionInv /\ OperatorInv /\ [Next]_vars => SessionInv' /\ OperatorInv'
  <2>1. ASSUME SessionInv, OperatorInv, UNCHANGED vars
        PROVE  SessionInv' /\ OperatorInv'
    BY <2>1 DEF vars, identityVars, SessionInv, OperatorInv, Past, Names, Position, Published
  <2> QED BY <2>1, SessionStep, OperatorStep
<1> QED BY <1>1, <1>2, AttemptHolds, PTL DEF Spec

(* Nobody's credentials of a retired kind survive the upgrade, and everyone *)
(* who had a password has an account with the same authority: for any      *)
(* users, wherever the process dies and however often.                     *)
THEOREM CredentialsAreCarried == Spec => []CredentialsCarried
<1>1. SessionInv /\ OperatorInv => CredentialsCarried
  BY DEF SessionInv, OperatorInv, CredentialsCarried, Lasting
<1> QED BY <1>1, IdentityHolds, PTL

-----------------------------------------------------------------------------
(* What the routes are, said of the original database alone: as it was     *)
(* found; with the classes' toilets chosen and the superseded requests     *)
(* cancelled; of a first version, without the locks it had too many; and   *)
(* as the published queue has them.                                        *)

FirstVersion == origin.version = 1

SourceOf(r) == IF ByName(r) THEN "legacy_name"
               ELSE IF ByClass(r) THEN "legacy_class_mapping" ELSE "legacy_fallback_all"
PrototypeLocks ==
    {l \in [request : Requests, toilet : Toilets, source : Sources] :
        l.toilet \in RouteOf(l.request) /\ l.source = SourceOf(l.request)}
KeptLocks ==
    {l \in origin.locks :
        ~(l.source = "legacy_class_mapping" /\ "legacy_name" \in SourcesOf(l.request))}

FoundRequest(r) ==
    [status |-> origin.status[r], mode |-> origin.mode[r],
     blocked |-> origin.blocked[r], by |-> None]
OpenRequest(r) ==
    [status |-> IF Superseded(r) THEN "cancelled" ELSE origin.status[r],
     mode |-> IF Prototype THEN DefaultMode(r) ELSE origin.mode[r],
     blocked |-> origin.blocked[r],
     by |-> IF Superseded(r) THEN "schema-upgrade" ELSE None]
RoutedRequest(r) ==
    [status |-> OpenRequest(r).status,
     mode |-> IF OnFallback(r) THEN "fallback_all" ELSE OpenRequest(r).mode,
     blocked |-> origin.blocked[r] \/
         (WaitsOrVisits(r) /\ origin.status[r] = "pending" /\ RouteOf(r) = {}),
     by |-> OpenRequest(r).by]
RoutedAlerts ==
    {a \in [request : Requests, code : Codes] :
        a \in origin.alerts \/ (OnFallback(a.request) /\ a.code \in ReasonsFor(a.request))}
ChosenOf(c) ==
    IF Prototype /\ ChosenToilets(c) # {} THEN Least(ChosenToilets(c)) ELSE origin.toiletOf[c]

AsFound ==
    /\ toiletOf = origin.toiletOf
    /\ request = [r \in Requests |-> FoundRequest(r)]
    /\ locks = origin.locks /\ snapshots = origin.snapshots /\ alerts = origin.alerts
Converted ==
    /\ toiletOf = [c \in Classes |-> ChosenOf(c)]
    /\ request = [r \in Requests |-> OpenRequest(r)]
    /\ locks = {} /\ snapshots = {} /\ alerts = {}
Unlocked ==
    /\ toiletOf = origin.toiletOf
    /\ request = [r \in Requests |-> FoundRequest(r)]
    /\ locks = KeptLocks /\ snapshots = origin.snapshots /\ alerts = origin.alerts
Routed ==
    /\ toiletOf = [c \in Classes |-> ChosenOf(c)]
    /\ request = [r \in Requests |-> RoutedRequest(r)]
    /\ locks = IF Prototype THEN PrototypeLocks ELSE KeptLocks
    /\ snapshots = {r \in Requests : HasClass(r)}
    /\ alerts = RoutedAlerts

(* The upgrade is never anywhere in between, and how far it is shows in     *)
(* where the attempt is and in the version.                                *)
RouteInv ==
    /\ Prototype =>
          /\ AsFound \/ Converted \/ Routed
          /\ Past(2) \/ Published => Converted \/ Routed
          /\ Past(12) \/ Published => Routed
    /\ FirstVersion =>
          /\ AsFound \/ Unlocked \/ Routed
          /\ Past(6) \/ Published => Unlocked \/ Routed
          /\ Past(7) \/ Published => Routed
    /\ ~Prototype /\ ~FirstVersion => AsFound

(* The event tells what the original database held. *)
Expected ==
    [collapsed |-> {c \in Classes : Cardinality(ChosenToilets(c)) > 1},
     cancelled |-> {r \in Requests : Superseded(r)},
     removed   |-> Retired \cap origin.schema]

-----------------------------------------------------------------------------
(* The choices of CASE, one by one. *)
LEMMA RouteIs ==
    ASSUME NEW r
    PROVE  /\ ByName(r) => RouteOf(r) = {origin.named[r]}
           /\ ~ByName(r) /\ ByClass(r) /\ WaitsOrVisits(r) =>
                 RouteOf(r) = {Least(ChosenToilets(ClassOf(r)))}
           /\ Prototype /\ ~ByName(r) /\ ~ByClass(r) /\ WaitsOrVisits(r) =>
                 RouteOf(r) = origin.toilets
           /\ Prototype /\ ~ByName(r) /\ ~WaitsOrVisits(r) => RouteOf(r) = {}
           /\ ~Prototype => RouteOf(r) = {l.toilet : l \in {k \in origin.locks : k.request = r /\
                 ~(origin.version = 1 /\ k.source = "legacy_class_mapping"
                   /\ "legacy_name" \in SourcesOf(r))}}
<1>1. (ByName(r) => Prototype) /\ (ByClass(r) => Prototype)
  BY DEF ByName, ByClass
<1>2. CASE ByName(r)
  BY <1>1, <1>2 DEF RouteOf
<1>3. CASE ~ByName(r) /\ ByClass(r) /\ WaitsOrVisits(r)
  BY <1>1, <1>3 DEF RouteOf
<1>4. CASE Prototype /\ ~ByName(r) /\ ~ByClass(r) /\ WaitsOrVisits(r)
  BY <1>1, <1>4 DEF RouteOf
<1>5. CASE Prototype /\ ~ByName(r) /\ ~WaitsOrVisits(r)
  BY <1>1, <1>5 DEF RouteOf
<1>6. CASE ~Prototype
  BY <1>1, <1>6 DEF RouteOf
<1> QED BY <1>1, <1>2, <1>3, <1>4, <1>5, <1>6

(* The original database is history, and what is said of it stays. *)
LEMMA HistoryStays ==
    ASSUME origin' = origin
    PROVE  /\ Prototype' = Prototype /\ FirstVersion' = FirstVersion
           /\ [c \in Classes |-> ChosenOf(c)]' = [c \in Classes |-> ChosenOf(c)]
           /\ [r \in Requests |-> FoundRequest(r)]' = [r \in Requests |-> FoundRequest(r)]
           /\ [r \in Requests |-> OpenRequest(r)]' = [r \in Requests |-> OpenRequest(r)]
           /\ [r \in Requests |-> RoutedRequest(r)]' = [r \in Requests |-> RoutedRequest(r)]
           /\ PrototypeLocks' = PrototypeLocks /\ KeptLocks' = KeptLocks
           /\ {r \in Requests : HasClass(r)}' = {r \in Requests : HasClass(r)}
           /\ RoutedAlerts' = RoutedAlerts
           /\ Expected' = Expected
BY DEF Prototype, FirstVersion, ChosenOf, ChosenToilets, Least, FoundRequest, OpenRequest,
   RoutedRequest, PrototypeLocks, KeptLocks, HasClass, RoutedAlerts, Expected, Superseded,
   WaitsOrVisits, OnFallback, Unresolved, ReasonsFor, RouteOf, SourceOf, SourcesOf, ByName,
   ByClass, ClassOf, DefaultMode

(* What does not touch the routes leaves them where they are. *)
LEMMA RoutesStay ==
    ASSUME UNCHANGED <<origin, toiletOf, request, locks, snapshots, alerts>>
    PROVE  /\ AsFound' = AsFound /\ Converted' = Converted
           /\ Unlocked' = Unlocked /\ Routed' = Routed
<1>1. origin' = origin
  OBVIOUS
<1>2. AsFound' = AsFound
  BY <1>1, HistoryStays DEF AsFound
<1>3. Converted' = Converted
  BY <1>1, HistoryStays DEF Converted
<1>4. Unlocked' = Unlocked
  BY <1>1, HistoryStays DEF Unlocked
<1>5. Routed' = Routed
  BY <1>1, HistoryStays DEF Routed
<1> QED BY <1>2, <1>3, <1>4, <1>5

-----------------------------------------------------------------------------
(* Convert.                                                                *)

(* Once the superseded requests are cancelled, no request has another.     *)
LEMMA NoDuplicateLeft ==
    ASSUME Prototype,
           \A r \in Requests : request[r].status = OpenRequest(r).status
    PROVE  \A r \in Requests : ~Duplicate(r)
<1> SUFFICES ASSUME NEW r \in Requests, Duplicate(r) PROVE FALSE
  OBVIOUS
<1>1. PICK q \in Requests :
         /\ q < r /\ origin.user[q] = origin.user[r] /\ origin.type[q] = origin.type[r]
         /\ IsOpen(request[q]) /\ IsOpen(request[r])
  BY DEF Duplicate
<1>2. /\ origin.status[r] \in {"pending", "active"} /\ ~Superseded(r)
      /\ origin.status[q] \in {"pending", "active"}
  BY <1>1 DEF OpenRequest, IsOpen
<1> QED BY <1>1, <1>2 DEF Superseded

LEMMA ChosenIsToilet ==
    ASSUME AttemptInv, NEW c, ChosenToilets(c) # {}
    PROVE  Least(ChosenToilets(c)) \in Toilets /\ Least(ChosenToilets(c)) # None
<1>1. ChosenToilets(c) \in SUBSET Nat /\ ChosenToilets(c) \subseteq Toilets
  BY UpgradeAssumption DEF ChosenToilets
<1> QED BY <1>1, LeastIsIn, UpgradeAssumption

LEMMA ConvertFound ==
    ASSUME AttemptInv, Prototype, "class_toilets" \in schema, AsFound, Convert
    PROVE  Converted'
<1>0. PrototypeFile(origin) /\ origin' = origin
  BY ThreeKinds, OriginStays DEF AttemptInv, Next, Step
<1>1. ASSUME NEW r \in Requests
      PROVE  Duplicate(r) <=> Superseded(r)
  <2>1. \A q \in Requests : IsOpen(request[q]) <=> origin.status[q] \in {"pending", "active"}
    BY DEF AsFound, FoundRequest, IsOpen
  <2> QED BY <2>1 DEF Duplicate, Superseded
<1>2. toiletOf' = [c \in Classes |-> ChosenOf(c)]
  <2>1. \A c \in Classes : toiletOf[c] = None /\ origin.toiletOf[c] = None
    BY <1>0 DEF AsFound, PrototypeFile
  <2> QED BY <2>1 DEF Convert, ChosenOf
<1>3. request' = [r \in Requests |-> OpenRequest(r)]
  <2>1. request' = [r \in Requests |->
           LET req == [request[r] EXCEPT !.mode = IF @ = None THEN DefaultMode(r) ELSE @]
           IN IF Duplicate(r) THEN Cancelled(req) ELSE req]
    BY DEF Convert
  <2>2. ASSUME NEW r \in Requests
        PROVE  request'[r] = OpenRequest(r)
    <3>1. request[r] = FoundRequest(r) /\ origin.mode[r] = None
      BY <1>0 DEF AsFound, PrototypeFile
    <3>2. [request[r] EXCEPT !.mode = IF @ = None THEN DefaultMode(r) ELSE @] =
             [status |-> origin.status[r], mode |-> DefaultMode(r),
              blocked |-> origin.blocked[r], by |-> None]
      BY <3>1 DEF FoundRequest
    <3> QED BY <1>1, <2>1, <3>2 DEF OpenRequest, Cancelled
  <2>3. request' = [r \in Requests |-> request'[r]]
    BY <2>1
  <2> QED BY <2>2, <2>3
<1>4. locks' = {} /\ snapshots' = {} /\ alerts' = {}
  BY <1>0 DEF Convert, AsFound, PrototypeFile
<1> QED BY <1>0, <1>2, <1>3, <1>4, HistoryStays DEF Converted

LEMMA ConvertAgain ==
    ASSUME AttemptInv, Prototype, Converted \/ Routed, Convert
    PROVE  UNCHANGED <<toiletOf, request, locks, snapshots, alerts>>
<1>0. PrototypeFile(origin)
  BY ThreeKinds DEF AttemptInv
<1>1. \A r \in Requests : request[r] \in {OpenRequest(r), RoutedRequest(r)}
  BY DEF Converted, Routed
<1>2. \A r \in Requests : request[r].status = OpenRequest(r).status /\ request[r].mode # None
  <2>1. \A r \in Requests : DefaultMode(r) # None
    BY UpgradeAssumption DEF DefaultMode, Modes
  <2> QED BY <1>1, <2>1, UpgradeAssumption DEF OpenRequest, RoutedRequest, Modes
<1>3. \A r \in Requests : ~Duplicate(r)
  BY <1>2, NoDuplicateLeft
<1>4. toiletOf = [c \in Classes |-> ChosenOf(c)]
  BY DEF Converted, Routed
<1>5. \A c \in Classes : toiletOf[c] = None => ChosenToilets(c) = {}
  BY <1>4, ChosenIsToilet DEF ChosenOf
<1>6. toiletOf' = toiletOf
  BY <1>4, <1>5 DEF Convert
<1>7. request' = request
  <2>1. request = [r \in Requests |-> request[r]]
    BY DEF Converted, Routed
  <2>2. request' = [r \in Requests |->
           [request[r] EXCEPT !.mode = IF @ = None THEN DefaultMode(r) ELSE @]]
    BY <1>3 DEF Convert
  <2>3. ASSUME NEW r \in Requests
        PROVE  [request[r] EXCEPT !.mode = IF @ = None THEN DefaultMode(r) ELSE @] = request[r]
    BY <1>1, <1>2 DEF OpenRequest, RoutedRequest
  <2> QED BY <2>1, <2>2, <2>3
<1> QED BY <1>6, <1>7 DEF Convert

(* An empty file has no request to convert and no class to choose for. *)
LEMMA ConvertNothing ==
    ASSUME AttemptInv, EmptyFile(origin), "class_toilets" \notin schema, AsFound, Convert
    PROVE  UNCHANGED <<toiletOf, request, locks, snapshots, alerts>>
<1>1. ASSUME NEW r \in Requests
      PROVE  /\ request[r] = FoundRequest(r) /\ origin.status[r] = "done"
             /\ origin.mode[r] # None
  BY DEF AsFound, EmptyFile
<1>2. ASSUME NEW r \in Requests
      PROVE  ~Duplicate(r)
  <2>1. request[r].status = "done"
    <3>1. request[r] = FoundRequest(r) /\ origin.status[r] = "done"
      BY <1>1
    <3>2. FoundRequest(r).status = origin.status[r]
      BY DEF FoundRequest
    <3> QED BY <3>1, <3>2
  <2>2. ~IsOpen(request[r])
    BY <2>1 DEF IsOpen
  <2> QED BY <2>2 DEF Duplicate
<1>3. toiletOf' = toiletOf
  <2>1. toiletOf = [c \in Classes |-> toiletOf[c]]
    BY UpgradeAssumption DEF AttemptInv, AsFound
  <2> QED BY <2>1 DEF Convert
<1>4. request' = request
  <2>1. request = [r \in Requests |-> request[r]]
    BY DEF AsFound
  <2>2. request' = [r \in Requests |->
           [request[r] EXCEPT !.mode = IF @ = None THEN DefaultMode(r) ELSE @]]
    BY <1>2 DEF Convert
  <2>3. ASSUME NEW r \in Requests
        PROVE  [request[r] EXCEPT !.mode = IF @ = None THEN DefaultMode(r) ELSE @] = request[r]
    <3>1. request[r] = [status |-> origin.status[r], mode |-> origin.mode[r],
                        blocked |-> origin.blocked[r], by |-> None]
      BY <1>1 DEF FoundRequest
    <3>2. request[r].mode # None
      BY <1>1, <3>1
    <3> QED BY <3>1, <3>2
  <2> QED BY <2>1, <2>2, <2>3
<1> QED BY <1>3, <1>4 DEF Convert

-----------------------------------------------------------------------------
(* The repair of the routes.                                               *)

(* Given the locks and the snapshots the routes are to have, the repair     *)
(* makes of a request, untouched or repaired already, what the queue is to  *)
(* publish, and gives it its alerts.                                       *)
LEMMA RepairGives ==
    ASSUME AttemptInv, NEW lk, NEW sn, RepairRoutes(lk, sn),
           \A r \in Requests : request[r] \in {OpenRequest(r), RoutedRequest(r)},
           \A r \in Requests : r \in sn <=> HasClass(r),
           \A r \in Requests : WaitsOrVisits(r) =>
               /\ (\A l \in lk : l.request # r) <=> RouteOf(r) = {}
               /\ Unresolved(r) <=>
                    \/ ~HasClass(r)
                    \/ \A l \in lk : l.request # r
                    \/ \E l \in lk : l.request = r /\ l.source = "legacy_fallback_all",
           alerts \in {origin.alerts, RoutedAlerts},
           \A r \in Requests : Prototype => origin.mode[r] # "fallback_all"
    PROVE  /\ request' = [r \in Requests |-> RoutedRequest(r)]
           /\ alerts' = RoutedAlerts
<1>1. ASSUME NEW r \in Requests
      PROVE  /\ OpenVisit(r) <=> WaitsOrVisits(r)
             /\ origin.type[r] = "toilet" /\ request[r].status = "pending" <=>
                   WaitsOrVisits(r) /\ origin.status[r] = "pending"
  <2>1. request[r].status = IF Superseded(r) THEN "cancelled" ELSE origin.status[r]
    BY DEF OpenRequest, RoutedRequest
  <2> QED BY <2>1 DEF OpenVisit, IsOpen, WaitsOrVisits
<1>2. ASSUME NEW r \in Requests
      PROVE  NeedsFallback(r, lk, sn) <=> WaitsOrVisits(r) /\ Unresolved(r)
  BY <1>1 DEF NeedsFallback
<1>3. ASSUME NEW r \in Requests
      PROVE  /\ WaitsOrVisits(r) => (OpenRequest(r).mode = "fallback_all" <=>
                    origin.mode[r] = "fallback_all")
             /\ origin.mode[r] = "fallback_all" => OpenRequest(r).mode = "fallback_all"
  BY DEF OpenRequest, DefaultMode
<1>4. \A r \in Requests : request'[r] = RoutedRequest(r)
  <2> SUFFICES ASSUME NEW r \in Requests PROVE request'[r] = RoutedRequest(r)
    OBVIOUS
  <2> DEFINE m == IF NeedsFallback(r, lk, sn) THEN "fallback_all" ELSE request[r].mode
             b == IF /\ origin.type[r] = "toilet" /\ request[r].status = "pending"
                     /\ \A l \in lk : l.request # r
                  THEN TRUE ELSE request[r].blocked
  <2>1. request'[r] = [request[r] EXCEPT !.mode = m, !.blocked = b]
    BY DEF RepairRoutes
  <2>2. m = RoutedRequest(r).mode
    <3>1. RoutedRequest(r).mode =
             IF OnFallback(r) THEN "fallback_all" ELSE OpenRequest(r).mode
      BY DEF RoutedRequest
    <3>2. OnFallback(r) <=> NeedsFallback(r, lk, sn) \/
             (WaitsOrVisits(r) /\ origin.mode[r] = "fallback_all")
      BY <1>2 DEF OnFallback
    <3> QED BY <1>3, <3>1, <3>2
  <2>3. origin.blocked[r] \in BOOLEAN
    BY UpgradeAssumption DEF AttemptInv
  <2>4. b = RoutedRequest(r).blocked
    <3>1. OpenRequest(r).blocked = origin.blocked[r]
          /\ RoutedRequest(r).blocked = (origin.blocked[r] \/
                (WaitsOrVisits(r) /\ origin.status[r] = "pending" /\ RouteOf(r) = {}))
      BY DEF OpenRequest, RoutedRequest
    <3>2. CASE WaitsOrVisits(r) /\ origin.status[r] = "pending" /\ RouteOf(r) = {}
      BY <1>1, <2>3, <3>1, <3>2
    <3>3. CASE ~(WaitsOrVisits(r) /\ origin.status[r] = "pending" /\ RouteOf(r) = {})
      <4>1. b = request[r].blocked
        BY <1>1, <3>3
      <4>2. RoutedRequest(r).blocked = origin.blocked[r]
        BY <2>3, <3>1, <3>3, Zenon
      <4> QED BY <3>1, <4>1, <4>2
    <3> QED BY <3>2, <3>3
  <2>5. RoutedRequest(r) = [status |-> OpenRequest(r).status, mode |-> RoutedRequest(r).mode,
                            blocked |-> RoutedRequest(r).blocked, by |-> OpenRequest(r).by]
    BY DEF RoutedRequest
  <2>6. OpenRequest(r) = [status |-> OpenRequest(r).status, mode |-> OpenRequest(r).mode,
                          blocked |-> OpenRequest(r).blocked, by |-> OpenRequest(r).by]
    BY DEF OpenRequest
  <2>7. PICK m0, b0 : request[r] = [status |-> OpenRequest(r).status, mode |-> m0,
                                    blocked |-> b0, by |-> OpenRequest(r).by]
    BY <2>5, <2>6
  <2> HIDE DEF m, b
  <2>8. request'[r] = [status |-> OpenRequest(r).status, mode |-> m, blocked |-> b,
                       by |-> OpenRequest(r).by]
    <3>1. PICK p : p = [request[r] EXCEPT !.mode = m]
      OBVIOUS
    <3>2. p = [status |-> OpenRequest(r).status, mode |-> m, blocked |-> b0,
               by |-> OpenRequest(r).by]
      BY <2>7, <3>1
    <3>3. [p EXCEPT !.blocked = b] = [status |-> OpenRequest(r).status, mode |-> m,
                                      blocked |-> b, by |-> OpenRequest(r).by]
      BY <3>2
    <3>4. [request[r] EXCEPT !.mode = m, !.blocked = b] = [p EXCEPT !.blocked = b]
      BY <2>7, <3>1
    <3> QED BY <2>1, <3>3, <3>4
  <2> QED BY <2>2, <2>4, <2>5, <2>8
<1>5. request' = [r \in Requests |-> RoutedRequest(r)]
  <2>1. request' = [r \in Requests |-> request'[r]]
    BY DEF RepairRoutes
  <2> QED BY <1>4, <2>1
<1>6. ASSUME NEW r \in Requests
      PROVE  OpenVisit(r) /\ request'[r].mode = "fallback_all" <=> OnFallback(r)
  <2>1. request'[r].mode = IF OnFallback(r) THEN "fallback_all" ELSE OpenRequest(r).mode
    <3>1. RoutedRequest(r).mode =
             IF OnFallback(r) THEN "fallback_all" ELSE OpenRequest(r).mode
      BY DEF RoutedRequest
    <3> QED BY <1>4, <3>1
  <2>2. OnFallback(r) => WaitsOrVisits(r)
    BY DEF OnFallback
  <2>3. WaitsOrVisits(r) /\ origin.mode[r] = "fallback_all" => OnFallback(r)
    BY DEF OnFallback
  <2>4. OpenVisit(r) <=> WaitsOrVisits(r)
    BY <1>1
  <2>5. WaitsOrVisits(r) => (OpenRequest(r).mode = "fallback_all" <=>
           origin.mode[r] = "fallback_all")
    BY <1>3
  <2> QED BY <2>1, <2>2, <2>3, <2>4, <2>5
<1>7. ASSUME NEW r \in Requests, OnFallback(r)
      PROVE  AlertsFor(r, lk, sn) = {[request |-> r, code |-> c] : c \in ReasonsFor(r)}
  <2>1. WaitsOrVisits(r)
    BY <1>7 DEF OnFallback
  <2>2. (\E l \in lk : l.request = r) <=> RouteOf(r) # {}
    BY <2>1
  <2>3. CASE RouteOf(r) = {}
    BY <2>2, <2>3 DEF AlertsFor, ReasonsFor
  <2>4. CASE RouteOf(r) # {}
    BY <2>2, <2>4 DEF AlertsFor, ReasonsFor
  <2> QED BY <2>3, <2>4
<1>8. alerts' = alerts \cup UNION {AlertsFor(r, lk, sn) : r \in {q \in Requests : OnFallback(q)}}
  <2>1. {q \in Requests : OpenVisit(q) /\ request'[q].mode = "fallback_all"} =
        {q \in Requests : OnFallback(q)}
    BY <1>6
  <2> QED BY <2>1 DEF RepairRoutes
<1>9. \A r \in Requests : ReasonsFor(r) \subseteq Codes
  BY DEF ReasonsFor, Codes
<1>10. origin.alerts \subseteq [request : Requests, code : Codes]
  BY UpgradeAssumption DEF AttemptInv
<1>11. ASSUME NEW a
       PROVE  a \in alerts' <=> a \in RoutedAlerts
  <2>1. a \in alerts' <=> a \in alerts \/ \E r \in Requests : OnFallback(r) /\ a \in AlertsFor(r, lk, sn)
    BY <1>8
  <2>2. a \in alerts' <=> a \in alerts \/ \E r \in Requests : OnFallback(r) /\
           \E c \in ReasonsFor(r) : a = [request |-> r, code |-> c]
    BY <1>7, <2>1
  <2>3. a \in RoutedAlerts <=> a \in [request : Requests, code : Codes] /\
           (a \in origin.alerts \/ (OnFallback(a.request) /\ a.code \in ReasonsFor(a.request)))
    BY DEF RoutedAlerts
  <2>4. (\E r \in Requests : OnFallback(r) /\
            \E c \in ReasonsFor(r) : a = [request |-> r, code |-> c]) <=>
        a \in [request : Requests, code : Codes] /\
            OnFallback(a.request) /\ a.code \in ReasonsFor(a.request)
    BY <1>9
  <2> QED BY <1>10, <2>2, <2>3, <2>4
<1> QED BY <1>5, <1>11

-----------------------------------------------------------------------------
(* The locks of a prototype.                                               *)

LEMMA LockIs ==
    /\ \A r, t, s : Lock(r, t, s).request = r /\ Lock(r, t, s).toilet = t
                    /\ Lock(r, t, s).source = s
    /\ \A l \in [request : Requests, toilet : Toilets, source : Sources] :
          l = Lock(l.request, l.toilet, l.source)
BY DEF Lock

LEMMA LockMember ==
    ASSUME NEW r, NEW t, NEW s
    PROVE  Lock(r, t, s) \in PrototypeLocks <=>
              r \in Requests /\ t \in Toilets /\ t \in RouteOf(r) /\ s = SourceOf(r)
<1>1. SourceOf(r) \in Sources
  BY DEF SourceOf, Sources
<1>2. Lock(r, t, s) \in [request : Requests, toilet : Toilets, source : Sources] <=>
         r \in Requests /\ t \in Toilets /\ s \in Sources
  BY DEF Lock
<1> QED BY <1>1, <1>2, LockIs DEF PrototypeLocks

(* A request and a toilet have one lock. *)
LEMMA OneLock ==
    ASSUME NEW k \in PrototypeLocks, NEW l \in PrototypeLocks,
           k.request = l.request, k.toilet = l.toilet
    PROVE  k = l
BY LockIs DEF PrototypeLocks

LEMMA InsertedIs ==
    ASSUME NEW lk \in SUBSET PrototypeLocks, NEW new \in SUBSET PrototypeLocks
    PROVE  Inserted(lk, new) = lk \cup new
<1>1. ASSUME NEW l \in new, NEW k \in lk, <<k.request, k.toilet>> = <<l.request, l.toilet>>
      PROVE  l \in lk
  BY <1>1, OneLock
<1> QED BY <1>1 DEF Inserted

(* What there is of a prototype, converted or routed, when it is populated. *)
LEMMA PrototypeFacts ==
    ASSUME AttemptInv, Prototype, ~Published, Converted \/ Routed
    PROVE  /\ "requests.toilet" \in schema /\ "school_class_id" \in schema
           /\ \A r \in Requests : OpenVisit(r) <=> WaitsOrVisits(r)
           /\ \A r \in Requests : ClassOf(r) \in Classes \cup {None}
           /\ \A c \in Classes :
                 /\ toiletOf[c] # None <=> ChosenToilets(c) # {}
                 /\ ChosenToilets(c) # {} => toiletOf[c] = Least(ChosenToilets(c))
           /\ origin.toilets \subseteq Toilets
<1>0. PrototypeFile(origin)
  BY ThreeKinds DEF AttemptInv
<1>1. "requests.toilet" \in schema /\ "school_class_id" \in schema
  BY <1>0 DEF PrototypeFile, AttemptInv, Retired, RetiredColumns
<1>2. ASSUME NEW r \in Requests
      PROVE  OpenVisit(r) <=> WaitsOrVisits(r)
  <2>1. request[r].status = OpenRequest(r).status
    BY DEF Converted, Routed, RoutedRequest
  <2>2. request[r].status = IF Superseded(r) THEN "cancelled" ELSE origin.status[r]
    BY <2>1 DEF OpenRequest
  <2> QED BY <2>2 DEF OpenVisit, IsOpen, WaitsOrVisits
<1>3. \A r \in Requests : ClassOf(r) \in Classes \cup {None}
  BY UpgradeAssumption DEF AttemptInv, ClassOf
<1>4. ASSUME NEW c \in Classes
      PROVE  /\ toiletOf[c] # None <=> ChosenToilets(c) # {}
             /\ ChosenToilets(c) # {} => toiletOf[c] = Least(ChosenToilets(c))
  <2>1. toiletOf[c] = ChosenOf(c) /\ origin.toiletOf[c] = None
    BY <1>0 DEF Converted, Routed, PrototypeFile
  <2> QED BY <2>1, ChosenIsToilet DEF ChosenOf
<1> QED BY <1>1, <1>2, <1>3, <1>4, UpgradeAssumption DEF AttemptInv

LEMMA NamedLocksAre ==
    ASSUME AttemptInv, Prototype, ~Published, Converted \/ Routed
    PROVE  NamedLocks = {l \in PrototypeLocks : ByName(l.request)}
<1>1. "requests.toilet" \in schema /\ origin.toilets \subseteq Toilets
  BY PrototypeFacts
<1>2. ASSUME NEW r \in Requests, origin.named[r] \in origin.toilets
      PROVE  Lock(r, origin.named[r], "legacy_name") \in PrototypeLocks /\ ByName(r)
  <2>1. ByName(r)
    BY <1>2 DEF ByName
  <2> QED BY <1>1, <1>2, <2>1, RouteIs, LockMember DEF SourceOf
<1>3. ASSUME NEW l \in PrototypeLocks, ByName(l.request)
      PROVE  l \in NamedLocks
  <2>1. /\ l.request \in Requests /\ l.toilet = origin.named[l.request]
        /\ l.source = "legacy_name" /\ origin.named[l.request] \in origin.toilets
        /\ l = Lock(l.request, l.toilet, l.source)
    BY <1>3, RouteIs, LockIs DEF PrototypeLocks, SourceOf, ByName
  <2>2. l = Lock(l.request, origin.named[l.request], "legacy_name")
    BY <2>1
  <2> QED BY <1>1, <2>1, <2>2 DEF NamedLocks
<1>4. ASSUME NEW l \in NamedLocks
      PROVE  l \in PrototypeLocks /\ ByName(l.request)
  <2>1. PICK r \in Requests : /\ origin.named[r] \in origin.toilets
                              /\ l = Lock(r, origin.named[r], "legacy_name")
    BY DEF NamedLocks
  <2> QED BY <1>2, <2>1, LockIs
<1> QED BY <1>3, <1>4

LEMMA MappingLocksAre ==
    ASSUME AttemptInv, Prototype, ~Published, Converted \/ Routed, NEW lk,
           \A r \in Requests : ByName(r) => \E k \in lk : k.request = r
    PROVE  MappingLocks(lk) =
              {l \in PrototypeLocks :
                  /\ ~ByName(l.request) /\ ByClass(l.request)
                  /\ \A k \in lk : k.request # l.request}
<1>0. /\ "school_class_id" \in schema
      /\ \A r \in Requests : OpenVisit(r) <=> WaitsOrVisits(r)
      /\ \A r \in Requests : ClassOf(r) \in Classes \cup {None}
      /\ \A c \in Classes :
            /\ toiletOf[c] # None <=> ChosenToilets(c) # {}
            /\ ChosenToilets(c) # {} => toiletOf[c] = Least(ChosenToilets(c))
  BY PrototypeFacts
<1>1. ASSUME NEW r \in Requests, WaitsOrVisits(r), ~ByName(r), ByClass(r)
      PROVE  /\ RouteOf(r) = {toiletOf[ClassOf(r)]} /\ SourceOf(r) = "legacy_class_mapping"
             /\ toiletOf[ClassOf(r)] \in Toilets /\ toiletOf[ClassOf(r)] # None
             /\ ClassOf(r) # None
  <2>1. ClassOf(r) \in Classes /\ ChosenToilets(ClassOf(r)) # {} /\ ClassOf(r) # None
    BY <1>0, <1>1 DEF ByClass
  <2> QED BY <1>0, <1>1, <2>1, RouteIs, ChosenIsToilet DEF SourceOf
<1>2. ASSUME NEW l \in MappingLocks(lk)
      PROVE  /\ l \in PrototypeLocks /\ ~ByName(l.request) /\ ByClass(l.request)
             /\ \A k \in lk : k.request # l.request
  <2>1. PICK r \in Requests :
           /\ OpenVisit(r) /\ ClassOf(r) # None /\ toiletOf[ClassOf(r)] # None
           /\ \A k \in lk : k.request # r
           /\ l = Lock(r, toiletOf[ClassOf(r)], "legacy_class_mapping")
    BY DEF MappingLocks
  <2>2. WaitsOrVisits(r) /\ ~ByName(r) /\ ByClass(r)
    BY <1>0, <2>1 DEF ByClass
  <2> QED BY <1>1, <2>1, <2>2, LockIs, LockMember
<1>3. ASSUME NEW l \in PrototypeLocks, ~ByName(l.request), ByClass(l.request),
             \A k \in lk : k.request # l.request
      PROVE  l \in MappingLocks(lk)
  <2>1. /\ l.request \in Requests /\ l.toilet \in RouteOf(l.request)
        /\ l.source = SourceOf(l.request) /\ l = Lock(l.request, l.toilet, l.source)
    BY LockIs DEF PrototypeLocks
  <2>2. WaitsOrVisits(l.request)
    BY <1>3, <2>1, RouteIs
  <2>3. l = Lock(l.request, toiletOf[ClassOf(l.request)], "legacy_class_mapping")
    BY <1>1, <1>3, <2>1, <2>2
  <2> QED BY <1>0, <1>1, <1>3, <2>1, <2>2, <2>3 DEF MappingLocks
<1> QED BY <1>2, <1>3

LEMMA FallbackLocksAre ==
    ASSUME AttemptInv, Prototype, ~Published, Converted \/ Routed, NEW lk,
           \A r \in Requests : ByName(r) \/ (ByClass(r) /\ WaitsOrVisits(r)) =>
               \E k \in lk : k.request = r
    PROVE  FallbackLocks(lk) =
              {l \in PrototypeLocks :
                  /\ ~ByName(l.request) /\ ~ByClass(l.request)
                  /\ \A k \in lk : k.request # l.request}
<1>0. /\ \A r \in Requests : OpenVisit(r) <=> WaitsOrVisits(r)
      /\ origin.toilets \subseteq Toilets
  BY PrototypeFacts
<1>1. ASSUME NEW r \in Requests, WaitsOrVisits(r), ~ByName(r), ~ByClass(r)
      PROVE  RouteOf(r) = origin.toilets /\ SourceOf(r) = "legacy_fallback_all"
  BY <1>1, RouteIs DEF SourceOf
<1>2. ASSUME NEW l \in FallbackLocks(lk)
      PROVE  /\ l \in PrototypeLocks /\ ~ByName(l.request) /\ ~ByClass(l.request)
             /\ \A k \in lk : k.request # l.request
  <2>1. PICK r \in Requests, t \in origin.toilets :
           /\ OpenVisit(r) /\ \A k \in lk : k.request # r
           /\ l = Lock(r, t, "legacy_fallback_all")
    BY DEF FallbackLocks
  <2>2. WaitsOrVisits(r) /\ ~ByName(r) /\ ~ByClass(r)
    BY <1>0, <2>1
  <2> QED BY <1>0, <1>1, <2>1, <2>2, LockIs, LockMember
<1>3. ASSUME NEW l \in PrototypeLocks, ~ByName(l.request), ~ByClass(l.request),
             \A k \in lk : k.request # l.request
      PROVE  l \in FallbackLocks(lk)
  <2>1. /\ l.request \in Requests /\ l.toilet \in RouteOf(l.request)
        /\ l.source = SourceOf(l.request) /\ l = Lock(l.request, l.toilet, l.source)
    BY LockIs DEF PrototypeLocks
  <2>2. WaitsOrVisits(l.request)
    BY <1>3, <2>1, RouteIs
  <2>3. l.toilet \in origin.toilets /\ l = Lock(l.request, l.toilet, "legacy_fallback_all")
    BY <1>1, <1>3, <2>1, <2>2
  <2>4. l.request \in {q \in Requests : OpenVisit(q) /\ \A k \in lk : k.request # q}
    BY <1>0, <1>3, <2>1, <2>2
  <2> QED BY <2>3, <2>4 DEF FallbackLocks
<1> QED BY <1>2, <1>3

(* Populating, the first time or again, makes the locks of a prototype. *)
LEMMA PopulateLocks ==
    ASSUME AttemptInv, Prototype, ~Published, Converted \/ Routed, Populate
    PROVE  /\ locks' = PrototypeLocks
           /\ snapshots' = {r \in Requests : HasClass(r)}
           /\ RepairRoutes(PrototypeLocks, {r \in Requests : HasClass(r)})
<1>1. PICK named : named = Inserted(locks, NamedLocks)
  OBVIOUS
<1>2. PICK mapped : mapped = Inserted(named, MappingLocks(named))
  OBVIOUS
<1>3. PICK routed : routed = Inserted(mapped, FallbackLocks(mapped))
  OBVIOUS
<1>4. PICK placed : placed = snapshots \cup
         {r \in Requests : "school_class_id" \in schema /\ ClassOf(r) # None}
  OBVIOUS
<1>5. locks' = routed /\ snapshots' = placed /\ RepairRoutes(routed, placed)
  BY <1>1, <1>2, <1>3, <1>4 DEF Populate
<1>6. locks \in {{}, PrototypeLocks}
  BY DEF Converted, Routed
<1>7. named = locks \cup {l \in PrototypeLocks : ByName(l.request)}
  BY <1>1, <1>6, NamedLocksAre, InsertedIs
<1>8. ASSUME NEW r \in Requests, ByName(r)
      PROVE  \E k \in named : k.request = r
  <2>1. origin.named[r] \in Toilets /\ origin.named[r] \in RouteOf(r)
    BY <1>8, PrototypeFacts, RouteIs DEF ByName
  <2>2. Lock(r, origin.named[r], SourceOf(r)) \in PrototypeLocks
    BY <2>1, LockMember
  <2> QED BY <1>7, <1>8, <2>2, LockIs
<1>9. mapped = named \cup
         {l \in PrototypeLocks : /\ ~ByName(l.request) /\ ByClass(l.request)
                                 /\ \A k \in named : k.request # l.request}
  <2>1. MappingLocks(named) =
           {l \in PrototypeLocks : /\ ~ByName(l.request) /\ ByClass(l.request)
                                   /\ \A k \in named : k.request # l.request}
    BY <1>8, MappingLocksAre
  <2> QED BY <1>2, <1>6, <1>7, <2>1, InsertedIs
<1>10. ASSUME NEW r \in Requests, ByName(r) \/ (ByClass(r) /\ WaitsOrVisits(r))
       PROVE  \E k \in mapped : k.request = r
  <2>1. CASE ByName(r)
    BY <1>8, <1>9, <2>1
  <2>2. CASE ~ByName(r) /\ ByClass(r) /\ WaitsOrVisits(r)
    <3>1. /\ ChosenToilets(ClassOf(r)) # {}
          /\ RouteOf(r) = {Least(ChosenToilets(ClassOf(r)))}
      BY <2>2, RouteIs DEF ByClass
    <3>2. Lock(r, Least(ChosenToilets(ClassOf(r))), SourceOf(r)) \in PrototypeLocks
      BY <3>1, ChosenIsToilet, LockMember
    <3>3. Lock(r, Least(ChosenToilets(ClassOf(r))), SourceOf(r)).request = r
      BY LockIs
    <3> QED BY <1>9, <2>2, <3>2, <3>3
  <2> QED BY <1>10, <2>1, <2>2
<1>11. routed = mapped \cup
         {l \in PrototypeLocks : /\ ~ByName(l.request) /\ ~ByClass(l.request)
                                 /\ \A k \in mapped : k.request # l.request}
  <2>1. FallbackLocks(mapped) =
           {l \in PrototypeLocks : /\ ~ByName(l.request) /\ ~ByClass(l.request)
                                   /\ \A k \in mapped : k.request # l.request}
    BY <1>10, FallbackLocksAre
  <2> QED BY <1>3, <1>6, <1>7, <1>9, <2>1, InsertedIs
<1>12. routed = PrototypeLocks
  <2>1. routed \subseteq PrototypeLocks
    BY <1>6, <1>7, <1>9, <1>11
  <2>2. ASSUME NEW l \in PrototypeLocks
        PROVE  l \in routed
    <3>1. CASE ByName(l.request)
      BY <1>7, <1>9, <1>11, <3>1
    <3>2. CASE ~ByName(l.request) /\ ByClass(l.request)
      <4>1. CASE \A k \in named : k.request # l.request
        BY <1>9, <1>11, <3>2, <4>1
      <4>2. ASSUME NEW k \in named, k.request = l.request
            PROVE  l \in routed
        <5>1. k \in PrototypeLocks
          BY <1>6, <1>7
        <5>2. /\ l.request \in Requests /\ k.toilet \in RouteOf(l.request)
              /\ l.toilet \in RouteOf(l.request)
          BY <4>2, <5>1 DEF PrototypeLocks
        <5>3. k.toilet = l.toilet
          BY <3>2, <5>2, RouteIs DEF ByClass
        <5> QED BY <1>9, <1>11, <4>2, <5>1, <5>3, OneLock
      <4> QED BY <4>1, <4>2
    <3>3. CASE ~ByName(l.request) /\ ~ByClass(l.request)
      <4>1. CASE \A k \in mapped : k.request # l.request
        BY <1>11, <3>3, <4>1
      <4>2. ASSUME NEW k \in mapped, k.request = l.request
            PROVE  l \in routed
        <5>1. k \in locks
          BY <1>7, <1>9, <3>3, <4>2
        <5> QED BY <1>6, <1>7, <1>9, <1>11, <5>1
      <4> QED BY <4>1, <4>2
    <3> QED BY <3>1, <3>2, <3>3
  <2> QED BY <2>1, <2>2
<1>13. placed = {r \in Requests : HasClass(r)}
  <2>1. snapshots \in {{}, {r \in Requests : HasClass(r)}}
    BY DEF Converted, Routed
  <2>2. \A r \in Requests : HasClass(r) <=> "school_class_id" \in schema /\ ClassOf(r) # None
    BY PrototypeFacts DEF HasClass
  <2> QED BY <1>4, <2>1, <2>2
<1> QED BY <1>5, <1>12, <1>13

LEMMA RouteInToilets ==
    ASSUME AttemptInv, Prototype, NEW r \in Requests
    PROVE  RouteOf(r) \subseteq Toilets
<1>1. origin.toilets \subseteq Toilets
  BY UpgradeAssumption DEF AttemptInv
<1>2. CASE ByName(r) \/ ~ByClass(r) \/ ~WaitsOrVisits(r)
  BY <1>1, <1>2, RouteIs DEF ByName
<1>3. CASE ~ByName(r) /\ ByClass(r) /\ WaitsOrVisits(r)
  BY <1>3, RouteIs, ChosenIsToilet DEF ByClass
<1> QED BY <1>2, <1>3

LEMMA PopulateRoutes ==
    ASSUME AttemptInv, Prototype, ~Published, Converted \/ Routed, Populate
    PROVE  Routed'
<1>0. PrototypeFile(origin) /\ origin' = origin
  BY ThreeKinds, OriginStays DEF AttemptInv, Next, Step
<1>1. /\ locks' = PrototypeLocks /\ snapshots' = {r \in Requests : HasClass(r)}
      /\ RepairRoutes(PrototypeLocks, {r \in Requests : HasClass(r)})
  BY PopulateLocks
<1>2. ASSUME NEW r \in Requests
      PROVE  (\A l \in PrototypeLocks : l.request # r) <=> RouteOf(r) = {}
  <2>1. RouteOf(r) \subseteq Toilets
    BY RouteInToilets
  <2>2. ASSUME NEW t \in RouteOf(r)
        PROVE  \E l \in PrototypeLocks : l.request = r
    <3>1. Lock(r, t, SourceOf(r)) \in PrototypeLocks
      BY <2>1, LockMember
    <3> QED BY <3>1, LockIs
  <2>3. \A l \in PrototypeLocks : l.toilet \in RouteOf(l.request)
    BY DEF PrototypeLocks
  <2> QED BY <2>2, <2>3
<1>3. ASSUME NEW r \in Requests, WaitsOrVisits(r)
      PROVE  Unresolved(r) <=>
                \/ ~HasClass(r)
                \/ \A l \in PrototypeLocks : l.request # r
                \/ \E l \in PrototypeLocks : l.request = r /\ l.source = "legacy_fallback_all"
  <2>1. Unresolved(r) <=> ~HasClass(r) \/ (~ByName(r) /\ ~ByClass(r))
    BY DEF Unresolved
  <2>2. \A l \in PrototypeLocks : l.source = SourceOf(l.request)
    BY DEF PrototypeLocks
  <2>3. CASE ByName(r) \/ ByClass(r)
    <3>1. RouteOf(r) # {}
      BY <1>3, <2>3, RouteIs
    <3>2. SourceOf(r) # "legacy_fallback_all"
      BY <2>3 DEF SourceOf
    <3> QED BY <1>2, <2>1, <2>2, <2>3, <3>1, <3>2
  <2>4. CASE ~ByName(r) /\ ~ByClass(r)
    <3>1. SourceOf(r) = "legacy_fallback_all"
      BY <2>4 DEF SourceOf
    <3> QED BY <2>1, <2>2, <2>4, <3>1
  <2> QED BY <2>3, <2>4
<1>4. /\ \A r \in Requests : request[r] \in {OpenRequest(r), RoutedRequest(r)}
      /\ \A r \in Requests : origin.mode[r] # "fallback_all"
      /\ alerts \in {origin.alerts, RoutedAlerts}
  <2>1. \A r \in Requests : origin.mode[r] # "fallback_all"
    BY <1>0, UpgradeAssumption DEF PrototypeFile, Modes
  <2>2. alerts \in {origin.alerts, RoutedAlerts}
    BY <1>0 DEF Converted, Routed, PrototypeFile
  <2> QED BY <2>1, <2>2 DEF Converted, Routed
<1>5. request' = [r \in Requests |-> RoutedRequest(r)] /\ alerts' = RoutedAlerts
  <2>1. \A r \in Requests : r \in {q \in Requests : HasClass(q)} <=> HasClass(r)
    OBVIOUS
  <2> QED BY <1>1, <1>2, <1>3, <1>4, <2>1, RepairGives
<1>6. toiletOf' = [c \in Classes |-> ChosenOf(c)]
  BY DEF Populate, Converted, Routed
<1> QED BY <1>0, <1>1, <1>5, <1>6, HistoryStays DEF Routed

(* An empty file stays empty. *)
LEMMA PopulateNothing ==
    ASSUME AttemptInv, EmptyFile(origin), ~Published, AsFound, Populate
    PROVE  UNCHANGED <<toiletOf, request, locks, snapshots, alerts>>
<1>0. "requests.toilet" \notin schema /\ "school_class_id" \notin schema
  <2>1. /\ schema \cap Retired = origin.schema \cap Retired
        /\ "requests.toilet" \in schema <=> "requests.toilet" \in origin.schema
    BY DEF AttemptInv
  <2> QED BY <2>1 DEF EmptyFile, Retired, RetiredColumns
<1>1. ASSUME NEW r \in Requests
      PROVE  /\ request[r] = FoundRequest(r) /\ request[r].status = "done"
             /\ ~OpenVisit(r)
  <2>1. request[r] = FoundRequest(r) /\ origin.status[r] = "done"
    BY DEF AsFound, EmptyFile
  <2>2. FoundRequest(r).status = origin.status[r]
    BY DEF FoundRequest
  <2>3. request[r].status = "done"
    BY <2>1, <2>2
  <2> QED BY <2>1, <2>3 DEF OpenVisit, IsOpen
<1>2. locks = {} /\ snapshots = {} /\ alerts = {}
  BY DEF AsFound, EmptyFile
<1>3. NamedLocks = {}
  BY <1>0 DEF NamedLocks
<1>4. \A lk : MappingLocks(lk) = {} /\ FallbackLocks(lk) = {}
  BY <1>1 DEF MappingLocks, FallbackLocks
<1>5. \A lk : Inserted(lk, {}) = lk
  BY DEF Inserted
<1>6. locks' = {} /\ snapshots' = {} /\ RepairRoutes({}, {})
  <2>1. snapshots \cup {r \in Requests : "school_class_id" \in schema /\ ClassOf(r) # None} = {}
    BY <1>0, <1>2
  <2> QED BY <1>2, <1>3, <1>4, <1>5, <2>1 DEF Populate
<1>7. alerts' = alerts
  BY <1>1, <1>6 DEF RepairRoutes
<1>8. request' = request
  <2>1. ASSUME NEW r \in Requests
        PROVE  request'[r] = request[r]
    <3>1. request[r] = [status |-> origin.status[r], mode |-> origin.mode[r],
                        blocked |-> origin.blocked[r], by |-> None]
      BY <1>1 DEF FoundRequest
    <3>2. ~NeedsFallback(r, {}, {})
      BY <1>1 DEF NeedsFallback
    <3>3. request'[r] = [request[r] EXCEPT !.mode = request[r].mode,
                                           !.blocked = request[r].blocked]
      BY <1>1, <1>6, <3>2 DEF RepairRoutes
    <3> QED BY <3>1, <3>3
  <2>2. request = [r \in Requests |-> request[r]]
    BY DEF AsFound
  <2>3. request' = [r \in Requests |-> request'[r]]
    BY <1>6 DEF RepairRoutes
  <2> QED BY <2>1, <2>2, <2>3
<1> QED BY <1>2, <1>6, <1>7, <1>8 DEF Populate

-----------------------------------------------------------------------------
(* The repairs of a first version.                                         *)

LEMMA FirstVersionIs ==
    ASSUME AttemptInv, FirstVersion
    PROVE  /\ VersionFile(origin) /\ ~Prototype
           /\ \A r \in Requests : FoundRequest(r) = OpenRequest(r)
           /\ [c \in Classes |-> ChosenOf(c)] = origin.toiletOf
           /\ {r \in Requests : HasClass(r)} = origin.snapshots
           /\ KeptLocks \subseteq origin.locks
           /\ origin.locks \subseteq [request : Requests, toilet : Toilets, source : Sources]
<1>1. VersionFile(origin) /\ ~Prototype
  BY ThreeKinds, UpgradeAssumption DEF FirstVersion, AttemptInv
<1>2. \A r \in Requests : FoundRequest(r) = OpenRequest(r)
  BY <1>1 DEF FoundRequest, OpenRequest, Superseded
<1>3. origin.toiletOf \in [Classes -> Toilets \cup {None}] /\ origin.snapshots \subseteq Requests
      /\ origin.locks \subseteq [request : Requests, toilet : Toilets, source : Sources]
  BY UpgradeAssumption DEF AttemptInv
<1>4. [c \in Classes |-> ChosenOf(c)] = origin.toiletOf
  BY <1>1, <1>3 DEF ChosenOf
<1>5. {r \in Requests : HasClass(r)} = origin.snapshots
  BY <1>1, <1>3 DEF HasClass
<1> QED BY <1>1, <1>2, <1>3, <1>4, <1>5 DEF KeptLocks

LEMMA UnlockKeeps ==
    ASSUME AttemptInv, FirstVersion, AsFound \/ Unlocked \/ Routed, Unlock
    PROVE  locks' = KeptLocks
<1>1. locks \in {origin.locks, KeptLocks}
  BY FirstVersionIs DEF AsFound, Unlocked, Routed
<1>2. locks' = {l \in locks : l.source = "legacy_class_mapping" =>
         \A k \in locks : k.request = l.request => k.source # "legacy_name"}
  BY DEF Unlock
<1>3. \A r : "legacy_name" \in SourcesOf(r) <=>
         \E k \in origin.locks : k.request = r /\ k.source = "legacy_name"
  BY DEF SourcesOf
<1>4. CASE locks = origin.locks
  <2>1. ASSUME NEW l \in origin.locks
        PROVE  l \in locks' <=> l \in KeptLocks
    BY <1>2, <1>3, <1>4, <2>1 DEF KeptLocks
  <2>2. locks' \subseteq origin.locks
    BY <1>2, <1>4
  <2> QED BY <2>1, <2>2, FirstVersionIs
<1>5. CASE locks = KeptLocks
  <2>1. ASSUME NEW l \in KeptLocks, l.source = "legacy_class_mapping"
        PROVE  \A k \in KeptLocks : k.request = l.request => k.source # "legacy_name"
    BY <1>3, <2>1 DEF KeptLocks
  <2> QED BY <1>2, <1>5, <2>1
<1> QED BY <1>1, <1>4, <1>5

LEMMA UnlockRoutes ==
    ASSUME AttemptInv, FirstVersion, AsFound \/ Unlocked \/ Routed, Unlock
    PROVE  Unlocked' \/ Routed'
<1>1. locks' = KeptLocks /\ origin' = origin
  BY UnlockKeeps, OriginStays DEF Next, Step
<1>2. UNCHANGED <<toiletOf, request, snapshots, alerts>>
  BY DEF Unlock
<1>3. CASE AsFound
  BY <1>1, <1>2, <1>3, HistoryStays DEF AsFound, Unlocked
<1>4. CASE Unlocked
  BY <1>1, <1>2, <1>4, HistoryStays DEF Unlocked
<1>5. CASE Routed
  BY <1>1, <1>2, <1>5, HistoryStays, FirstVersionIs DEF Routed
<1> QED BY <1>3, <1>4, <1>5

(* The mapping of the class was only ever too many beside a named toilet,   *)
(* and what is left tells as much of where a request is from.               *)
LEMMA KeptTell ==
    ASSUME AttemptInv, FirstVersion, NEW r \in Requests
    PROVE  /\ (\A l \in KeptLocks : l.request # r) <=> RouteOf(r) = {}
           /\ SourcesOf(r) = {} <=> \A l \in KeptLocks : l.request # r
           /\ "legacy_fallback_all" \in SourcesOf(r) <=>
                 \E l \in KeptLocks : l.request = r /\ l.source = "legacy_fallback_all"
<1>1. RouteOf(r) = {l.toilet : l \in {k \in KeptLocks : k.request = r}}
  BY FirstVersionIs, RouteIs DEF KeptLocks, FirstVersion
<1>2. (\A l \in KeptLocks : l.request # r) <=> RouteOf(r) = {}
  BY <1>1
<1>3. \A s : s \in SourcesOf(r) <=> \E k \in origin.locks : k.request = r /\ k.source = s
  BY DEF SourcesOf
<1>4. ASSUME NEW l \in origin.locks, l.request = r
      PROVE  \E k \in KeptLocks : k.request = r
  <2>1. CASE l.source = "legacy_class_mapping" /\ "legacy_name" \in SourcesOf(r)
    <3>1. PICK k \in origin.locks : k.request = r /\ k.source = "legacy_name"
      BY <1>3, <2>1
    <3>2. k \in KeptLocks
      BY <3>1 DEF KeptLocks
    <3> QED BY <3>1, <3>2
  <2>2. CASE ~(l.source = "legacy_class_mapping" /\ "legacy_name" \in SourcesOf(r))
    BY <1>4, <2>2 DEF KeptLocks
  <2> QED BY <2>1, <2>2
<1>5. SourcesOf(r) = {} <=> \A l \in KeptLocks : l.request # r
  <2>1. SourcesOf(r) = {} <=> \A l \in origin.locks : l.request # r
    BY <1>3
  <2> QED BY <1>4, <2>1, FirstVersionIs
<1>6. "legacy_fallback_all" \in SourcesOf(r) <=>
         \E l \in KeptLocks : l.request = r /\ l.source = "legacy_fallback_all"
  BY <1>3, FirstVersionIs DEF KeptLocks
<1> QED BY <1>2, <1>5, <1>6

LEMMA RepairRoutesV1 ==
    ASSUME AttemptInv, FirstVersion, Unlocked \/ Routed, Repair
    PROVE  Routed'
<1>1. /\ locks = KeptLocks /\ snapshots = origin.snapshots
      /\ toiletOf = origin.toiletOf /\ alerts \in {origin.alerts, RoutedAlerts}
  BY FirstVersionIs DEF Unlocked, Routed
<1>2. /\ RepairRoutes(KeptLocks, origin.snapshots) /\ UNCHANGED <<toiletOf, locks, snapshots>>
      /\ origin' = origin
  BY <1>1, OriginStays DEF Repair, Next, Step
<1>3. \A r \in Requests : request[r] \in {OpenRequest(r), RoutedRequest(r)}
  BY FirstVersionIs DEF Unlocked, Routed
<1>4. ASSUME NEW r \in Requests
      PROVE  Unresolved(r) <=>
                \/ ~HasClass(r)
                \/ \A l \in KeptLocks : l.request # r
                \/ \E l \in KeptLocks : l.request = r /\ l.source = "legacy_fallback_all"
  BY FirstVersionIs, KeptTell DEF Unresolved
<1>5. \A r \in Requests : r \in origin.snapshots <=> HasClass(r)
  BY FirstVersionIs DEF HasClass
<1>6. request' = [r \in Requests |-> RoutedRequest(r)] /\ alerts' = RoutedAlerts
  BY <1>1, <1>2, <1>3, <1>4, <1>5, KeptTell, FirstVersionIs, RepairGives
<1> QED BY <1>1, <1>2, <1>6, FirstVersionIs, HistoryStays DEF Routed

-----------------------------------------------------------------------------
(* Every step.                                                             *)

(* The routes of a prototype are converted and populated, and those of a    *)
(* first version are repaired, before an attempt gets past that.           *)
LEMMA PrototypePasses ==
    ASSUME AttemptInv, Next, Prototype, NEW n \in {2, 12}, Past(n)' \/ Published'
    PROVE  Past(n) \/ Published \/ pc = Program[n]
<1> SUFFICES ASSUME ~Past(n), ~Published, pc # Program[n] PROVE FALSE
  OBVIOUS
<1>1. /\ Past(n)' /\ Program[n] \notin Due(legacy', found')
      /\ version' = version /\ version = origin.version
  BY DuePassed
<1>2. AttemptInv' /\ origin' = origin
  BY AttemptStep, OriginStays
<1>3. ~Published' /\ pc' # "down" /\ Prototype'
  BY <1>1, <1>2, NamesAre, HistoryStays DEF Past, Names, Published
<1>4. legacy'
  BY <1>2, <1>3 DEF AttemptInv
<1>5. Program[n] \in {"convert", "populate"}
  BY ProgramIs
<1> QED BY <1>1, <1>4, <1>5, DueSteps

LEMMA FirstVersionPasses ==
    ASSUME AttemptInv, Next, FirstVersion, NEW n \in {6, 7}, Past(n)' \/ Published'
    PROVE  Past(n) \/ Published \/ pc = Program[n]
<1> SUFFICES ASSUME ~Past(n), ~Published, pc # Program[n] PROVE FALSE
  OBVIOUS
<1>1. Program[n] \notin Due(legacy', found') /\ found' = origin.version
  BY DuePassed
<1>2. Program[n] \in {"unlock", "repair"}
  BY ProgramIs
<1> QED BY <1>1, <1>2, DueSteps, UpgradeAssumption DEF FirstVersion

LEMMA RouteMoves ==
    ASSUME Next
    PROVE  \/ Convert \/ Unlock \/ Repair \/ Populate
           \/ /\ UNCHANGED <<toiletOf, request, locks, snapshots, alerts>>
              /\ \/ pc' = "down" /\ version' = version
                 \/ pc \notin {"convert", "unlock", "repair", "populate"}
<1>1. CASE Start \/ Alter \/ RebuildTables \/ RebuildSessions \/ Create \/ Created
  BY <1>1 DEF Start, Alter, RebuildTables, RebuildSessions, Create, Created, routeVars
<1>2. CASE Purge \/ Identity \/ Index \/ DropMirror \/ Finalize
  BY <1>2 DEF Purge, Identity, Index, DropMirror, Finalize, routeVars
<1>3. CASE Crash
  BY <1>3 DEF Crash, routeVars
<1> QED BY <1>1, <1>2, <1>3 DEF Next, Step

LEMMA RouteStep ==
    ASSUME AttemptInv, RouteInv, Next
    PROVE  RouteInv'
<1>1. /\ origin' = origin /\ Prototype' = Prototype /\ FirstVersion' = FirstVersion
      /\ ~(Prototype /\ FirstVersion)
  BY OriginStays, HistoryStays, FirstVersionIs
<1>2. /\ Position("convert") = 2 /\ Position("unlock") = 6
      /\ Position("repair") = 7 /\ Position("populate") = 12
  BY Places, ProgramIs
<1>3. /\ Prototype /\ (Past(2)' \/ Published') => Past(2) \/ Published \/ pc = "convert"
      /\ Prototype /\ (Past(12)' \/ Published') => Past(12) \/ Published \/ pc = "populate"
  BY PrototypePasses, ProgramIs
<1>4. /\ FirstVersion /\ (Past(6)' \/ Published') => Past(6) \/ Published \/ pc = "unlock"
      /\ FirstVersion /\ (Past(7)' \/ Published') => Past(7) \/ Published \/ pc = "repair"
  BY FirstVersionPasses, ProgramIs
<1>5. pc \in {"convert", "populate", "unlock", "repair"} => ~Published
  BY StepsOfAKind
<1>6. CASE Convert
  <2>1. pc = "convert" /\ origin.version = None /\ ~Published /\ ~Past(12)
    BY <1>2, <1>6, StepsOfAKind DEF Convert, Past
  <2>2. ~FirstVersion
    BY <2>1, UpgradeAssumption DEF FirstVersion
  <2>3. CASE Prototype
    <3>1. "class_toilets" \in schema
      BY <2>1, <2>3, ThreeKinds DEF AttemptInv, PrototypeFile, Retired
    <3>2. Converted' \/ Routed'
      <4>1. CASE AsFound
        BY <1>6, <2>3, <3>1, <4>1, ConvertFound
      <4>2. CASE Converted \/ Routed
        <5>1. UNCHANGED <<origin, toiletOf, request, locks, snapshots, alerts>>
          BY <1>1, <1>6, <2>3, <4>2, ConvertAgain
        <5> QED BY <4>2, <5>1, RoutesStay
      <4> QED BY <2>3, <4>1, <4>2 DEF RouteInv
    <3>3. ~(Past(12)' \/ Published')
      BY <1>3, <2>1, <2>3
    <3> QED BY <1>1, <2>2, <2>3, <3>2, <3>3 DEF RouteInv
  <2>4. CASE ~Prototype
    <3>1. EmptyFile(origin) /\ AsFound
      BY <2>1, <2>2, <2>4, ThreeKinds DEF AttemptInv, RouteInv
    <3>2. "class_toilets" \notin schema
      BY <2>1, <3>1 DEF AttemptInv, EmptyFile, Retired
    <3>3. AsFound'
      BY <1>1, <1>6, <3>1, <3>2, ConvertNothing, RoutesStay
    <3> QED BY <1>1, <2>2, <2>4, <3>3 DEF RouteInv
  <2> QED BY <2>3, <2>4
<1>7. CASE Populate
  <2>1. pc = "populate" /\ origin.version = None /\ ~Published /\ Past(2)
    BY <1>2, <1>7, StepsOfAKind, NamesAre DEF Populate, Past
  <2>2. ~FirstVersion
    BY <2>1, UpgradeAssumption DEF FirstVersion
  <2>3. CASE Prototype
    <3>1. Routed'
      BY <1>7, <2>1, <2>3, PopulateRoutes DEF RouteInv
    <3> QED BY <1>1, <2>2, <2>3, <3>1 DEF RouteInv
  <2>4. CASE ~Prototype
    <3>1. EmptyFile(origin) /\ AsFound
      BY <2>1, <2>2, <2>4, ThreeKinds DEF AttemptInv, RouteInv
    <3>2. AsFound'
      BY <1>1, <1>7, <2>1, <3>1, PopulateNothing, RoutesStay
    <3> QED BY <1>1, <2>2, <2>4, <3>2 DEF RouteInv
  <2> QED BY <2>3, <2>4
<1>8. CASE Unlock
  <2>1. pc = "unlock" /\ FirstVersion /\ ~Prototype /\ ~Published /\ ~Past(7)
    BY <1>1, <1>2, <1>8, StepsOfAKind DEF Unlock, Past, FirstVersion
  <2>2. Unlocked' \/ Routed'
    BY <1>8, <2>1, UnlockRoutes DEF RouteInv
  <2>3. ~(Past(7)' \/ Published')
    BY <1>4, <2>1
  <2> QED BY <1>1, <2>1, <2>2, <2>3 DEF RouteInv
<1>9. CASE Repair
  <2>1. pc = "repair" /\ FirstVersion /\ ~Prototype /\ Past(6)
    BY <1>1, <1>2, <1>9, StepsOfAKind, NamesAre DEF Repair, Past, FirstVersion
  <2>2. Routed'
    BY <1>9, <2>1, RepairRoutesV1 DEF RouteInv
  <2> QED BY <1>1, <2>1, <2>2 DEF RouteInv
<1>10. CASE /\ UNCHANGED <<toiletOf, request, locks, snapshots, alerts>>
            /\ \/ pc' = "down" /\ version' = version
               \/ pc \notin {"convert", "unlock", "repair", "populate"}
  <2>1. /\ AsFound' = AsFound /\ Converted' = Converted
        /\ Unlocked' = Unlocked /\ Routed' = Routed
    BY <1>1, <1>10, RoutesStay
  <2>2. CASE pc \notin {"convert", "unlock", "repair", "populate"}
    BY <1>1, <1>3, <1>4, <2>1, <2>2 DEF RouteInv
  <2>3. CASE pc' = "down" /\ version' = version
    <3>1. /\ ~Past(2)' /\ ~Past(12)' /\ ~Past(6)' /\ ~Past(7)'
          /\ Published' = Published
      BY <2>3, NamesAre DEF Past, Names, Published
    <3> QED BY <1>1, <2>1, <3>1 DEF RouteInv
  <2> QED BY <1>10, <2>2, <2>3
<1> QED BY <1>6, <1>7, <1>8, <1>9, <1>10, RouteMoves

LEMMA RouteHolds == Spec => []RouteInv
<1>1. Init => RouteInv
  <2> SUFFICES ASSUME Init PROVE RouteInv
    OBVIOUS
  <2>1. AsFound /\ origin \in Origins /\ version = origin.version /\ pc = "down"
    BY DEF Init, AsFound, FoundRequest
  <2>2. ~Past(2) /\ ~Past(12) /\ ~Past(6) /\ ~Past(7)
    BY <2>1, NamesAre DEF Past
  <2>3. Published => ~Prototype /\ ~FirstVersion
    BY <2>1, UpgradeAssumption DEF Published, Prototype, FirstVersion, SCHEMA_VERSION
  <2> QED BY <2>1, <2>2, <2>3 DEF RouteInv
<1>2. AttemptInv /\ RouteInv /\ [Next]_vars => RouteInv'
  <2>1. ASSUME RouteInv, UNCHANGED vars
        PROVE  RouteInv'
    <3>1. UNCHANGED <<origin, toiletOf, request, locks, snapshots, alerts, version, pc>>
      BY <2>1 DEF vars, routeVars
    <3>2. /\ AsFound' = AsFound /\ Converted' = Converted
          /\ Unlocked' = Unlocked /\ Routed' = Routed
      BY <3>1, RoutesStay
    <3>3. /\ Prototype' = Prototype /\ FirstVersion' = FirstVersion
          /\ Past(2)' = Past(2) /\ Past(6)' = Past(6) /\ Past(7)' = Past(7)
          /\ Past(12)' = Past(12) /\ Published' = Published
      BY <3>1 DEF Prototype, FirstVersion, Past, Names, Position, Published
    <3> QED BY <2>1, <3>2, <3>3 DEF RouteInv
  <2> QED BY <2>1, RouteStep
<1> QED BY <1>1, <1>2, AttemptHolds, PTL DEF Spec

(* However often the upgrade is interrupted, and wherever, the published    *)
(* queue is the one the original database describes, for any requests,      *)
(* classes and toilets: the superseded requests are cancelled and no       *)
(* others, every request is for the toilets it was for, and the ones that   *)
(* could not be resolved are on the fallback route with their alerts.      *)
THEOREM RoutesAreConverted == Spec => []RoutesConverted
<1>1. ASSUME AttemptInv, RouteInv
      PROVE  RoutesConverted
  <2> SUFFICES ASSUME Published, NEW r \in Requests
               PROVE  /\ {l.toilet : l \in {k \in locks : k.request = r}} = RouteOf(r)
                      /\ request[r].status =
                            IF Superseded(r) THEN "cancelled" ELSE origin.status[r]
                      /\ Prototype \/ FirstVersion =>
                            /\ (request[r].mode = "fallback_all") =
                                  (origin.mode[r] = "fallback_all" \/ OnFallback(r))
                            /\ request[r].blocked =
                                  (origin.blocked[r] \/
                                   (WaitsOrVisits(r) /\ origin.status[r] = "pending"
                                    /\ RouteOf(r) = {}))
                            /\ {a.code : a \in {b \in alerts : b.request = r}} =
                                  {a.code : a \in {b \in origin.alerts : b.request = r}} \cup
                                  (IF OnFallback(r) THEN ReasonsFor(r) ELSE {})
    BY DEF RoutesConverted, FirstVersion
  <2>1. CASE Routed /\ (Prototype \/ FirstVersion)
    <3>1. {l.toilet : l \in {k \in locks : k.request = r}} = RouteOf(r)
      <4>1. CASE Prototype
        <5>1. ASSUME NEW t \in RouteOf(r)
              PROVE  Lock(r, t, SourceOf(r)) \in PrototypeLocks
          BY <1>1, <4>1, RouteInToilets, LockMember
        <5>2. locks = PrototypeLocks
          BY <2>1, <4>1 DEF Routed
        <5>3. ASSUME NEW l \in PrototypeLocks, l.request = r
              PROVE  l.toilet \in RouteOf(r)
          BY <5>3 DEF PrototypeLocks
        <5>4. ASSUME NEW t \in RouteOf(r)
              PROVE  \E l \in PrototypeLocks : l.request = r /\ l.toilet = t
          BY <5>1, LockIs
        <5> QED BY <5>2, <5>3, <5>4
      <4>2. CASE FirstVersion
        <5>1. locks = KeptLocks /\ ~Prototype
          BY <2>1, <4>2, FirstVersionIs, <1>1 DEF Routed
        <5> QED BY <4>2, <5>1, RouteIs DEF KeptLocks, FirstVersion
      <4> QED BY <2>1, <4>1, <4>2
    <3>2. request[r] = RoutedRequest(r)
      BY <2>1 DEF Routed
    <3>3. request[r].status = IF Superseded(r) THEN "cancelled" ELSE origin.status[r]
      <4>1. RoutedRequest(r).status = OpenRequest(r).status
        BY DEF RoutedRequest
      <4>2. OpenRequest(r).status = IF Superseded(r) THEN "cancelled" ELSE origin.status[r]
        BY DEF OpenRequest
      <4> QED BY <3>2, <4>1, <4>2
    <3>4. (request[r].mode = "fallback_all") =
             (origin.mode[r] = "fallback_all" \/ OnFallback(r))
      <4>1. RoutedRequest(r).mode =
               IF OnFallback(r) THEN "fallback_all" ELSE OpenRequest(r).mode
        BY DEF RoutedRequest
      <4>2. OpenRequest(r).mode = IF Prototype THEN DefaultMode(r) ELSE origin.mode[r]
        BY DEF OpenRequest
      <4>3. DefaultMode(r) # "fallback_all"
        BY DEF DefaultMode
      <4>4. Prototype => origin.mode[r] # "fallback_all"
        BY <1>1, ThreeKinds, UpgradeAssumption DEF AttemptInv, PrototypeFile, Modes
      <4> QED BY <3>2, <4>1, <4>2, <4>3, <4>4
    <3>5. request[r].blocked =
             (origin.blocked[r] \/
              (WaitsOrVisits(r) /\ origin.status[r] = "pending" /\ RouteOf(r) = {}))
      <4>1. RoutedRequest(r).blocked =
               (origin.blocked[r] \/
                (WaitsOrVisits(r) /\ origin.status[r] = "pending" /\ RouteOf(r) = {}))
        BY DEF RoutedRequest
      <4> QED BY <3>2, <4>1, Zenon
    <3>6. {a.code : a \in {b \in alerts : b.request = r}} =
             {a.code : a \in {b \in origin.alerts : b.request = r}} \cup
             (IF OnFallback(r) THEN ReasonsFor(r) ELSE {})
      <4>1. alerts = RoutedAlerts
        BY <2>1 DEF Routed
      <4>2. ReasonsFor(r) \subseteq Codes
        BY DEF ReasonsFor, Codes
      <4>3. origin.alerts \subseteq [request : Requests, code : Codes]
        BY <1>1, UpgradeAssumption DEF AttemptInv
      <4>4. ASSUME NEW c, OnFallback(r), c \in ReasonsFor(r)
            PROVE  [request |-> r, code |-> c] \in RoutedAlerts
        BY <4>2, <4>4 DEF RoutedAlerts
      <4>5. ASSUME NEW c
            PROVE  (\E a \in RoutedAlerts : a.request = r /\ a.code = c) <=>
                   \/ \E a \in origin.alerts : a.request = r /\ a.code = c
                   \/ OnFallback(r) /\ c \in ReasonsFor(r)
        <5>1. ASSUME NEW a \in RoutedAlerts, a.request = r, a.code = c
              PROVE  \/ \E b \in origin.alerts : b.request = r /\ b.code = c
                     \/ OnFallback(r) /\ c \in ReasonsFor(r)
          BY <5>1 DEF RoutedAlerts
        <5>2. ASSUME NEW a \in origin.alerts, a.request = r, a.code = c
              PROVE  a \in RoutedAlerts
          BY <4>3 DEF RoutedAlerts
        <5>3. ASSUME OnFallback(r), c \in ReasonsFor(r)
              PROVE  \E a \in RoutedAlerts : a.request = r /\ a.code = c
          <6>1. [request |-> r, code |-> c] \in RoutedAlerts
            BY <4>4, <5>3
          <6> QED BY <6>1
        <5> QED BY <5>1, <5>2, <5>3
      <4> QED BY <4>1, <4>5
    <3> QED BY <3>1, <3>3, <3>4, <3>5, <3>6
  <2>2. CASE AsFound /\ ~Prototype /\ ~FirstVersion
    <3>1. locks = origin.locks /\ request[r] = FoundRequest(r)
      BY <2>2 DEF AsFound
    <3>2. RouteOf(r) = {l.toilet : l \in {k \in origin.locks : k.request = r}}
      BY <2>2, RouteIs DEF FirstVersion
    <3>3. ~Superseded(r) /\ FoundRequest(r).status = origin.status[r]
      BY <2>2 DEF Superseded, FoundRequest
    <3> QED BY <2>2, <3>1, <3>2, <3>3
  <2> QED BY <1>1, <2>1, <2>2 DEF RouteInv
<1> QED BY <1>1, AttemptHolds, RouteHolds, PTL

-----------------------------------------------------------------------------
(* The event.                                                              *)

EventTells == Prototype /\ Published => audit = <<Expected>>

LEMMA EventMoves ==
    ASSUME Next
    PROVE  Finalize \/ UNCHANGED <<audit, version>>
<1>1. CASE Start \/ Alter \/ Convert \/ RebuildTables \/ RebuildSessions \/ Create \/ Created
  BY <1>1 DEF Start, Alter, Convert, RebuildTables, RebuildSessions, Create, Created
<1>2. CASE Unlock \/ Repair \/ Purge \/ Identity \/ Index \/ Populate \/ DropMirror \/ Crash
  BY <1>2 DEF Unlock, Repair, Purge, Identity, Index, Populate, DropMirror, Crash
<1> QED BY <1>1, <1>2 DEF Next, Step

LEMMA DetailsTell ==
    ASSUME AttemptInv, Prototype, ~Published, Routed
    PROVE  Details = Expected
<1>1. /\ "class_toilets" \in schema /\ Retired \cap schema = Retired \cap origin.schema
  BY ThreeKinds DEF AttemptInv, PrototypeFile, Retired
<1>2. ASSUME NEW r \in Requests
      PROVE  request[r].by = "schema-upgrade" <=> Superseded(r)
  <2>1. request[r].by = OpenRequest(r).by
    BY DEF Routed, RoutedRequest
  <2>2. request[r].by = IF Superseded(r) THEN "schema-upgrade" ELSE None
    BY <2>1 DEF OpenRequest
  <2> QED BY <2>2, UpgradeAssumption
<1>3. {c \in Classes : "class_toilets" \in schema /\ Cardinality(ChosenToilets(c)) > 1} =
      {c \in Classes : Cardinality(ChosenToilets(c)) > 1}
  BY <1>1
<1>4. {r \in Requests : request[r].by = "schema-upgrade"} = {r \in Requests : Superseded(r)}
  BY <1>2
<1> QED BY <1>1, <1>3, <1>4, Zenon DEF Details, Expected

LEMMA EventStep ==
    ASSUME AttemptInv, RouteInv, EventInv, EventTells, Next
    PROVE  EventTells'
<1>1. origin' = origin /\ Prototype' = Prototype /\ Expected' = Expected
  BY OriginStays, HistoryStays
<1>2. CASE UNCHANGED <<audit, version>>
  BY <1>1, <1>2 DEF EventTells, Published
<1>3. CASE Finalize /\ Prototype
  <2>1. pc = "finalize" /\ audit = <<>>
    BY <1>3 DEF Finalize, EventInv, Announced
  <2>2. ~Published
    BY <1>3, <2>1 DEF EventTells
  <2>3. legacy /\ Routed
    <3>1. Position("finalize") = 14 /\ "finalize" \in Names
      BY Places, ProgramIs, NamesAre
    <3>2. Past(12)
      BY <2>1, <3>1 DEF Past
    <3> QED BY <1>3, <2>1, <2>2, <3>2 DEF RouteInv, AttemptInv
  <2>4. audit' = Append(audit, Details)
    BY <1>3, <2>3 DEF Finalize
  <2>5. audit' = <<Expected>>
    BY <1>3, <2>1, <2>2, <2>3, <2>4, DetailsTell
  <2> QED BY <1>1, <2>5 DEF EventTells
<1>4. CASE ~Prototype
  BY <1>1, <1>4 DEF EventTells
<1> QED BY <1>2, <1>3, <1>4, EventMoves

(* A prototype is upgraded with one event, which tells of every interrupted *)
(* attempt: the classes that lost a choice, the requests that were         *)
(* cancelled and what was removed; and no event is there before its version. *)
THEOREM AuditIsComplete == Spec => []AuditComplete
<1>1. Init => EventInv /\ EventTells
  <2> SUFFICES ASSUME Init PROVE EventInv /\ EventTells
    OBVIOUS
  <2>1. origin \in Origins /\ version = origin.version /\ audit = <<>> /\ missing = {}
    BY DEF Init
  <2>2. ~(Prototype /\ Published)
    BY <2>1, UpgradeAssumption DEF Published, Prototype, SCHEMA_VERSION
  <2> QED BY <2>1, <2>2 DEF EventInv, EventTells
<1>2. AttemptInv /\ RouteInv /\ EventInv /\ EventTells /\ [Next]_vars
         => EventInv' /\ EventTells'
  <2>1. ASSUME EventInv, EventTells, UNCHANGED vars
        PROVE  EventInv' /\ EventTells'
    <3>1. UNCHANGED <<origin, schema, audit, version, pc, found, missing>>
      BY <2>1 DEF vars, attemptVars
    <3>2. Prototype' = Prototype /\ Expected' = Expected
      BY <3>1, HistoryStays
    <3> QED BY <2>1, <3>1, <3>2 DEF EventInv, EventTells, Announced, Published
  <2>2. ASSUME EventInv, Crash
        PROVE  EventInv'
    BY <2>2 DEF Crash, EventInv, Announced, Published
  <2> QED BY <2>1, <2>2, StepKeepsEvent, EventStep DEF Next
<1>3. EventInv /\ EventTells => AuditComplete
  <2> SUFFICES ASSUME EventInv, EventTells PROVE AuditComplete
    OBVIOUS
  <2>1. Len(audit) <= 1 /\ (audit # <<>> => Published)
    <3>1. CASE audit = <<>>
      BY <3>1
    <3>2. CASE audit # <<>>
      <4>1. Len(audit) = 1 /\ Published
        BY <3>2 DEF EventInv, Announced
      <4> QED BY <4>1
    <3> QED BY <3>1, <3>2
  <2> QED BY <2>1 DEF EventTells, Expected, AuditComplete
<1> QED BY <1>1, <1>2, <1>3, AttemptHolds, RouteHolds, PTL DEF Spec

-----------------------------------------------------------------------------
(* Every value is of its kind, and a published request has a routing mode. *)
THEOREM UpgradeTypeCorrect == Spec => []TypeOK
<1>1. ASSUME AttemptInv, SessionInv, OperatorInv, RouteInv
      PROVE  TypeOK
  <2>1. version \in 1..SCHEMA_VERSION \cup {None}
    <3>1. origin.version \in 1..SCHEMA_VERSION \cup {None}
      BY <1>1, ThreeKinds DEF AttemptInv, EmptyFile, PrototypeFile, VersionFile
    <3> QED BY <1>1, <3>1 DEF AttemptInv, Published, SCHEMA_VERSION
  <2>2. /\ origin.toiletOf \in [Classes -> Toilets \cup {None}]
        /\ origin.status \in [Requests -> Statuses]
        /\ origin.mode \in [Requests -> Modes \cup {None}]
        /\ origin.blocked \in [Requests -> BOOLEAN]
        /\ origin.locks \subseteq [request : Requests, toilet : Toilets, source : Sources]
        /\ origin.snapshots \subseteq Requests
        /\ origin.alerts \subseteq [request : Requests, code : Codes]
    BY <1>1, UpgradeAssumption DEF AttemptInv
  <2>3. AsFound \/ Converted \/ Unlocked \/ Routed
    BY <1>1 DEF RouteInv
  <2>4. toiletOf \in [Classes -> Toilets \cup {None}]
    <3>1. \A c \in Classes : ChosenOf(c) \in Toilets \cup {None}
      BY <1>1, <2>2, ChosenIsToilet DEF ChosenOf
    <3> QED BY <2>2, <2>3, <3>1 DEF AsFound, Converted, Unlocked, Routed
  <2>5. request \in [Requests -> RequestStates]
    <3>1. ASSUME NEW r \in Requests
          PROVE  FoundRequest(r) \in RequestStates
      BY <2>2 DEF FoundRequest, RequestStates
    <3>2. ASSUME NEW r \in Requests
          PROVE  /\ OpenRequest(r) \in RequestStates
                 /\ OpenRequest(r).status \in Statuses
                 /\ OpenRequest(r).mode \in Modes \cup {None}
                 /\ OpenRequest(r).by \in {"schema-upgrade", None}
      BY <2>2 DEF OpenRequest, RequestStates, DefaultMode, Statuses, Modes
    <3>3. ASSUME NEW r \in Requests
          PROVE  RoutedRequest(r) \in RequestStates
      BY <2>2, <3>2 DEF RoutedRequest, RequestStates, Modes
    <3> QED BY <2>3, <3>1, <3>2, <3>3 DEF AsFound, Converted, Unlocked, Routed
  <2>6. ASSUME Published, NEW r \in Requests
        PROVE  request[r].mode # None
    <3>1. CASE Routed
      <4>1. request[r].mode = IF OnFallback(r) THEN "fallback_all" ELSE OpenRequest(r).mode
        BY <3>1 DEF Routed, RoutedRequest
      <4>2. OpenRequest(r).mode = IF Prototype THEN DefaultMode(r) ELSE origin.mode[r]
        BY DEF OpenRequest
      <4>3. DefaultMode(r) # None /\ "fallback_all" # None
        BY UpgradeAssumption DEF DefaultMode, Modes
      <4>4. ~Prototype => origin.mode[r] # None
        BY <1>1, ThreeKinds DEF AttemptInv, EmptyFile, VersionFile
      <4> QED BY <4>1, <4>2, <4>3, <4>4
    <3>2. CASE AsFound /\ ~Prototype
      <4>1. request[r].mode = origin.mode[r]
        BY <3>2 DEF AsFound, FoundRequest
      <4>2. origin.mode[r] # None
        BY <1>1, <3>2, ThreeKinds DEF AttemptInv, EmptyFile, VersionFile
      <4> QED BY <4>1, <4>2
    <3> QED BY <1>1, <2>6, <3>1, <3>2 DEF RouteInv
  <2>7. /\ locks \subseteq [request : Requests, toilet : Toilets, source : Sources]
        /\ snapshots \subseteq Requests
        /\ alerts \subseteq [request : Requests, code : Codes]
    BY <2>2, <2>3 DEF AsFound, Converted, Unlocked, Routed, PrototypeLocks, KeptLocks, RoutedAlerts
  <2>8. pc \in Steps
    BY <1>1, NamesAre DEF AttemptInv, Steps, Names
  <2> QED BY <1>1, <2>1, <2>4, <2>5, <2>6, <2>7, <2>8
          DEF AttemptInv, SessionInv, OperatorInv, TypeOK, Published
<1> QED BY <1>1, AttemptHolds, IdentityHolds, RouteHolds, PTL
=============================================================================
