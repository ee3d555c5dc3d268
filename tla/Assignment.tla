---------------------------- MODULE Assignment ----------------------------
(***************************************************************************)
(* From an answer of Olimp-control about one student to the snapshot a     *)
(* request is routed by: ControlClient.student_assignment                  *)
(* (src/control_client.py), which refuses answers that contradict          *)
(* themselves, and MutationService._normalize_assignment (src/service.py), *)
(* which walks over the computers and then the classes of an answer, keeps *)
(* one entry per class and notes what is wrong.  A behaviour is one        *)
(* lookup, a step is one round of a loop.                                  *)
(*                                                                         *)
(* The two were written to different rules: the client accepts what the    *)
(* service then calls malformed, and the service tolerates what the client *)
(* refuses.                                                                *)
(***************************************************************************)
EXTENDS Sequences, SequencesExt

CONSTANTS
    Answers,    \* BOUND: the signed answers of Olimp-control considered
    Classes,    \* class public ids
    Student,    \* the userid asked about
    GridLimit,  \* 30: the widest grid the service draws
    ToiletIds,  \* the toilets configured
    Mappings,   \* BOUND: the class mappings the snapshot may be routed by
    None        \* a field that is null

INSTANCE Routing

(* The codes Olimp-control may send. *)
AllowedAnomalies ==
    {"student_not_found", "no_computers", "computer_without_class",
     "multiple_classes"}

(* A class as it is described in an answer: `name' stands for its name and *)
(* sequence number, 0 columns for a grid that has no size.                 *)
IsDescription(d) ==
    /\ d = [id |-> d.id, name |-> d.name, cols |-> d.cols]
    /\ d.id \in Classes /\ d.cols \in Nat

(* Where a computer stands: nowhere, within the grid, in a row without a   *)
(* column, or beyond the last row or column.                               *)
Seats == {"none", "inside", "half", "outside"}

IsComputer(k) ==
    /\ DOMAIN k = {"id", "class", "seat", "student"}
    /\ k.class # None => IsDescription(k.class)
    /\ k.seat \in Seats

ASSUME AnswersAssumption ==
    /\ GridLimit \in Nat \ {0}
    /\ \A a \in Answers :
          /\ DOMAIN a = {"found", "student", "computers", "classes", "anomalies"}
          /\ a.found \in BOOLEAN
          /\ a.computers \in Seq(ToSet(a.computers))
          /\ \A k \in ToSet(a.computers) : IsComputer(k)
          /\ a.classes \in Seq(ToSet(a.classes))
          /\ \A d \in ToSet(a.classes) : IsDescription(d)

VARIABLES
    reply,       \* what Olimp-control sent
    stage,       \* where the lookup is
    at,          \* the index of the loop
    sources,     \* class_sources: the entry of each class met so far
    malformed,   \* malformed
    codes,       \* anomaly_codes
    assignment   \* the _Assignment returned

lookupVars == <<reply, stage, at, sources, malformed, codes, assignment>>

-----------------------------------------------------------------------------
(* student_assignment *)

ClassIds(a) == {a.classes[i].id : i \in DOMAIN a.classes}
NoDuplicates(s, Id(_)) ==
    \A i, j \in DOMAIN s : Id(s[i]) = Id(s[j]) => i = j

(* The answer is about this student and agrees with itself. *)
Acceptable(a) ==
    /\ a.student = IF a.found THEN Student ELSE None
    /\ NoDuplicates(a.classes, LAMBDA d : d.id)
    /\ NoDuplicates(a.computers, LAMBDA k : k.id)
    /\ \A i \in DOMAIN a.computers :
          LET k == a.computers[i]
          IN /\ k.class # None => k.class.id \in ClassIds(a)
             /\ k.student \in {None, Student}
    /\ a.anomalies \subseteq AllowedAnomalies

(* The endpoint takes None for the assignment after any ControlAPIError. *)
GiveUp ==
    /\ stage' = "done"
    /\ assignment' = Outage
    /\ UNCHANGED <<reply, at, sources, malformed, codes>>

(* No answer, a bad signature, an error status. *)
Unreachable == stage = "asked" /\ GiveUp

RefuseAnswer == stage = "asked" /\ ~Acceptable(reply) /\ GiveUp

AcceptAnswer ==
    /\ stage = "asked"
    /\ Acceptable(reply)
    /\ stage' = "computers"
    /\ at' = 1
    /\ codes' = reply.anomalies
    /\ UNCHANGED <<reply, sources, malformed, assignment>>

-----------------------------------------------------------------------------
(* _normalize_assignment *)

(* validated_int: a number out of range is dropped. *)
TooWide(d) == d.cols > GridLimit
EntryOf(d) == [name |-> d.name, cols |-> IF TooWide(d) THEN 0 ELSE d.cols]

(* class_sources.setdefault: the first description of a class stays. *)
\* Mutant: a student has one class, the one met last.
WithClassMut(d) == [c \in {d.id} |-> EntryOf(d)]
WithClass(d) ==
    [c \in DOMAIN sources \cup {d.id} |->
        IF c \in DOMAIN sources THEN sources[c] ELSE EntryOf(d)]

\* Mutant: two descriptions of a class are not compared.
ClashesMut(d) == FALSE
Clashes(d) == d.id \in DOMAIN sources /\ sources[d.id] # EntryOf(d)

AddClass(d, alsoBad) ==
    /\ sources' = WithClass(d)
    /\ malformed' = (malformed \/ TooWide(d) \/ Clashes(d) \/ alsoBad)

BadSeat(k) == k.seat \in {"half", "outside"}

TakeComputer ==
    /\ stage = "computers"
    /\ at <= Len(reply.computers)
    /\ LET k == reply.computers[at]
       IN \/ /\ k.class # None
             /\ AddClass(k.class, BadSeat(k))
             /\ UNCHANGED codes
          \/ /\ k.class = None
             /\ codes' = codes \cup {"computer_without_class"}
             /\ malformed' = (malformed \/ BadSeat(k))
             /\ UNCHANGED sources
    /\ at' = at + 1
    /\ UNCHANGED <<reply, stage, assignment>>

EndOfComputers ==
    /\ stage = "computers"
    /\ at > Len(reply.computers)
    /\ stage' = "classes"
    /\ at' = 1
    /\ UNCHANGED <<reply, sources, malformed, codes, assignment>>

TakeClass ==
    /\ stage = "classes"
    /\ at <= Len(reply.classes)
    /\ AddClass(reply.classes[at], FALSE)
    /\ at' = at + 1
    /\ UNCHANGED <<reply, stage, codes, assignment>>

(* Of the codes only those _rebuild_route reads are kept: multiple_classes *)
(* and no_class it sees from the classes.                                  *)
CodesRead ==
    SnapshotAnomalies \cap
        (codes \cup {code \in {"assignment_malformed"} : malformed})

Snapshot == [failed |-> malformed, classes |-> DOMAIN sources, anomalies |-> CodesRead]

Conclude ==
    /\ stage = "classes"
    /\ at > Len(reply.classes)
    /\ stage' = "done"
    /\ assignment' = Snapshot
    /\ UNCHANGED <<reply, at, sources, malformed, codes>>

-----------------------------------------------------------------------------
LookupInit ==
    /\ reply \in Answers
    /\ stage = "asked"
    /\ at = 1
    /\ sources = [c \in {} |-> None]
    /\ malformed = FALSE
    /\ codes = {}
    /\ assignment = Outage

LookupNext ==
    \/ Unreachable \/ RefuseAnswer \/ AcceptAnswer
    \/ TakeComputer \/ EndOfComputers \/ TakeClass \/ Conclude

LookupSpec == LookupInit /\ [][LookupNext]_lookupVars

-----------------------------------------------------------------------------
(* What is promised.                                                       *)

Answered == stage = "done" /\ assignment # Outage
Descriptions ==
    ({k.class : k \in ToSet(reply.computers)} \ {None}) \cup ToSet(reply.classes)

(* The snapshot says what the answer says, in whatever order and however   *)
(* often it says it: all its classes, and malformed exactly if one class   *)
(* is described in two ways or something does not fit the grid.            *)
(* setdefault keeps the first description only, so every later one must be *)
(* compared with it.  And it is one the queue expects (QueueAssumption of  *)
(* ToiletQueue).                                                           *)
AsDescribed ==
    Answered =>
        /\ assignment.anomalies \subseteq SnapshotAnomalies
        /\ "assignment_malformed" \in assignment.anomalies => assignment.failed
        /\ assignment.classes = {d.id : d \in Descriptions}
        /\ assignment.failed <=>
              \/ \E d, e \in Descriptions : d.id = e.id /\ d # e
              \/ \E d \in Descriptions : d.cols > GridLimit
              \/ \E k \in ToSet(reply.computers) : k.seat \in {"half", "outside"}
        /\ "computer_without_class" \in assignment.anomalies <=>
              \/ "computer_without_class" \in reply.anomalies
              \/ \E k \in ToSet(reply.computers) : k.class = None

(* Whatever Olimp-control answers, and whether it is accepted, refused or  *)
(* lost, the route of the request has the toilet of the class of every     *)
(* computer in the answer, or else all toilets: no toilet the student may  *)
(* be entitled to is forgotten, under any mapping.                         *)
ComputersCovered ==
    stage = "done" =>
        \A m \in Mappings :
            LET route == RouteLocks(assignment, m, ToiletIds)
            IN \/ route = ToiletIds
               \/ \A k \in ToSet(reply.computers) :
                     k.class # None => m[k.class.id] \in route

=============================================================================
