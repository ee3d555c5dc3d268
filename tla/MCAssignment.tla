--------------------------- MODULE MCAssignment ---------------------------
(* Answers of Olimp-control for TLC: up to two computers and two classes,   *)
(* described alike or not, by all mappings of two classes to two toilets.  *)
EXTENDS Assignment, TLC

CONSTANTS t1, t2

Desc(id, name, cols) == [id |-> id, name |-> name, cols |-> cols]
Described ==
    {Desc("a", "A", 1), Desc("a", "A2", 1), Desc("a", "A", 2), Desc("b", "B", 0)}

Lists(S) == UNION {[1..n -> S] : n \in 0..2}

Computer(id, class, seat, student) ==
    [id |-> id, class |-> class, seat |-> seat, student |-> student]
Computers ==
    {Computer(id, class, "none", "pupil") :
        id \in {"m1", "m2"}, class \in Described \cup {None}}
      \cup {Computer("m1", Desc("a", "A", 1), seat, student) :
               seat \in Seats, student \in {"pupil", None, "other"}}

(* A student that is found or not, or another student. *)
Heads == {<<TRUE, "pupil">>, <<FALSE, None>>, <<TRUE, "other">>}
Warnings ==
    {{}, {"student_not_found"}, {"no_computers", "multiple_classes"}, {"unheard_of"}}

Answer(head, computers, classes, anomalies) ==
    [found |-> head[1], student |-> head[2], computers |-> computers,
     classes |-> classes, anomalies |-> anomalies]

MCAnswers ==
    {Answer(<<TRUE, "pupil">>, ks, ds, {}) :
        ks \in Lists(Computers), ds \in Lists(Described)}
      \cup {Answer(head, ks, ds, an) :
        head \in Heads, an \in Warnings,
        ks \in {<<>>} \cup {<<k>> : k \in Computers},
        ds \in {<<>>} \cup {<<d>> : d \in Described}}

MCClasses == {"a", "b"}
MCMappings == [MCClasses -> {t1, t2, None}]

=============================================================================
