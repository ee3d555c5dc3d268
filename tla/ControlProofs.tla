---------------------------- MODULE ControlProofs ----------------------------
(***************************************************************************)
(* Theorems about Roster for any lists, userids, spellings, ids, callers   *)
(* and number of editions.                                                 *)
(***************************************************************************)
EXTENDS Roster, Assignment, SequenceTheorems, TLAPS

Steps == {"idle", "waiting", "answered", "failed", "installed"}

(* Only the holder of the lock is past the wait for it; what it was         *)
(* answered is an edition no older than the one in the table, or an error. *)
Locked ==
    \A c \in Callers :
        /\ step[c] \in {"answered", "failed", "installed"} => Holds(c)
        /\ step[c] = "answered" => answer[c] \in installed..Len(editions) \ {0}
        /\ step[c] = "failed" => answer[c] \in Errors
        /\ step[c] = "installed" => renewed

LEMMA IdOfListed ==
    ASSUME NEW list \in SUBSET Entries, NEW u \in Listed(list)
    PROVE  IdOf(list, u) \in Ids /\ \E x \in list : x.id = IdOf(list, u) /\ Strip[x.raw] = u
BY DEF Listed, IdOf, Entries

LEMMA EditionType ==
    ASSUME TypeOK, NEW i \in 1..Len(editions)
    PROVE  editions[i] \in Lists /\ editions[i] \in SUBSET Entries
BY RosterAssumption DEF TypeOK

(* The rows after a list that was not refused: the constraint UNIQUE on     *)
(* control_id is never in the way.                                         *)
LEMMA InstallRows ==
    ASSUME TypeOK, NEW list \in SUBSET Entries, ~Refused(list),
           NEW ids, ids = [u \in Userids |->
                       IF u \in Listed(list) THEN IdOf(list, u) ELSE controlId[u]]
    PROVE  /\ ids \in [Userids -> Ids \cup {NoId, NoRow}]
           /\ \A u, v \in Userids : ids[u] \in Ids /\ ids[u] = ids[v] => u = v
           /\ \A u \in Listed(list) : u \in Userids /\ ids[u] \in Ids
<1>1. ids \in [Userids -> Ids \cup {NoId, NoRow}]
  BY IdOfListed DEF TypeOK
<1>2. ASSUME NEW u \in Userids, NEW v \in Userids, ids[u] \in Ids, ids[u] = ids[v]
      PROVE  u = v
  <2>1. CASE u \in Listed(list) /\ v \in Listed(list)
    <3>1. PICK x \in list : x.id = ids[u] /\ Strip[x.raw] = u
      BY <2>1, IdOfListed
    <3>2. PICK y \in list : y.id = ids[v] /\ Strip[y.raw] = v
      BY <2>1, IdOfListed
    <3> QED BY <1>2, <3>1, <3>2 DEF Refused, Duplicate
  <2>2. ASSUME NEW a \in Userids, NEW b \in Userids, ids[a] = ids[b],
               a \in Listed(list), b \notin Listed(list)
        PROVE  a = b
    <3>1. PICK x \in list : x.id = ids[a] /\ Strip[x.raw] = a
      BY <2>2, IdOfListed
    <3>2. controlId[b] = x.id
      BY <2>2, <3>1
    <3> QED BY <3>1, <3>2 DEF Refused, Conflict
  <2>3. CASE u \notin Listed(list) /\ v \notin Listed(list)
    BY <1>2, <2>3 DEF TypeOK
  <2> QED BY <1>2, <2>1, <2>2, <2>3
<1>3. ASSUME NEW u \in Listed(list)
      PROVE  u \in Userids /\ ids[u] \in Ids
  <2>1. u \in Userids
    BY RosterAssumption DEF Listed, Entries
  <2> QED BY <2>1, IdOfListed
<1> QED BY <1>1, <1>2, <1>3

LEMMA TailType ==
    ASSUME NEW S, NEW s \in Seq(S), s # <<>>
    PROVE  Tail(s) \in Seq(S)
OBVIOUS

LEMMA InitInv == Init => TypeOK /\ Locked
<1> SUFFICES ASSUME Init PROVE TypeOK /\ Locked
  OBVIOUS
<1> USE RosterAssumption
<1>1. PICK list \in Lists : editions = <<list>>
  BY DEF Init
<1>2. PICK legacy \in SUBSET Userids :
          /\ controlId = [u \in Userids |-> IF u \in legacy THEN NoId ELSE NoRow]
          /\ enabled = legacy
  BY DEF Init
<1>3. editions \in Seq(Lists) /\ editions # <<>> /\ Len(editions) = 1
  BY <1>1
<1>4. /\ controlId \in [Userids -> Ids \cup {NoId, NoRow}]
      /\ \A u \in Userids : controlId[u] \notin Ids
      /\ enabled \subseteq {u \in Userids : controlId[u] # NoRow}
  BY <1>2
<1>5. /\ step \in [Callers -> {"idle", "waiting", "answered", "failed", "installed"}]
      /\ answer \in [Callers -> Nat \cup Errors \cup {NoError}]
      /\ process \in {"down", "starting", "up"} /\ failure \in Errors \cup {NoError}
      /\ renewed \in BOOLEAN
  BY DEF Init
<1>6. line \in Seq(Callers)
  <2>1. line = <<>>
    BY DEF Init
  <2> QED BY <2>1
<1>7. installed \in 0..Len(editions)
  BY <1>3 DEF Init
<1>8. \A u, v \in Userids : controlId[u] \in Ids /\ controlId[u] = controlId[v] => u = v
  BY <1>4
<1>9. TypeOK
  BY <1>3, <1>4, <1>5, <1>6, <1>7, <1>8 DEF TypeOK
<1> QED BY <1>9 DEF Init, Locked

LEMMA InvStep ==
    ASSUME TypeOK, Locked, Next
    PROVE  TypeOK' /\ Locked'
<1> USE RosterAssumption
<1>1. ASSUME NEW c \in Callers, Enter(c)
      PROVE  TypeOK' /\ Locked'
  <2>1. line' \in Seq(Callers) /\ (line # <<>> => line' # <<>> /\ Head(line') = Head(line))
    BY <1>1 DEF Enter, TypeOK
  <2>2. TypeOK'
    BY <1>1, <2>1 DEF Enter, TypeOK, rosterVars
  <2>3. Locked'
    BY <1>1, <2>1 DEF Enter, TypeOK, Locked, Holds, rosterVars
  <2> QED BY <2>2, <2>3
<1>2. ASSUME NEW c \in Callers, Ask(c)
      PROVE  TypeOK' /\ Locked'
  <2>1. Len(editions) \in Nat \ {0} /\ installed \in 0..Len(editions)
    BY DEF TypeOK
  <2>2. TypeOK'
    BY <1>2, <2>1 DEF Ask, TypeOK, rosterVars
  <2>3. Locked'
    BY <1>2, <2>1 DEF Ask, TypeOK, Locked, Holds, rosterVars
  <2> QED BY <2>2, <2>3
<1>3. ASSUME NEW c \in Callers, Install(c)
      PROVE  TypeOK' /\ Locked'
  <2> DEFINE list == editions[answer[c]]
  <2>1. answer[c] \in 1..Len(editions) /\ Holds(c)
    BY <1>3 DEF Install, Locked, TypeOK
  <2>2. list \in SUBSET Entries /\ ~Refused(list)
    BY <1>3, <2>1, EditionType DEF Install
  <2>3. controlId' = [u \in Userids |->
            IF u \in Listed(list) THEN IdOf(list, u) ELSE controlId[u]]
    BY <1>3 DEF Install
  <2>4. /\ controlId' \in [Userids -> Ids \cup {NoId, NoRow}]
        /\ \A u, v \in Userids : controlId'[u] \in Ids /\ controlId'[u] = controlId'[v] => u = v
        /\ \A u \in Listed(list) : u \in Userids /\ controlId'[u] \in Ids
    BY <2>2, <2>3, InstallRows
  <2>5. enabled' \subseteq {u \in Userids : controlId'[u] # NoRow}
    BY <1>3, <2>4 DEF Install, EnabledBy
  <2>6. /\ step' \in [Callers -> Steps] /\ installed' \in 0..Len(editions) /\ renewed'
        /\ UNCHANGED <<editions, process, line, answer, failure>>
    BY <1>3, <2>1 DEF Install, TypeOK, Steps
  <2>7. TypeOK'
    BY <2>4, <2>5, <2>6 DEF TypeOK, Steps
  <2>8. \A d \in Callers : step[d] \in {"answered", "failed", "installed"} => d = c
    BY <2>1 DEF Locked, Holds
  <2>9. Locked'
    BY <1>3, <2>1, <2>8 DEF Install, Locked, Holds, TypeOK
  <2> QED BY <2>7, <2>9
<1>4. ASSUME NEW c \in Callers, step[c] \in {"answered", "failed", "installed"}, Return(c),
             UNCHANGED <<editions, rosterVars, renewed>>,
             process' \in {"down", "starting", "up"}, failure' \in Errors \cup {NoError}
      PROVE  TypeOK' /\ Locked'
  <2>1. Holds(c)
    BY <1>4 DEF Locked
  <2>2. line' \in Seq(Callers)
    BY <1>4, <2>1, TailType DEF Return, Holds, TypeOK
  <2>3. TypeOK'
    BY <1>4, <2>2 DEF Return, TypeOK, rosterVars
  <2>4. \A d \in Callers : step[d] \in {"answered", "failed", "installed"} => d = c
    BY <2>1 DEF Locked, Holds
  <2>5. Locked'
    BY <1>4, <2>4 DEF Return, TypeOK, Locked
  <2> QED BY <2>3, <2>5
<1>5. ASSUME NEW c \in Callers, Succeed(c) \/ Fail(c) \/ Refuse(c)
      PROVE  TypeOK' /\ Locked'
  <2>1. process' \in {"down", "starting", "up"} /\ failure' \in Errors \cup {NoError}
    BY <1>5 DEF Succeed, Fail, Refuse, ServesAfter, Noted, Locked, TypeOK
  <2> QED BY <1>4, <1>5, <2>1 DEF Succeed, Fail, Refuse
<1>6. CASE Start
  <2>1. /\ line' \in Seq(Callers) /\ step' \in [Callers -> Steps]
        /\ answer' \in [Callers -> Nat \cup Errors \cup {NoError}]
        /\ \A c \in Callers : step'[c] \in {"idle", "waiting"}
    BY <1>6 DEF Start, Steps
  <2>2. UNCHANGED <<editions, rosterVars>> /\ process' = "starting"
        /\ failure' = NoError /\ renewed' = FALSE
    BY <1>6 DEF Start
  <2>3. TypeOK'
    BY <2>1, <2>2 DEF TypeOK, rosterVars, Steps
  <2>4. Locked'
    BY <2>1 DEF Locked
  <2> QED BY <2>3, <2>4
<1>7. CASE Crash
  BY <1>7 DEF Crash, TypeOK, Locked, rosterVars
<1>8. CASE Edit
  <2>1. PICK list \in Lists : editions' = Append(editions, list)
    BY <1>8 DEF Edit
  <2>2. editions' \in Seq(Lists) /\ editions' # <<>> /\ Len(editions') = Len(editions) + 1
    BY <2>1 DEF TypeOK
  <2>3. UNCHANGED <<rosterVars, process, callVars, failure, renewed>>
    BY <1>8 DEF Edit
  <2>4. TypeOK'
    BY <2>2, <2>3 DEF TypeOK, rosterVars, callVars
  <2>5. Locked'
    BY <2>2, <2>3 DEF TypeOK, Locked, Holds, rosterVars, callVars
  <2> QED BY <2>4, <2>5
<1> QED BY <1>1, <1>2, <1>3, <1>5, <1>6, <1>7, <1>8 DEF Next

LEMMA InvHolds == Spec => [](TypeOK /\ Locked)
<1>1. TypeOK /\ Locked /\ [Next]_vars => (TypeOK /\ Locked)'
  <2>1. ASSUME TypeOK, Locked, UNCHANGED vars
        PROVE  TypeOK' /\ Locked'
    BY <2>1 DEF vars, rosterVars, callVars, TypeOK, Locked, Holds
  <2> QED BY <2>1, InvStep
<1> QED BY <1>1, InitInv, PTL DEF Spec

(* Every reachable state is well typed; no two rows have one control_id,    *)
(* so the UNIQUE constraint is never in the way of an accepted list.       *)
THEOREM RosterTypeCorrect == Spec => []TypeOK
BY InvHolds, PTL

(* The enabled contestants are those of one edition of Olimp-control's      *)
(* list, with its ids, whatever lists are refused, calls fail or end half  *)
(* way.                                                                    *)
THEOREM OneEdition == Spec => []RosterIsOneEdition
<1>1. Init => RosterIsOneEdition
  BY DEF Init, RosterIsOneEdition
<1>2. TypeOK /\ Locked /\ RosterIsOneEdition /\ [Next]_vars => RosterIsOneEdition'
  <2> SUFFICES ASSUME TypeOK, Locked, RosterIsOneEdition, [Next]_vars
               PROVE  RosterIsOneEdition'
    OBVIOUS
  <2>1. CASE UNCHANGED <<editions, rosterVars>>
    BY <2>1 DEF rosterVars, RosterIsOneEdition, IdOf, Listed
  <2>2. ASSUME NEW c \in Callers, Install(c)
        PROVE  RosterIsOneEdition'
    <3> DEFINE list == editions[answer[c]]
    <3>1. answer[c] \in 1..Len(editions)
      BY <2>2 DEF Install, Locked, TypeOK
    <3>2. list \in SUBSET Entries
      BY <3>1, EditionType
    <3>3. \A u \in Listed(list) : u \in Userids
      BY <3>2, RosterAssumption DEF Listed, Entries
    <3>4. /\ enabled' = Listed(list) /\ editions' = editions /\ installed' = answer[c]
          /\ \A u \in Listed(list) : controlId'[u] = IdOf(list, u)
      BY <2>2, <3>3 DEF Install, EnabledBy
    <3> QED BY <3>4 DEF RosterIsOneEdition
  <2>3. CASE Edit
    <3>1. PICK list \in Lists : editions' = Append(editions, list)
      BY <2>3 DEF Edit
    <3>2. installed > 0 => editions'[installed] = editions[installed]
      BY <3>1 DEF TypeOK
    <3>3. UNCHANGED rosterVars
      BY <2>3 DEF Edit
    <3> QED BY <3>2, <3>3 DEF rosterVars, RosterIsOneEdition
  <2>4. \/ UNCHANGED <<editions, rosterVars>>
        \/ \E c \in Callers : Install(c)
        \/ Edit
    BY DEF Next, vars, Enter, Ask, Succeed, Fail, Refuse, Start, Crash
  <2> QED BY <2>1, <2>2, <2>3, <2>4
<1> QED BY <1>1, <1>2, InvHolds, PTL DEF Spec

(* A process that serves and has never read the list itself has the flag    *)
(* set, so that it tells a contestant it does not find "unavailable".      *)
THEOREM FreshOrFlaggedAlways == Spec => []FreshOrFlagged
<1>1. Init => FreshOrFlagged
  BY DEF Init, FreshOrFlagged
<1>2. Locked /\ FreshOrFlagged /\ [Next]_vars => FreshOrFlagged'
  <2> SUFFICES ASSUME Locked, FreshOrFlagged, [Next]_vars
               PROVE  FreshOrFlagged'
    OBVIOUS
  <2>1. ASSUME NEW c \in Callers, Succeed(c)
        PROVE  FreshOrFlagged'
    BY <2>1 DEF Succeed, Locked, FreshOrFlagged
  <2>2. ASSUME NEW c \in Callers, Fail(c)
        PROVE  FreshOrFlagged'
    BY <2>2, RosterAssumption DEF Fail, Noted, Locked, FreshOrFlagged
  <2>3. ASSUME NEW c \in Callers, Refuse(c)
        PROVE  FreshOrFlagged'
    BY <2>3 DEF Refuse, ServesAfter, FreshOrFlagged
  <2>4. CASE \/ \E c \in Callers : Enter(c) \/ Ask(c)
             \/ Edit
             \/ UNCHANGED vars
    BY <2>4 DEF Enter, Ask, Edit, vars, FreshOrFlagged
  <2>5. CASE Start \/ Crash \/ \E c \in Callers : Install(c)
    BY <2>5 DEF Start, Crash, Install, FreshOrFlagged
  <2> QED BY <2>1, <2>2, <2>3, <2>4, <2>5 DEF Next
<1> QED BY <1>1, <1>2, InvHolds, PTL DEF Spec

(* A later roster is never replaced by an earlier one, however long the     *)
(* answer of an earlier call took.                                         *)
THEOREM NeverOlderThanBefore == Spec => NeverOlder
<1>1. TypeOK /\ Locked /\ [Next]_vars => [installed' >= installed]_vars
  <2> SUFFICES ASSUME TypeOK, Locked, Next
               PROVE  installed' >= installed
    BY DEF vars
  <2>1. installed \in Nat
    BY DEF TypeOK
  <2>2. ASSUME NEW c \in Callers, Install(c)
        PROVE  installed' >= installed
    BY <2>1, <2>2 DEF Install, Locked, TypeOK
  <2>3. CASE installed' = installed
    BY <2>1, <2>3
  <2> QED BY <2>2, <2>3 DEF Next, Enter, Ask, Succeed, Fail, Refuse, Start, Crash, Edit, rosterVars
<1> QED BY <1>1, InvHolds, PTL DEF Spec, NeverOlder

-----------------------------------------------------------------------------
(* Assignment: what the two loops have kept of the descriptions they met.  *)

(* Descriptions D do not agree with the grid or with one another, or a     *)
(* computer is out of its place (`seats').                                 *)
IllDescribed(D, seats) ==
    \/ seats
    \/ \E d \in D : TooWide(d)
    \/ \E d, e \in D : d.id = e.id /\ d # e

(* One entry per class, which is that of one of its descriptions, and the  *)
(* flag if they are ill.                                                   *)
Tallied(D, seats, kept, ill) ==
    /\ DOMAIN kept = {d.id : d \in D}
    /\ \A c \in DOMAIN kept : \E d \in D : d.id = c /\ kept[c] = EntryOf(d)
    /\ ill \in BOOLEAN
    /\ ill <=> IllDescribed(D, seats)

(* What is told apart of two descriptions of a class, if both fit the grid. *)
LEMMA EntryTells ==
    ASSUME NEW d, NEW e, IsDescription(d), IsDescription(e),
           ~TooWide(d), ~TooWide(e), d.id = e.id, EntryOf(d) = EntryOf(e)
    PROVE  d = e
<1>1. EntryOf(d) = [name |-> d.name, cols |-> d.cols]
  BY DEF EntryOf
<1>2. EntryOf(e) = [name |-> e.name, cols |-> e.cols]
  BY DEF EntryOf
<1>3. EntryOf(d).name = d.name /\ EntryOf(d).cols = d.cols
  BY <1>1
<1>4. EntryOf(e).name = e.name /\ EntryOf(e).cols = e.cols
  BY <1>2
<1>5. d.name = e.name /\ d.cols = e.cols
  BY <1>3, <1>4
<1> QED BY <1>5 DEF IsDescription

(* add_class: the entry that setdefault keeps is enough to compare a later  *)
(* description with all the earlier ones.                                  *)
LEMMA OneMore ==
    ASSUME NEW D, \A e \in D : IsDescription(e), NEW seats \in BOOLEAN,
           Tallied(D, seats, sources, malformed),
           NEW d, IsDescription(d), NEW bad \in BOOLEAN
    PROVE  Tallied(D \cup {d}, seats \/ bad, WithClass(d),
                   malformed \/ TooWide(d) \/ Clashes(d) \/ bad)
<1> DEFINE kept == WithClass(d)
           ill == malformed \/ TooWide(d) \/ Clashes(d) \/ bad
           more == D \cup {d}
<1>1. DOMAIN kept = DOMAIN sources \cup {d.id}
  BY DEF WithClass
<1>2. DOMAIN kept = {e.id : e \in more}
  BY <1>1 DEF Tallied
<1>3. ASSUME NEW c \in DOMAIN kept
      PROVE  \E e \in more : e.id = c /\ kept[c] = EntryOf(e)
  <2>1. CASE c \in DOMAIN sources
    <3>1. kept[c] = sources[c]
      BY <2>1, <1>3, <1>1 DEF WithClass
    <3> QED BY <3>1, <2>1 DEF Tallied
  <2>2. CASE c \notin DOMAIN sources
    <3>1. c = d.id
      BY <2>2, <1>3, <1>1
    <3>2. kept[c] = EntryOf(d)
      BY <2>2, <1>3, <1>1 DEF WithClass
    <3> QED BY <3>1, <3>2
  <2> QED BY <2>1, <2>2
<1>4. ill => IllDescribed(more, seats \/ bad)
  <2>1. CASE malformed
    BY <2>1 DEF Tallied, IllDescribed
  <2>2. CASE TooWide(d) \/ bad
    BY <2>2 DEF IllDescribed
  <2>3. CASE Clashes(d)
    <3>1. PICK e \in D : e.id = d.id /\ sources[d.id] = EntryOf(e)
      BY <2>3 DEF Clashes, Tallied
    <3>2. e # d
      BY <2>3, <3>1 DEF Clashes
    <3> QED BY <3>1, <3>2 DEF IllDescribed
  <2> QED BY <2>1, <2>2, <2>3
<1>5. IllDescribed(more, seats \/ bad) => ill
  <2> SUFFICES ASSUME IllDescribed(more, seats \/ bad), ~ill
               PROVE  FALSE
    OBVIOUS
  <2>1. /\ ~malformed /\ ~TooWide(d) /\ ~Clashes(d) /\ ~bad
    OBVIOUS
  <2>2. ~IllDescribed(D, seats)
    BY <2>1 DEF Tallied
  <2>3. ~seats /\ (\A e \in D : ~TooWide(e)) /\ \A e, f \in D : e.id = f.id => e = f
    BY <2>2 DEF IllDescribed
  <2>4. PICK e \in D : e.id = d.id /\ e # d
    BY <2>1, <2>3 DEF IllDescribed
  <2>5. d.id \in DOMAIN sources
    BY <2>4 DEF Tallied
  <2>6. PICK f \in D : f.id = d.id /\ sources[d.id] = EntryOf(f)
    BY <2>5 DEF Tallied
  <2>7. f = e
    BY <2>3, <2>4, <2>6
  <2>8. EntryOf(e) = EntryOf(d)
    BY <2>1, <2>5, <2>6, <2>7 DEF Clashes
  <2> QED BY <2>1, <2>3, <2>4, <2>8, EntryTells
<1>6. ill \in BOOLEAN
  OBVIOUS
<1> HIDE DEF kept, ill, more
<1>7. Tallied(more, seats \/ bad, kept, ill)
  BY <1>2, <1>3, <1>4, <1>5, <1>6 DEF Tallied
<1> QED BY <1>7 DEF kept, ill, more

(* What the loops have met: the first n computers of the answer and the    *)
(* first p of its classes.                                                 *)
ComputersMet(n) == {reply.computers[i] : i \in 1..n}
ClassesMet(p) == {reply.classes[i] : i \in 1..p}
DescriptionsMet(n, p) == ({k.class : k \in ComputersMet(n)} \ {None}) \cup ClassesMet(p)
SeatsMet(n) == \E k \in ComputersMet(n) : BadSeat(k)

(* The loops are at a place of the answer and have kept what they met.     *)
Met(n, p) ==
    /\ n \in 0..Len(reply.computers)
    /\ p \in 0..Len(reply.classes)
    /\ reply.anomalies \subseteq AllowedAnomalies
    /\ Tallied(DescriptionsMet(n, p), SeatsMet(n), sources, malformed)
    /\ codes = reply.anomalies
          \cup {code \in {"computer_without_class"} :
                    \E k \in ComputersMet(n) : k.class = None}

All == Met(Len(reply.computers), Len(reply.classes))

(* A snapshot is of the whole answer.                                       *)
LookupInv ==
    /\ reply \in Answers
    /\ at \in Nat \ {0}
    /\ stage \in {"asked", "computers", "classes", "done"}
    /\ stage = "asked" => sources = [c \in {} |-> None] /\ malformed = FALSE
    /\ stage = "computers" => \E n \in Nat : at = n + 1 /\ Met(n, 0)
    /\ stage = "classes" => \E p \in Nat : at = p + 1 /\ Met(Len(reply.computers), p)
    /\ stage = "done" => assignment = Outage \/ (All /\ assignment = Snapshot)

LEMMA AnswerType ==
    ASSUME NEW a \in Answers
    PROVE  /\ Len(a.computers) \in Nat /\ DOMAIN a.computers = 1..Len(a.computers)
           /\ Len(a.classes) \in Nat /\ DOMAIN a.classes = 1..Len(a.classes)
           /\ \A i \in 1..Len(a.computers) : IsComputer(a.computers[i])
           /\ \A i \in 1..Len(a.classes) : IsDescription(a.classes[i])
<1>1. a.computers \in Seq(ToSet(a.computers)) /\ a.classes \in Seq(ToSet(a.classes))
  BY AnswersAssumption
<1>2. /\ Len(a.computers) \in Nat /\ DOMAIN a.computers = 1..Len(a.computers)
      /\ Len(a.classes) \in Nat /\ DOMAIN a.classes = 1..Len(a.classes)
  BY <1>1, LenProperties
<1>3. /\ \A k \in ToSet(a.computers) : IsComputer(k)
      /\ \A d \in ToSet(a.classes) : IsDescription(d)
  BY AnswersAssumption
<1> QED BY <1>2, <1>3 DEF ToSet

LEMMA MetType ==
    ASSUME reply \in Answers, NEW n \in 0..Len(reply.computers),
           NEW p \in 0..Len(reply.classes)
    PROVE  /\ \A d \in DescriptionsMet(n, p) : IsDescription(d)
           /\ SeatsMet(n) \in BOOLEAN
<1>1. \A k \in ComputersMet(n) : IsComputer(k)
  BY AnswerType DEF ComputersMet
<1>2. \A d \in ClassesMet(p) : IsDescription(d)
  BY AnswerType DEF ClassesMet
<1> QED BY <1>1, <1>2 DEF DescriptionsMet, IsComputer, SeatsMet

LEMMA NoneMet ==
    /\ ComputersMet(0) = {} /\ ClassesMet(0) = {}
    /\ DescriptionsMet(0, 0) = {} /\ ~SeatsMet(0)
BY DEF ComputersMet, ClassesMet, DescriptionsMet, SeatsMet

LEMMA MetFrame ==
    ASSUME reply' = reply, NEW n, NEW p
    PROVE  /\ DescriptionsMet(n, p)' = DescriptionsMet(n, p)
           /\ ComputersMet(n)' = ComputersMet(n)
           /\ SeatsMet(n)' <=> SeatsMet(n)
BY DEF DescriptionsMet, SeatsMet, ComputersMet, ClassesMet

(* The loops have met what they have kept.                                 *)
LEMMA MetNow ==
    ASSUME reply' = reply, NEW n \in 0..Len(reply.computers), NEW p \in 0..Len(reply.classes),
           reply.anomalies \subseteq AllowedAnomalies,
           Tallied(DescriptionsMet(n, p), SeatsMet(n), sources', malformed'),
           codes' = reply.anomalies
              \cup {code \in {"computer_without_class"} :
                        \E k \in ComputersMet(n) : k.class = None}
    PROVE  Met(n, p)'
<1>1. /\ DescriptionsMet(n, p)' = DescriptionsMet(n, p)
      /\ ComputersMet(n)' = ComputersMet(n)
      /\ SeatsMet(n)' <=> SeatsMet(n)
  BY MetFrame
<1>2. Tallied(DescriptionsMet(n, p), SeatsMet(n), sources, malformed)'
  BY <1>1 DEF Tallied, IllDescribed
<1> QED BY <1>1, <1>2 DEF Met

LEMMA AcceptKeeps ==
    ASSUME LookupInv, AcceptAnswer
    PROVE  LookupInv'
<1>1. reply' = reply /\ sources' = sources /\ malformed' = malformed
  BY DEF AcceptAnswer
<1>2. sources = [c \in {} |-> None] /\ malformed = FALSE
  BY DEF AcceptAnswer, LookupInv
<1>3. Tallied({}, FALSE, sources, malformed)
  BY <1>2 DEF Tallied, IllDescribed
<1>4. reply.anomalies \subseteq AllowedAnomalies /\ codes' = reply.anomalies
  BY DEF AcceptAnswer, Acceptable
<1>5. Tallied(DescriptionsMet(0, 0), SeatsMet(0), sources, malformed)
  BY <1>3, NoneMet DEF Tallied, IllDescribed
<1>6. 0 \in 0..Len(reply.computers) /\ 0 \in 0..Len(reply.classes)
  BY AnswerType DEF LookupInv
<1>7. Tallied(DescriptionsMet(0, 0), SeatsMet(0), sources', malformed')
  BY <1>1, <1>5
<1>8. codes' = reply.anomalies
          \cup {code \in {"computer_without_class"} :
                    \E k \in ComputersMet(0) : k.class = None}
  BY <1>4, NoneMet
<1>9. Met(0, 0)'
  BY <1>1, <1>4, <1>6, <1>7, <1>8, MetNow
<1>10. stage' = "computers" /\ at' = 0 + 1 /\ 0 \in Nat
  BY DEF AcceptAnswer
<1> QED BY <1>1, <1>9, <1>10 DEF LookupInv


(* One computer more.                                                      *)
LEMMA ComputerMore ==
    ASSUME reply \in Answers, NEW n \in Nat, n < Len(reply.computers),
           NEW k, k = reply.computers[n + 1]
    PROVE  /\ ComputersMet(n + 1) = ComputersMet(n) \cup {k}
           /\ DescriptionsMet(n + 1, 0) =
                 IF k.class = None THEN DescriptionsMet(n, 0)
                 ELSE DescriptionsMet(n, 0) \cup {k.class}
           /\ SeatsMet(n + 1) <=> SeatsMet(n) \/ BadSeat(k)
           /\ IsComputer(k)
<1>1. 1..(n + 1) = (1..n) \cup {n + 1}
  OBVIOUS
<1>2. ComputersMet(n + 1) = ComputersMet(n) \cup {k}
  BY <1>1 DEF ComputersMet
<1>3. IsComputer(k)
  BY AnswerType
<1>4. ClassesMet(0) = {}
  BY NoneMet
<1> QED BY <1>2, <1>3, <1>4 DEF DescriptionsMet, SeatsMet

LEMMA ComputerKeeps ==
    ASSUME LookupInv, TakeComputer
    PROVE  LookupInv'
<1>1. PICK n \in Nat : at = n + 1 /\ Met(n, 0)
  BY DEF TakeComputer, LookupInv
<1>2. n < Len(reply.computers) /\ Len(reply.computers) \in Nat /\ reply \in Answers
  BY <1>1, AnswerType DEF TakeComputer, LookupInv
<1>3. PICK k : k = reply.computers[n + 1]
  OBVIOUS
<1>4. /\ ComputersMet(n + 1) = ComputersMet(n) \cup {k}
      /\ DescriptionsMet(n + 1, 0) =
            IF k.class = None THEN DescriptionsMet(n, 0)
            ELSE DescriptionsMet(n, 0) \cup {k.class}
      /\ SeatsMet(n + 1) <=> SeatsMet(n) \/ BadSeat(k)
      /\ IsComputer(k)
  BY <1>2, <1>3, ComputerMore
<1>5. reply' = reply /\ stage' = stage /\ stage = "computers" /\ at' = n + 2
  BY <1>1 DEF TakeComputer
<1>6. /\ \A d \in DescriptionsMet(n, 0) : IsDescription(d)
      /\ SeatsMet(n) \in BOOLEAN
  BY <1>2, MetType, AnswerType
<1>7. Tallied(DescriptionsMet(n + 1, 0), SeatsMet(n + 1), sources', malformed')
  <2>1. CASE k.class # None
    <3>1. sources' = WithClass(k.class)
          /\ malformed' = (malformed \/ TooWide(k.class) \/ Clashes(k.class) \/ BadSeat(k))
      BY <2>1, <1>1, <1>3 DEF TakeComputer, AddClass
    <3>2. IsDescription(k.class) /\ BadSeat(k) \in BOOLEAN
      BY <2>1, <1>4 DEF IsComputer, BadSeat
    <3>3. Tallied(DescriptionsMet(n, 0) \cup {k.class}, SeatsMet(n) \/ BadSeat(k), sources', malformed')
      BY <3>1, <3>2, <1>1, <1>6, OneMore DEF Met
    <3>4. SeatsMet(n + 1) = (SeatsMet(n) \/ BadSeat(k))
      BY <1>4, Zenon DEF SeatsMet
    <3> QED BY <3>3, <3>4, <2>1, <1>4, Zenon
  <2>2. CASE k.class = None
    <3>1. sources' = sources /\ malformed' = (malformed \/ BadSeat(k))
      BY <2>2, <1>1, <1>3 DEF TakeComputer
    <3> QED BY <3>1, <2>2, <1>1, <1>4 DEF Met, Tallied, IllDescribed
  <2> QED BY <2>1, <2>2
<1>8. codes' = reply.anomalies
          \cup {code \in {"computer_without_class"} :
                    \E x \in ComputersMet(n + 1) : x.class = None}
  BY <1>1, <1>3, <1>4 DEF TakeComputer, Met
<1>9. Met(n + 1, 0)'
  <2>1. n + 1 \in 0..Len(reply.computers) /\ 0 \in 0..Len(reply.classes)
        /\ reply.anomalies \subseteq AllowedAnomalies
    BY <1>1, <1>2 DEF Met
  <2> QED BY <2>1, <1>5, <1>7, <1>8, MetNow
<1>10. n + 1 \in Nat /\ at' = (n + 1) + 1
  BY <1>5
<1> QED BY <1>5, <1>9, <1>10, <1>2 DEF LookupInv

LEMMA EndOfComputersKeeps ==
    ASSUME LookupInv, EndOfComputers
    PROVE  LookupInv'
<1>1. PICK n \in Nat : at = n + 1 /\ Met(n, 0)
  BY DEF EndOfComputers, LookupInv
<1>2. n = Len(reply.computers) /\ reply \in Answers /\ Len(reply.classes) \in Nat
  BY <1>1, AnswerType DEF EndOfComputers, LookupInv, Met
<1>3. reply' = reply /\ sources' = sources /\ malformed' = malformed /\ codes' = codes
  BY DEF EndOfComputers
<1>4. Met(n, 0)'
  <2>1. /\ n \in 0..Len(reply.computers) /\ 0 \in 0..Len(reply.classes)
        /\ reply.anomalies \subseteq AllowedAnomalies
    BY <1>1 DEF Met
  <2>2. Tallied(DescriptionsMet(n, 0), SeatsMet(n), sources', malformed')
    BY <1>1, <1>3 DEF Met
  <2> QED BY <2>1, <2>2, <1>1, <1>3, MetNow DEF Met
<1>5. stage' = "classes" /\ at' = 0 + 1 /\ 0 \in Nat
  BY DEF EndOfComputers
<1> QED BY <1>2, <1>3, <1>4, <1>5 DEF LookupInv

(* One class more.                                                         *)
LEMMA ClassMore ==
    ASSUME reply \in Answers, NEW p \in Nat, p < Len(reply.classes),
           NEW d, d = reply.classes[p + 1]
    PROVE  /\ ClassesMet(p + 1) = ClassesMet(p) \cup {d}
           /\ IsDescription(d)
<1>1. 1..(p + 1) = (1..p) \cup {p + 1}
  OBVIOUS
<1>2. ClassesMet(p + 1) = ClassesMet(p) \cup {d}
  BY <1>1 DEF ClassesMet
<1>3. IsDescription(d)
  BY AnswerType
<1> QED BY <1>2, <1>3

LEMMA ClassKeeps ==
    ASSUME LookupInv, TakeClass
    PROVE  LookupInv'
<1>0. PICK n : n = Len(reply.computers)
  OBVIOUS
<1>1. PICK p \in Nat : at = p + 1 /\ Met(n, p)
  BY <1>0 DEF TakeClass, LookupInv
<1>2. /\ p < Len(reply.classes) /\ Len(reply.classes) \in Nat /\ reply \in Answers
      /\ n \in 0..Len(reply.computers)
  BY <1>0, <1>1, AnswerType DEF TakeClass, LookupInv
<1>3. PICK d : d = reply.classes[p + 1]
  OBVIOUS
<1>4. /\ DescriptionsMet(n, p + 1) = DescriptionsMet(n, p) \cup {d}
      /\ IsDescription(d)
  BY <1>2, <1>3, ClassMore DEF DescriptionsMet
<1>5. /\ reply' = reply /\ codes' = codes
      /\ stage' = stage /\ stage = "classes" /\ at' = (p + 1) + 1
      /\ sources' = WithClass(d)
      /\ malformed' = (malformed \/ TooWide(d) \/ Clashes(d) \/ FALSE)
  BY <1>1, <1>3 DEF TakeClass, AddClass
<1>6. /\ \A e \in DescriptionsMet(n, p) : IsDescription(e)
      /\ SeatsMet(n) \in BOOLEAN
  BY <1>1, <1>2, MetType DEF Met
<1>7. Tallied(DescriptionsMet(n, p), SeatsMet(n), sources, malformed)
  BY <1>1 DEF Met
<1>8. Tallied(DescriptionsMet(n, p) \cup {d}, SeatsMet(n) \/ FALSE, sources', malformed')
  BY <1>4, <1>5, <1>6, <1>7, OneMore
<1>9. Tallied(DescriptionsMet(n, p + 1), SeatsMet(n), sources', malformed')
  BY <1>4, <1>8 DEF Tallied, IllDescribed
<1>10. Met(n, p + 1)'
  <2>1. /\ p + 1 \in 0..Len(reply.classes) /\ reply.anomalies \subseteq AllowedAnomalies
        /\ codes = reply.anomalies
              \cup {code \in {"computer_without_class"} :
                        \E k \in ComputersMet(n) : k.class = None}
    BY <1>1, <1>2 DEF Met
  <2> QED BY <2>1, <1>2, <1>5, <1>9, MetNow
<1>11. p + 1 \in Nat /\ Met(Len(reply.computers), p + 1)'
  BY <1>0, <1>5, <1>10
<1> QED BY <1>2, <1>5, <1>11 DEF LookupInv

LEMMA ConcludeKeeps ==
    ASSUME LookupInv, Conclude
    PROVE  LookupInv'
<1>1. PICK p \in Nat : at = p + 1 /\ Met(Len(reply.computers), p)
  BY DEF Conclude, LookupInv
<1>2. p = Len(reply.classes)
  BY <1>1, AnswerType DEF Conclude, LookupInv, Met
<1>3. All
  BY <1>1, <1>2 DEF All
<1>4. /\ reply' = reply /\ sources' = sources /\ malformed' = malformed /\ codes' = codes
      /\ at' = at /\ stage' = "done" /\ assignment' = Snapshot
  BY DEF Conclude
<1>5. Snapshot' = Snapshot
  BY <1>4 DEF Snapshot, CodesRead
<1>6. All'
  <2>1. PICK n \in 0..Len(reply.computers), q \in 0..Len(reply.classes) :
           n = Len(reply.computers) /\ q = Len(reply.classes)
    BY AnswerType DEF LookupInv
  <2>2. Met(n, q)
    BY <1>3, <2>1 DEF All
  <2>3. Tallied(DescriptionsMet(n, q), SeatsMet(n), sources', malformed')
    BY <2>2, <1>4 DEF Met
  <2>4. Met(n, q)'
    BY <2>2, <2>3, <1>4, MetNow DEF Met
  <2> QED BY <2>1, <2>4, <1>4 DEF All
<1> QED BY <1>4, <1>5, <1>6 DEF LookupInv

LEMMA LookupInvHolds == LookupSpec => []LookupInv
<1>1. LookupInit => LookupInv
  BY DEF LookupInit, LookupInv
<1>2. LookupInv /\ [LookupNext]_lookupVars => LookupInv'
  <2> SUFFICES ASSUME LookupInv, [LookupNext]_lookupVars
               PROVE  LookupInv'
    OBVIOUS
  <2>1. CASE Unreachable \/ RefuseAnswer
    BY <2>1 DEF Unreachable, RefuseAnswer, GiveUp, LookupInv
  <2>2. CASE UNCHANGED lookupVars
    <3>1. Snapshot' = Snapshot
      BY <2>2 DEF lookupVars, Snapshot, CodesRead
    <3>2. ASSUME NEW n, NEW p, Met(n, p)
          PROVE  Met(n, p)'
      BY <2>2, <3>2, MetNow DEF lookupVars, Met
    <3>3. /\ reply' = reply /\ at' = at /\ stage' = stage /\ sources' = sources
          /\ malformed' = malformed /\ assignment' = assignment
      BY <2>2 DEF lookupVars
    <3>4. All => All'
      BY <3>2, <3>3 DEF All
    <3> QED BY <3>1, <3>2, <3>3, <3>4 DEF LookupInv
  <2> QED BY <2>1, <2>2, AcceptKeeps, ComputerKeeps, EndOfComputersKeeps, ClassKeeps,
             ConcludeKeeps DEF LookupNext
<1> QED BY <1>1, <1>2, PTL DEF LookupSpec

(* All that a finished lookup has met is all that the answer says.         *)
LEMMA AllIsEverything ==
    ASSUME LookupInv, All
    PROVE  /\ DescriptionsMet(Len(reply.computers), Len(reply.classes)) = Descriptions
           /\ ComputersMet(Len(reply.computers)) = ToSet(reply.computers)
<1>1. /\ DOMAIN reply.computers = 1..Len(reply.computers)
      /\ DOMAIN reply.classes = 1..Len(reply.classes)
  BY AnswerType DEF LookupInv
<1>2. ComputersMet(Len(reply.computers)) = ToSet(reply.computers)
  BY <1>1 DEF ComputersMet, ToSet
<1>3. ClassesMet(Len(reply.classes)) = ToSet(reply.classes)
  BY <1>1 DEF ClassesMet, ToSet
<1> QED BY <1>2, <1>3 DEF DescriptionsMet, Descriptions

(* The snapshot says what the answer says, in whatever order and however   *)
(* often it says it: setdefault keeps one description of a class, and      *)
(* comparing every later one with that misses no contradiction.            *)
THEOREM SnapshotIsAsDescribed == LookupSpec => []AsDescribed
<1>1. LookupInv => AsDescribed
  <2> SUFFICES ASSUME LookupInv, Answered
               PROVE  AsDescribed
    BY DEF AsDescribed
  <2>1. All /\ assignment = Snapshot
    BY DEF LookupInv, Answered
  <2>2. /\ DOMAIN sources = {d.id : d \in Descriptions}
        /\ malformed \in BOOLEAN
        /\ malformed <=> IllDescribed(Descriptions, SeatsMet(Len(reply.computers)))
    BY <2>1, AllIsEverything DEF All, Met, Tallied
  <2>3. malformed <=>
              \/ \E d, e \in Descriptions : d.id = e.id /\ d # e
              \/ \E d \in Descriptions : d.cols > GridLimit
              \/ \E k \in ToSet(reply.computers) : k.seat \in {"half", "outside"}
    BY <2>1, <2>2, AllIsEverything DEF IllDescribed, TooWide, SeatsMet, BadSeat
  <2>4. /\ assignment.failed = malformed /\ assignment.classes = DOMAIN sources
        /\ assignment.anomalies = CodesRead
    BY <2>1 DEF Snapshot
  <2>5. /\ reply.anomalies \subseteq AllowedAnomalies
        /\ codes = reply.anomalies
              \cup {code \in {"computer_without_class"} :
                        \E k \in ToSet(reply.computers) : k.class = None}
    BY <2>1, AllIsEverything DEF All, Met
  <2>6. /\ CodesRead \subseteq SnapshotAnomalies
        /\ "assignment_malformed" \in CodesRead => malformed
        /\ "computer_without_class" \in CodesRead <=> "computer_without_class" \in codes
    BY <2>5 DEF CodesRead, SnapshotAnomalies, AllowedAnomalies
  <2> QED BY <2>2, <2>3, <2>4, <2>5, <2>6 DEF AsDescribed
<1> QED BY <1>1, LookupInvHolds, PTL

(* Whatever Olimp-control answers, and whether it is accepted, refused or   *)
(* lost, the route of the request has the toilet of the class of every     *)
(* computer in the answer, or else all toilets.                            *)
THEOREM ComputersAreCovered == LookupSpec => []ComputersCovered
<1>1. LookupInv => ComputersCovered
  <2> SUFFICES ASSUME LookupInv, stage = "done", NEW m \in Mappings,
                      NEW route, route = RouteLocks(assignment, m, ToiletIds), route # ToiletIds,
                      NEW k \in ToSet(reply.computers), k.class # None
               PROVE  m[k.class.id] \in route
    BY DEF ComputersCovered
  <2>1. ~Fallback(assignment, m) /\ route = MappedToilets(assignment, m) \cap ToiletIds
    BY DEF RouteLocks
  <2>2. assignment # Outage
    BY <2>1 DEF Fallback, LookupFailed, Outage
  <2>3. All /\ assignment = Snapshot
    BY <2>2 DEF LookupInv
  <2>4. DOMAIN sources = {d.id : d \in Descriptions}
    BY <2>3, AllIsEverything DEF All, Met, Tallied
  <2>5. k.class.id \in assignment.classes
    BY <2>3, <2>4 DEF Snapshot, Descriptions
  <2>6. m[k.class.id] \in ToiletIds
    BY <2>1, <2>5 DEF Fallback, Unmapped
  <2> QED BY <2>1, <2>5, <2>6 DEF MappedToilets
<1> QED BY <1>1, LookupInvHolds, PTL

=============================================================================
