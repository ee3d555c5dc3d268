------------------------- MODULE LiveUpdatesProofs -------------------------
(***************************************************************************)
(* Theorems about LiveUpdates for any pages, results of operations and     *)
(* bounds.                                                                 *)
(***************************************************************************)
EXTENDS LiveUpdates, TLAPS

LEMMA MaxOfTwo ==
    ASSUME NEW a \in Versions, NEW b \in Versions
    PROVE  Max({a, b}) \in Versions /\ Max({a, b}) >= a /\ Max({a, b}) >= b
<1>1. \E x \in {a, b} : \A y \in {a, b} : x >= y
  BY DEF Versions
<1>2. Max({a, b}) \in {a, b} /\ \A y \in {a, b} : Max({a, b}) >= y
  BY <1>1 DEF Max
<1> QED BY <1>2

LEMMA DeliverType ==
    ASSUME TypeOK, NEW p \in Pages, NEW state \in Versions, Deliver(p, state)
    PROVE  /\ shown' \in [Pages -> Versions] /\ seen' \in [Pages -> Versions]
           /\ seen'[p] >= state
           /\ \A q \in Pages : seen'[q] >= seen[q]
<1>1. /\ Max({seen[p], state}) \in Versions
      /\ Max({seen[p], state}) >= state /\ Max({seen[p], state}) >= seen[p]
  BY MaxOfTwo DEF TypeOK
<1>2. \A q \in Pages : seen[q] >= seen[q]
  BY DEF TypeOK, Versions
<1> QED BY <1>1, <1>2 DEF Deliver, TypeOK

(* The two parts of TypeOK. *)
Domains ==
    /\ version \in Versions
    /\ news \in [Tasks -> Results \cup {{}}]
    /\ phase \in [Tasks -> {"none", "committed", "scheduled", "students", "staff", "over"}]
    /\ todo \in [Tasks -> SUBSET Pages]
    /\ letter \in [Tasks -> [to : AtMostOne, state : Versions]]
    /\ socket \in [Pages -> {"closed", "greeting", "open"}]
    /\ first \in [Pages -> Versions] /\ seen \in [Pages -> Versions]
    /\ polls \in [Pages -> SUBSET Versions] /\ shown \in [Pages -> Versions]

OnlyThere ==
    /\ \A p \in hub : p \in Pages /\ socket[p] # "closed"
    /\ \A n \in Tasks : \A p \in todo[n] \cup letter[n].to :
          p \in Pages /\ socket[p] # "closed"

LEMMA TypeParts == TypeOK <=> Domains /\ OnlyThere
BY DEF TypeOK, Domains, OnlyThere

LEMMA TypePartsNext ==
    ASSUME Domains', OnlyThere'
    PROVE  TypeOK'
BY DEF TypeOK, Domains, OnlyThere

LEMMA LiveTypeStep ==
    ASSUME TypeOK, Next
    PROVE  TypeOK'
<1> USE DEF taskVars, socketVars, pageVars
<1>1. Domains /\ OnlyThere
  BY TypeParts
<1>2. ASSUME NEW parties \in Results, Commit(parties)
      PROVE  Domains' /\ OnlyThere'
  <2>1. version' \in Versions /\ version + 1 \in Tasks
    BY <1>1, <1>2, LiveAssumption DEF Commit, Domains, Versions, Tasks
  <2>2. /\ news' = [news EXCEPT ![version + 1] = parties]
        /\ phase' = [phase EXCEPT ![version + 1] = "committed"]
        /\ UNCHANGED <<todo, letter, socket, first, seen, polls, shown>>
    BY <1>2 DEF Commit
  <2>3. /\ news' \in [Tasks -> Results \cup {{}}]
        /\ phase' \in [Tasks -> {"none", "committed", "scheduled", "students", "staff", "over"}]
    BY <1>1, <2>1, <2>2 DEF Domains
  <2>4. Domains'
    BY <1>1, <2>1, <2>2, <2>3 DEF Domains
  <2>5. OnlyThere'
    BY <1>1, <1>2 DEF Commit, Domains, OnlyThere
  <2> QED BY <2>4, <2>5
<1>3. ASSUME NEW n \in Tasks, Notify(n)
      PROVE  Domains' /\ OnlyThere'
  <2>1. Domains'
    BY <1>1, <1>3 DEF Notify, Domains
  <2>2. OnlyThere'
    BY <1>1, <1>3 DEF Notify, Domains, OnlyThere
  <2> QED BY <2>1, <2>2
<1>4. ASSUME NEW n \in Tasks, BeginStudents(n)
      PROVE  Domains' /\ OnlyThere'
  <2>1. /\ phase' = [phase EXCEPT ![n] = "students"] /\ todo' = [todo EXCEPT ![n] = hub \ StaffPages]
        /\ UNCHANGED <<version, news, letter, hub, socket, first, seen, polls, shown>>
    BY <1>4 DEF BeginStudents
  <2>2. /\ phase' \in [Tasks -> {"none", "committed", "scheduled", "students", "staff", "over"}]
        /\ todo' \in [Tasks -> SUBSET Pages]
        /\ \A m \in Tasks : todo'[m] \subseteq todo[m] \cup hub
    BY <1>1, <2>1 DEF Domains, OnlyThere
  <2>3. Domains'
    BY <1>1, <2>1, <2>2 DEF Domains
  <2>4. OnlyThere'
    BY <1>1, <2>1, <2>2 DEF OnlyThere
  <2> QED BY <2>3, <2>4
<1>5. ASSUME NEW n \in Tasks, BeginStaff(n)
      PROVE  Domains' /\ OnlyThere'
  <2>1. /\ phase' = [phase EXCEPT ![n] = "staff"] /\ todo' = [todo EXCEPT ![n] = hub \cap StaffPages]
        /\ UNCHANGED <<version, news, letter, hub, socket, first, seen, polls, shown>>
    BY <1>5 DEF BeginStaff
  <2>2. /\ phase' \in [Tasks -> {"none", "committed", "scheduled", "students", "staff", "over"}]
        /\ todo' \in [Tasks -> SUBSET Pages]
        /\ \A m \in Tasks : todo'[m] \subseteq todo[m] \cup hub
    BY <1>1, <2>1 DEF Domains, OnlyThere
  <2>3. Domains'
    BY <1>1, <2>1, <2>2 DEF Domains
  <2>4. OnlyThere'
    BY <1>1, <2>1, <2>2 DEF OnlyThere
  <2> QED BY <2>3, <2>4
<1>6. ASSUME NEW n \in Tasks, Finish(n)
      PROVE  Domains' /\ OnlyThere'
  <2>1. /\ phase' = [phase EXCEPT ![n] = "over"]
        /\ UNCHANGED <<version, news, todo, letter, hub, socket, first, seen, polls, shown>>
    BY <1>6 DEF Finish
  <2>2. phase' \in [Tasks -> {"none", "committed", "scheduled", "students", "staff", "over"}]
    BY <1>1, <2>1 DEF Domains
  <2> QED BY <1>1, <2>1, <2>2 DEF Domains, OnlyThere
<1>7. ASSUME NEW n \in Tasks, NEW p \in Pages, ReadState(n, p)
      PROVE  Domains' /\ OnlyThere'
  <2>1. /\ todo' = [todo EXCEPT ![n] = @ \ {p}] /\ p \in todo[n]
        /\ letter' = [letter EXCEPT ![n] = [to |-> {p}, state |-> version]]
        /\ UNCHANGED <<version, news, phase, hub, socket, first, seen, polls, shown>>
    BY <1>7 DEF ReadState
  <2>2. /\ todo' \in [Tasks -> SUBSET Pages]
        /\ letter' \in [Tasks -> [to : AtMostOne, state : Versions]]
    BY <1>1, <2>1 DEF Domains, AtMostOne
  <2>3. Domains'
    BY <1>1, <2>1, <2>2 DEF Domains
  <2>4. \A m \in Tasks : todo'[m] \cup letter'[m].to \subseteq todo[m] \cup letter[m].to
    BY <1>1, <2>1 DEF Domains
  <2>5. OnlyThere'
    BY <1>1, <2>1, <2>4 DEF OnlyThere
  <2> QED BY <2>3, <2>5
<1>8. ASSUME NEW n \in Tasks, letter' = [letter EXCEPT ![n] = Nobody],
              \A q \in hub' : q \in hub,
              shown' \in [Pages -> Versions], seen' \in [Pages -> Versions],
              UNCHANGED <<version, news, phase, todo, socket, first, polls>>
       PROVE  Domains' /\ OnlyThere'
  <2>1. /\ letter' \in [Tasks -> [to : AtMostOne, state : Versions]]
        /\ \A m \in Tasks : letter'[m].to \subseteq letter[m].to
    BY <1>1, <1>8, LiveAssumption DEF Domains, AtMostOne, Nobody, Versions
  <2>2. Domains'
    BY <1>1, <1>8, <2>1 DEF Domains
  <2>3. OnlyThere'
    BY <1>1, <1>8, <2>1 DEF OnlyThere
  <2> QED BY <2>2, <2>3
<1>9. ASSUME NEW n \in Tasks, NEW p \in Pages, Send(n, p)
      PROVE  Domains' /\ OnlyThere'
  <2>1. letter[n].state \in Versions
    BY <1>1 DEF Domains
  <2>2. shown' \in [Pages -> Versions] /\ seen' \in [Pages -> Versions]
    BY <1>9, <2>1, DeliverType DEF Send
  <2> QED BY <1>8, <1>9, <2>2 DEF Send
<1>10. ASSUME NEW n \in Tasks, NEW p \in Pages, Drop(n, p)
      PROVE  Domains' /\ OnlyThere'
  BY <1>1, <1>8, <1>10 DEF Drop, Without, Domains
<1>11. ASSUME NEW p \in Pages, OpenSocket(p)
      PROVE  Domains' /\ OnlyThere'
  <2>1. hub' = hub \cup {p}
    BY <1>11 DEF OpenSocket, Register, RegisteredAt
  <2>2. Domains'
    BY <1>1, <1>11 DEF OpenSocket, Domains
  <2>3. OnlyThere'
    BY <1>1, <1>11, <2>1 DEF OpenSocket, Domains, OnlyThere
  <2> QED BY <2>2, <2>3
<1>12. ASSUME NEW p \in Pages, Greet(p)
      PROVE  Domains' /\ OnlyThere'
  <2>1. hub' = hub
    BY <1>12 DEF Greet, Register, RegisteredAt
  <2>2. shown' \in [Pages -> Versions] /\ seen' \in [Pages -> Versions]
    BY <1>1, <1>12, DeliverType DEF Greet, Domains
  <2>3. /\ socket' \in [Pages -> {"closed", "greeting", "open"}]
        /\ first' \in [Pages -> Versions]
    BY <1>1, <1>12, LiveAssumption DEF Greet, Domains, Versions
  <2>4. UNCHANGED <<version, news, phase, todo, letter, polls>>
    BY <1>12 DEF Greet
  <2>5. Domains'
    BY <1>1, <2>2, <2>3, <2>4 DEF Domains
  <2>6. OnlyThere'
    BY <1>1, <1>12, <2>1 DEF Greet, Domains, OnlyThere
  <2> QED BY <2>5, <2>6
<1>13. ASSUME NEW p \in Pages, CloseSocket(p)
      PROVE  Domains' /\ OnlyThere'
  <2>1. /\ socket' \in [Pages -> {"closed", "greeting", "open"}]
        /\ first' \in [Pages -> Versions] /\ seen' \in [Pages -> Versions]
        /\ UNCHANGED <<version, news, phase, shown, polls>>
    BY <1>1, <1>13, LiveAssumption DEF CloseSocket, Domains, Versions
  <2>2. /\ todo' \in [Tasks -> SUBSET Pages]
        /\ letter' \in [Tasks -> [to : AtMostOne, state : Versions]]
    BY <1>1, <1>13, LiveAssumption DEF CloseSocket, Domains, Versions, AtMostOne, Nobody
  <2>3. Domains'
    BY <1>1, <2>2, <2>1 DEF Domains
  <2>4. \A q \in Pages : q # p => socket'[q] = socket[q]
    BY <1>1, <1>13 DEF CloseSocket, Domains
  <2>5. \A q \in hub' : q \in hub /\ q # p
    BY <1>13 DEF CloseSocket, Without
  <2>6. ASSUME NEW n \in Tasks, NEW q \in todo'[n]
        PROVE  q \in todo[n] /\ q # p
    BY <1>13 DEF CloseSocket
  <2>7. ASSUME NEW n \in Tasks, NEW q \in letter'[n].to
        PROVE  q \in letter[n].to /\ letter[n].to # {p}
    BY <1>13 DEF CloseSocket, Nobody
  <2>8. ASSUME NEW n \in Tasks, NEW q \in letter[n].to, letter[n].to # {p}
        PROVE  q # p
    BY <1>1, <2>8 DEF Domains, AtMostOne
  <2>9. OnlyThere'
    BY <1>1, <2>4, <2>5, <2>6, <2>7, <2>8 DEF OnlyThere
  <2> QED BY <2>3, <2>9
<1>14. ASSUME NEW p \in Pages, Poll(p)
       PROVE  Domains' /\ OnlyThere'
  BY <1>1, <1>14 DEF Poll, Domains, OnlyThere
<1>15. ASSUME NEW p \in Pages, NEW state \in Versions, Arrive(p, state)
       PROVE  Domains' /\ OnlyThere'
  BY <1>1, <1>15 DEF Arrive, Rendered, Domains, OnlyThere
<1>16. Domains' /\ OnlyThere'
  BY <1>2, <1>3, <1>4, <1>5, <1>6, <1>7, <1>9, <1>10, <1>11, <1>12, <1>13, <1>14, <1>15
  DEF Next
<1> QED BY <1>16, TypePartsNext

(* Every reachable state is well typed, and only a socket that is there is *)
(* registered or written to.                                               *)
THEOREM LiveTypeCorrect == Spec => []TypeOK
<1>1. Init => TypeOK
  <2> SUFFICES ASSUME Init PROVE TypeOK
    OBVIOUS
  <2>1. 0 \in Versions /\ Nobody \in [to : AtMostOne, state : Versions]
    BY LiveAssumption DEF Versions, Nobody, AtMostOne
  <2>2. Domains
    BY <2>1 DEF Init, Domains
  <2>3. OnlyThere
    BY DEF Init, OnlyThere, Nobody
  <2> QED BY <2>2, <2>3, TypeParts
<1>2. TypeOK /\ [Next]_vars => TypeOK'
  <2>1. ASSUME TypeOK, UNCHANGED vars
        PROVE  TypeOK'
    BY <2>1 DEF vars, taskVars, socketVars, pageVars, TypeOK
  <2> QED BY <2>1, LiveTypeStep
<1> QED BY <1>1, <1>2, PTL DEF Spec

-----------------------------------------------------------------------------
(* What a registered socket is still owed.                                 *)

(* The tasks of changes that are not committed do nothing, nor do those    *)
(* that have not begun or are over.                                        *)
TasksInOrder ==
    \A n \in Tasks :
        /\ phase[n] = "none" <=> n > version
        /\ phase[n] = "committed" => news[n] # {}
        /\ phase[n] \notin {"students", "staff"} => Idle(n)

GreetedOnce == \A p \in Pages : socket[p] = "open" => first[p] = 0

(* Change n has not come to p's turn, or is what p is being sent, or p has  *)
(* carried it, or p's first state holds it.                                *)
Owed(p, n) ==
    \/ phase[n] \in {"none", "committed", "scheduled"}
    \/ phase[n] = "students" /\ p \in StaffPages
    \/ p \in todo[n]
    \/ letter[n].to = {p} /\ letter[n].state >= n
    \/ seen[p] >= n
    \/ first[p] >= n

AllOwed == \A p \in hub, n \in Tasks : Owed(p, n)

LiveInv == TasksInOrder /\ GreetedOnce /\ AllOwed

LEMMA WhoIsSent ==
    ASSUME TasksInOrder, NEW n \in Tasks, letter[n].to # {} \/ todo[n] # {}
    PROVE  phase[n] \in {"students", "staff"} /\ (version \in Nat => n <= version)
BY DEF TasksInOrder, Idle, Nobody, Tasks

LEMMA LiveStep ==
    ASSUME TypeOK, LiveInv, Next
    PROVE  LiveInv'
<1> USE DEF taskVars, socketVars, pageVars
<1>1. TasksInOrder /\ GreetedOnce /\ AllOwed /\ Domains /\ OnlyThere /\ version \in Nat
  BY TypeParts DEF LiveInv, Domains, Versions
<1> SUFFICES TasksInOrder' /\ GreetedOnce' /\ AllOwed'
  BY DEF LiveInv
<1>2. ASSUME NEW parties \in Results, Commit(parties)
      PROVE  TasksInOrder' /\ GreetedOnce' /\ AllOwed'
  <2>1. /\ version' = version + 1 /\ version + 1 \in Tasks
        /\ news' = [news EXCEPT ![version + 1] = parties]
        /\ phase' = [phase EXCEPT ![version + 1] = "committed"]
        /\ UNCHANGED <<todo, letter, hub, socket, first, seen>>
    BY <1>1, <1>2, LiveAssumption DEF Commit, Tasks
  <2>2. parties # {} /\ phase[version + 1] = "none"
    BY <1>1, <2>1, LiveAssumption DEF TasksInOrder
  <2>3. TasksInOrder'
    <3> SUFFICES ASSUME NEW n \in Tasks
                 PROVE  /\ phase'[n] = "none" <=> n > version'
                        /\ phase'[n] = "committed" => news'[n] # {}
                        /\ phase'[n] \notin {"students", "staff"} => Idle(n)'
      BY DEF TasksInOrder
    <3>1. n \in Nat /\ Idle(n)' = Idle(n)
      BY <2>1 DEF Idle, Tasks
    <3>2. CASE n = version + 1
      BY <1>1, <2>1, <2>2, <3>1, <3>2 DEF TasksInOrder, Domains
    <3>3. CASE n # version + 1
      BY <1>1, <2>1, <3>1, <3>3 DEF TasksInOrder, Domains
    <3> QED BY <3>2, <3>3
  <2>4. GreetedOnce' /\ AllOwed'
    BY <1>1, <2>1 DEF GreetedOnce, AllOwed, Owed, Domains
  <2> QED BY <2>3, <2>4
<1>3. ASSUME NEW n \in Tasks, Notify(n)
      PROVE  TasksInOrder' /\ GreetedOnce' /\ AllOwed'
  <2>1. /\ phase' = [phase EXCEPT ![n] = "scheduled"] /\ phase[n] = "committed"
        /\ UNCHANGED <<version, todo, letter, hub, socket, first, seen>>
        /\ \A m \in Tasks : m # n => news'[m] = news[m]
    BY <1>1, <1>3 DEF Notify, Announced, TasksInOrder, Domains
  <2>2. TasksInOrder'
    BY <1>1, <2>1 DEF TasksInOrder, Domains, Idle, Tasks
  <2>3. GreetedOnce'
    BY <1>1, <2>1 DEF GreetedOnce
  <2>4. ASSUME NEW p \in hub, NEW m \in Tasks
        PROVE  Owed(p, m)'
    <3>1. Owed(p, m)
      BY <1>1 DEF AllOwed
    <3>2. CASE m # n
      BY <1>1, <2>1, <3>1, <3>2 DEF Owed, Domains
    <3>3. CASE m = n
      BY <1>1, <2>1, <3>1, <3>3 DEF Owed, Domains
    <3> QED BY <3>2, <3>3
  <2> QED BY <2>1, <2>2, <2>3, <2>4 DEF AllOwed
<1>4. ASSUME NEW n \in Tasks, BeginStudents(n)
      PROVE  TasksInOrder' /\ GreetedOnce' /\ AllOwed'
  <2>1. /\ phase' = [phase EXCEPT ![n] = "students"] /\ phase[n] = "scheduled"
        /\ todo' = [todo EXCEPT ![n] = hub \ StaffPages]
        /\ UNCHANGED <<version, news, letter, hub, socket, first, seen>>
    BY <1>4 DEF BeginStudents
  <2>2. TasksInOrder'
    BY <1>1, <2>1 DEF TasksInOrder, Domains, Idle, Tasks
  <2>3. GreetedOnce'
    BY <1>1, <2>1 DEF GreetedOnce
  <2>4. ASSUME NEW p \in hub, NEW m \in Tasks
        PROVE  Owed(p, m)'
    <3>1. Owed(p, m)
      BY <1>1 DEF AllOwed
    <3>2. CASE m # n
      BY <1>1, <2>1, <3>1, <3>2 DEF Owed, Domains
    <3>3. CASE m = n
      BY <1>1, <2>1, <3>1, <3>3 DEF Owed, Domains
    <3> QED BY <3>2, <3>3
  <2> QED BY <2>1, <2>2, <2>3, <2>4 DEF AllOwed
<1>5. ASSUME NEW n \in Tasks, BeginStaff(n)
      PROVE  TasksInOrder' /\ GreetedOnce' /\ AllOwed'
  <2>1. /\ phase' = [phase EXCEPT ![n] = "staff"] /\ phase[n] = "students" /\ Idle(n)
        /\ todo' = [todo EXCEPT ![n] = hub \cap StaffPages]
        /\ UNCHANGED <<version, news, letter, hub, socket, first, seen>>
    BY <1>5 DEF BeginStaff
  <2>2. TasksInOrder'
    BY <1>1, <2>1 DEF TasksInOrder, Domains, Idle, Tasks
  <2>3. GreetedOnce'
    BY <1>1, <2>1 DEF GreetedOnce
  <2>4. ASSUME NEW p \in hub, NEW m \in Tasks
        PROVE  Owed(p, m)'
    <3>1. Owed(p, m)
      BY <1>1 DEF AllOwed
    <3>2. CASE m # n
      BY <1>1, <2>1, <3>1, <3>2 DEF Owed, Domains
    <3>3. CASE m = n
      BY <1>1, <2>1, <3>1, <3>3 DEF Owed, Domains, Idle, Nobody
    <3> QED BY <3>2, <3>3
  <2> QED BY <2>1, <2>2, <2>3, <2>4 DEF AllOwed
<1>6. ASSUME NEW n \in Tasks, Finish(n)
      PROVE  TasksInOrder' /\ GreetedOnce' /\ AllOwed'
  <2>1. /\ phase' = [phase EXCEPT ![n] = "over"] /\ phase[n] = "staff" /\ Idle(n)
        /\ UNCHANGED <<version, news, todo, letter, hub, socket, first, seen>>
    BY <1>6 DEF Finish
  <2>2. TasksInOrder'
    BY <1>1, <2>1 DEF TasksInOrder, Domains, Idle, Tasks
  <2>3. GreetedOnce'
    BY <1>1, <2>1 DEF GreetedOnce
  <2>4. ASSUME NEW p \in hub, NEW m \in Tasks
        PROVE  Owed(p, m)'
    <3>1. Owed(p, m)
      BY <1>1 DEF AllOwed
    <3>2. CASE m # n
      BY <1>1, <2>1, <3>1, <3>2 DEF Owed, Domains
    <3>3. CASE m = n
      BY <1>1, <2>1, <3>1, <3>3 DEF Owed, Domains, Idle, Nobody
    <3> QED BY <3>2, <3>3
  <2> QED BY <2>1, <2>2, <2>3, <2>4 DEF AllOwed
<1>7. ASSUME NEW n \in Tasks, NEW p \in Pages, ReadState(n, p)
      PROVE  TasksInOrder' /\ GreetedOnce' /\ AllOwed'
  <2>1. /\ p \in todo[n] /\ letter[n] = Nobody
        /\ todo' = [todo EXCEPT ![n] = @ \ {p}]
        /\ letter' = [letter EXCEPT ![n] = [to |-> {p}, state |-> version]]
        /\ UNCHANGED <<version, news, phase, hub, socket, first, seen>>
    BY <1>7 DEF ReadState
  <2>2. phase[n] \in {"students", "staff"} /\ n <= version
    BY <1>1, <2>1, WhoIsSent
  <2>3. TasksInOrder'
    BY <1>1, <2>1, <2>2 DEF TasksInOrder, Domains, Idle
  <2>4. GreetedOnce'
    BY <1>1, <2>1 DEF GreetedOnce
  <2>5. ASSUME NEW q \in hub, NEW m \in Tasks
        PROVE  Owed(q, m)'
    <3>1. Owed(q, m)
      BY <1>1 DEF AllOwed
    <3>2. CASE m # n
      BY <1>1, <2>1, <3>1, <3>2 DEF Owed, Domains
    <3>3. CASE m = n /\ q = p
      <4>1. letter'[n].to = {p} /\ letter'[n].state = version
        BY <1>1, <2>1 DEF Domains
      <4> QED BY <2>2, <3>3, <4>1 DEF Owed
    <3>4. CASE m = n /\ q # p
      <4>1. letter[n].to # {q}
        BY <2>1 DEF Nobody
      <4> QED BY <1>1, <2>1, <3>1, <3>4, <4>1 DEF Owed, Domains
    <3> QED BY <3>2, <3>3, <3>4
  <2> QED BY <2>1, <2>3, <2>4, <2>5 DEF AllOwed
<1>8. ASSUME NEW n \in Tasks, NEW p \in Pages, Send(n, p)
      PROVE  TasksInOrder' /\ GreetedOnce' /\ AllOwed'
  <2>1. /\ letter[n].to = {p} /\ letter' = [letter EXCEPT ![n] = Nobody]
        /\ UNCHANGED <<version, news, phase, todo, hub, socket, first>>
    BY <1>8 DEF Send
  <2>2. phase[n] \in {"students", "staff"}
    BY <1>1, <2>1, WhoIsSent
  <2>3. TasksInOrder'
    BY <1>1, <2>1, <2>2 DEF TasksInOrder, Domains, Idle
  <2>4. GreetedOnce'
    BY <1>1, <2>1 DEF GreetedOnce
  <2>5. letter[n].state \in Versions
    BY <1>1 DEF Domains
  <2>6. /\ seen'[p] >= letter[n].state /\ seen' \in [Pages -> Versions]
        /\ \A q \in Pages : seen'[q] >= seen[q]
    BY <1>8, <2>5, DeliverType DEF Send
  <2>7. ASSUME NEW q \in hub, NEW m \in Tasks
        PROVE  Owed(q, m)'
    <3>1. Owed(q, m) /\ q \in Pages
      BY <1>1 DEF AllOwed, OnlyThere
    <3>2. m \in Int /\ seen[q] \in Int /\ seen'[q] \in Int /\ seen'[p] \in Int
          /\ letter[n].state \in Int
      BY <1>1, <2>5, <2>6, <3>1 DEF Tasks, Domains, Versions
    <3>3. seen[q] >= m => seen'[q] >= m
      BY <2>6, <3>1, <3>2
    <3>4. CASE letter[m].to = {q} /\ letter[m].state >= m /\ m = n
      BY <2>1, <2>6, <3>2, <3>4 DEF Owed
    <3>5. CASE m # n \/ ~(letter[m].to = {q} /\ letter[m].state >= m)
      BY <1>1, <2>1, <3>1, <3>3, <3>5 DEF Owed, Domains
    <3> QED BY <3>4, <3>5
  <2> QED BY <2>1, <2>3, <2>4, <2>7 DEF AllOwed
<1>9. ASSUME NEW n \in Tasks, NEW p \in Pages, Drop(n, p)
      PROVE  TasksInOrder' /\ GreetedOnce' /\ AllOwed'
  <2>1. /\ letter[n].to = {p} /\ letter' = [letter EXCEPT ![n] = Nobody]
        /\ hub' = hub \ {p}
        /\ UNCHANGED <<version, news, phase, todo, socket, first, seen>>
    BY <1>9 DEF Drop, Without
  <2>2. phase[n] \in {"students", "staff"}
    BY <1>1, <2>1, WhoIsSent
  <2>3. TasksInOrder'
    BY <1>1, <2>1, <2>2 DEF TasksInOrder, Domains, Idle
  <2>4. GreetedOnce'
    BY <1>1, <2>1 DEF GreetedOnce
  <2>5. ASSUME NEW q \in hub \ {p}, NEW m \in Tasks
        PROVE  Owed(q, m)'
    <3>1. Owed(q, m) /\ (letter[m].to = {q} => letter'[m] = letter[m])
      BY <1>1, <2>1 DEF AllOwed, Domains
    <3> QED BY <2>1, <3>1 DEF Owed
  <2> QED BY <2>1, <2>3, <2>4, <2>5 DEF AllOwed
<1>10. ASSUME NEW p \in Pages, OpenSocket(p)
      PROVE  TasksInOrder' /\ GreetedOnce' /\ AllOwed'
  <2>1. /\ socket' = [socket EXCEPT ![p] = "greeting"]
        /\ hub' = hub \cup {p}
        /\ first' = [first EXCEPT ![p] = version]
        /\ socket[p] = "closed"
        /\ UNCHANGED <<version, news, phase, todo, letter, seen>>
    BY <1>10 DEF OpenSocket, Register, RegisteredAt
  <2>2. TasksInOrder'
    BY <1>1, <2>1 DEF TasksInOrder, Idle
  <2>3. GreetedOnce'
    BY <1>1, <2>1 DEF GreetedOnce, Domains
  <2>4. ASSUME NEW n \in Tasks
        PROVE  Owed(p, n)'
    <3>1. phase[n] = "none" \/ version >= n
      BY <1>1 DEF TasksInOrder, Tasks
    <3>2. first'[p] = version /\ phase' = phase
      BY <1>1, <2>1 DEF Domains
    <3> QED BY <3>1, <3>2 DEF Owed
  <2>5. ASSUME NEW q \in hub, NEW n \in Tasks, q # p
        PROVE  Owed(q, n)'
    <3>1. Owed(q, n) /\ first'[q] = first[q]
      BY <1>1, <2>1, <2>5 DEF AllOwed, Domains, OnlyThere
    <3> QED BY <2>1, <3>1 DEF Owed
  <2> QED BY <2>1, <2>2, <2>3, <2>4, <2>5 DEF AllOwed
<1>11. ASSUME NEW p \in Pages, Greet(p)
       PROVE  TasksInOrder' /\ GreetedOnce' /\ AllOwed'
  <2>1. /\ socket' = [socket EXCEPT ![p] = "open"] /\ hub' = hub
        /\ first' = [first EXCEPT ![p] = 0]
        /\ UNCHANGED <<version, news, phase, todo, letter>>
    BY <1>11 DEF Greet, Register, RegisteredAt
  <2>2. TasksInOrder'
    BY <1>1, <2>1 DEF TasksInOrder, Idle
  <2>3. GreetedOnce'
    BY <1>1, <2>1 DEF GreetedOnce, Domains
  <2>4. first[p] \in Versions
    BY <1>1 DEF Domains
  <2>5. /\ seen'[p] >= first[p] /\ seen' \in [Pages -> Versions]
        /\ \A q \in Pages : seen'[q] >= seen[q]
    BY <1>11, <2>4, DeliverType DEF Greet
  <2>6. ASSUME NEW q \in hub, NEW n \in Tasks
        PROVE  Owed(q, n)'
    <3>1. Owed(q, n) /\ q \in Pages
      BY <1>1 DEF AllOwed, OnlyThere
    <3>2. n \in Int /\ seen[q] \in Int /\ seen'[q] \in Int /\ first[q] \in Int
      BY <1>1, <2>5, <3>1 DEF Tasks, Domains, Versions
    <3>3. seen[q] >= n => seen'[q] >= n
      BY <2>5, <3>1, <3>2
    <3>4. first[q] >= n => seen'[q] >= n \/ first'[q] >= n
      BY <1>1, <2>1, <2>5, <3>1, <3>2 DEF Domains
    <3> QED BY <2>1, <3>1, <3>3, <3>4 DEF Owed
  <2> QED BY <2>1, <2>2, <2>3, <2>6 DEF AllOwed
<1>12. ASSUME NEW p \in Pages, CloseSocket(p)
       PROVE  TasksInOrder' /\ GreetedOnce' /\ AllOwed'
  <2>1. ASSUME NEW n \in Tasks, Idle(n)
        PROVE  Idle(n)'
    BY <1>12, <2>1 DEF CloseSocket, Idle
  <2>2. TasksInOrder'
    BY <1>1, <1>12, <2>1 DEF CloseSocket, TasksInOrder
  <2>3. GreetedOnce'
    BY <1>1, <1>12 DEF CloseSocket, GreetedOnce, Domains
  <2>4. ASSUME NEW q \in hub \ {p}, NEW n \in Tasks
        PROVE  Owed(q, n)'
    <3>1. Owed(q, n) /\ q \in Pages
      BY <1>1 DEF AllOwed, OnlyThere
    <3>2. letter[n].to = {q} => letter'[n] = letter[n]
      BY <1>12, <2>4 DEF CloseSocket
    <3>3. /\ phase' = phase /\ (q \in todo[n] => q \in todo'[n])
          /\ seen'[q] = seen[q] /\ first'[q] = first[q]
      BY <1>1, <1>12, <3>1 DEF CloseSocket, Domains
    <3> QED BY <3>1, <3>2, <3>3 DEF Owed
  <2> QED BY <1>12, <2>2, <2>3, <2>4 DEF AllOwed, CloseSocket, Without
<1>13. ASSUME NEW p \in Pages, Poll(p) \/ \E state \in Versions : Arrive(p, state)
       PROVE  TasksInOrder' /\ GreetedOnce' /\ AllOwed'
  <2>1. UNCHANGED <<version, news, phase, todo, letter, hub, socket, first, seen>>
    BY <1>13 DEF Poll, Arrive
  <2> QED BY <1>1, <2>1 DEF TasksInOrder, GreetedOnce, AllOwed, Owed, Idle
<1> QED BY <1>2, <1>3, <1>4, <1>5, <1>6, <1>7, <1>8, <1>9, <1>10, <1>11, <1>12, <1>13
        DEF Next

(* A registered socket has carried every change whose broadcast is over,    *)
(* those committed while it was opened included.                           *)
THEOREM UpdatesReachSockets == Spec => []NoUpdateMissed
<1>1. Init => LiveInv
  BY DEF Init, LiveInv, TasksInOrder, GreetedOnce, AllOwed, Idle, Tasks
<1>2. TypeOK /\ LiveInv /\ [Next]_vars => LiveInv'
  <2>1. ASSUME LiveInv, UNCHANGED vars
        PROVE  LiveInv'
    BY <2>1 DEF vars, taskVars, socketVars, pageVars, LiveInv, TasksInOrder, GreetedOnce,
       AllOwed, Owed, Idle
  <2> QED BY <2>1, LiveStep
<1>3. TypeOK /\ LiveInv => NoUpdateMissed
  <2> SUFFICES ASSUME TypeOK, LiveInv, NEW p \in hub, socket[p] = "open",
                      NEW n \in Tasks, phase[n] = "over"
               PROVE  seen[p] >= n
    BY DEF NoUpdateMissed
  <2>1. Idle(n) /\ first[p] = 0 /\ n > 0
    BY DEF LiveInv, TasksInOrder, GreetedOnce, TypeOK, Tasks
  <2>2. Owed(p, n)
    BY DEF LiveInv, AllOwed
  <2> QED BY <2>1, <2>2 DEF Owed, Idle, Nobody, Tasks
<1> QED BY <1>1, <1>2, <1>3, LiveTypeCorrect, PTL DEF Spec
=============================================================================
