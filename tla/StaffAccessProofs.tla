-------------------------- MODULE StaffAccessProofs --------------------------
(***************************************************************************)
(* Theorems about StaffAccess for any operators, authorities, handlers,    *)
(* tokens, sockets and times.                                              *)
(***************************************************************************)
EXTENDS StaffAccess, TLAPS

(* What a step may be, one action to a disjunct. *)
LEMMA NextCases ==
    ASSUME Next
    PROVE  \/ \E r \in Requests : LeaveAdmin(r)
           \/ \E r \in Requests, k \in Tokens : EnterAdmin(r, k)
           \/ \E r \in Requests, o \in Operators : DeleteOperator(r, o)
           \/ \E r \in Requests, o \in Operators, acc \in Account : UpsertOperator(r, o, acc)
           \/ \E h \in Logins : AbandonLogin(h)
           \/ \E h \in Logins, o \in Operators : CheckLogin(h, o)
           \/ \E h \in Logins, k \in Tokens : IssueSession(h, k)
           \/ \E k \in Tokens : RevokeSession(k)
           \/ \E w \in Sockets : HoldSocket(w)
           \/ \E w \in Sockets : CloseSocket(w)
           \/ \E w \in Sockets, k \in Tokens : OpenSocket(w, k)
           \/ Rescope
           \/ Restart
           \/ Tick
BY DEF Next

-----------------------------------------------------------------------------
(* Types. *)

(* A change of accounts leaves sessions, logins and sockets well typed. *)
LEMMA ChangeType ==
    ASSUME TypeOK, NEW O \in SUBSET Operators,
           NEW new \in [Operators -> Account \cup {None}], Change(O, new),
           acting' \subseteq Requests
    PROVE  TypeOK'
<1> USE DEF TypeOK
<1>1. accounts' \in [Operators -> Account \cup {None}]
  BY DEF Change
<1>2. /\ sessions' \in [Tokens -> Session \cup {None}]
      /\ \A k \in Tokens : sessions'[k] # None => sessions'[k].left >= 0
  BY DEF Change, Revoked
<1>3. logins' \in [Logins -> Login \cup {None}]
  BY DEF Change, Overtaken, Login
<1>4. /\ sockets' \in [Sockets -> Socket \cup {None}]
      /\ \A w \in Sockets : sockets'[w] # None => sockets'[w].left >= 0
  <2>1. LongestSocket + 1 \in Nat
    BY StaffAssumption DEF LongestSocket
  <2>2. ASSUME NEW w \in Sockets
        PROVE  /\ Lapsed(O)[w] \in Socket \cup {None}
               /\ Lapsed(O)[w] # None => Lapsed(O)[w].left >= 0
    BY <2>1 DEF Lapsed, Socket
  <2>3. sockets' = Lapsed(O)
    BY DEF Change
  <2> QED BY <2>2, <2>3 DEF Lapsed
<1> QED BY <1>1, <1>2, <1>3, <1>4

(* What a second does to a socket. *)
Older(left) == IF left > -(Opening + 1) THEN left - 1 ELSE left
Since(lapsed) == IF lapsed = None \/ lapsed > LongestSocket THEN lapsed ELSE lapsed + 1

LEMMA TickSocket ==
    ASSUME TypeOK, Tick, NEW w \in Sockets, sockets[w] # None
    PROVE  /\ sockets[w] \in Socket /\ sockets[w].session \in Session
           /\ sockets[w].left > 0
           /\ sockets'[w] = [sockets[w] EXCEPT
                 !.left = sockets[w].left - 1,
                 !.session = [sockets[w].session EXCEPT !.left = Older(sockets[w].session.left)],
                 !.lapsed = Since(sockets[w].lapsed)]
<1>1. /\ sockets[w] \in Socket /\ sockets[w].session \in Session
      /\ sockets[w].left > 0
  BY DEF Tick, TypeOK, Socket
<1>2. sockets'[w] = [sockets[w] EXCEPT
                 !.left = sockets[w].left - 1,
                 !.session = [sockets[w].session EXCEPT !.left = Older(sockets[w].session.left)],
                 !.lapsed = Since(sockets[w].lapsed)]
  BY <1>1 DEF Tick, Socket, Older, Since
<1> QED BY <1>1, <1>2

(* Every reachable state is well typed. *)
LEMMA TypeStep ==
    ASSUME TypeOK, Next
    PROVE  TypeOK'
<1> USE StaffAssumption
<1>1. ASSUME NEW r \in Requests, LeaveAdmin(r)
      PROVE  TypeOK'
  BY <1>1 DEF LeaveAdmin, TypeOK
<1>2. ASSUME NEW r \in Requests, NEW k \in Tokens, EnterAdmin(r, k)
      PROVE  TypeOK'
  BY <1>2 DEF EnterAdmin, TypeOK
<1>3. ASSUME NEW r \in Requests, NEW o \in Operators, DeleteOperator(r, o)
      PROVE  TypeOK'
  <2>1. [accounts EXCEPT ![o] = None] \in [Operators -> Account \cup {None}]
    BY DEF TypeOK
  <2> QED BY <1>3, <2>1, ChangeType DEF DeleteOperator, TypeOK
<1>4. ASSUME NEW r \in Requests, NEW o \in Operators, NEW acc \in Account,
             UpsertOperator(r, o, acc)
      PROVE  TypeOK'
  <2>1. [accounts EXCEPT ![o] = acc] \in [Operators -> Account \cup {None}]
    BY DEF TypeOK
  <2> QED BY <1>4, <2>1, ChangeType DEF UpsertOperator, TypeOK
<1>5. ASSUME NEW h \in Logins, AbandonLogin(h)
      PROVE  TypeOK'
  BY <1>5 DEF AbandonLogin, TypeOK
<1>6. ASSUME NEW h \in Logins, NEW o \in Operators, CheckLogin(h, o)
      PROVE  TypeOK'
  <2>1. [op |-> o, authority |-> accounts[o].authority, overtaken |-> FALSE] \in Login
    BY <1>6 DEF CheckLogin, TypeOK, Account, Login
  <2> QED BY <1>6, <2>1 DEF CheckLogin, TypeOK
<1>7. ASSUME NEW h \in Logins, NEW k \in Tokens, IssueSession(h, k)
      PROVE  TypeOK'
  <2>1. /\ [op |-> logins[h].op, authority |-> logins[h].authority,
            overtaken |-> logins[h].overtaken, left |-> SessionTtl] \in Session
        /\ SessionTtl >= 0
    BY <1>7 DEF IssueSession, TypeOK, Login, Session
  <2> QED BY <1>7, <2>1 DEF IssueSession, TypeOK
<1>8. ASSUME NEW k \in Tokens, RevokeSession(k)
      PROVE  TypeOK'
  BY <1>8 DEF RevokeSession, TypeOK
<1>9. ASSUME NEW w \in Sockets, HoldSocket(w)
      PROVE  TypeOK'
  <2>1. sockets[w] \in Socket
    BY <1>9 DEF HoldSocket, TypeOK
  <2>2. /\ MaxAge(sockets[w].session.left) \in -1..(LongestSocket + SessionTtl)
        /\ MaxAge(sockets[w].session.left) >= 0
    BY <2>1 DEF MaxAge, Socket, Session, LongestSocket
  <2>3. [sockets[w] EXCEPT !.held = TRUE, !.left = MaxAge(sockets[w].session.left)] \in Socket
    BY <2>1, <2>2 DEF Socket
  <2> QED BY <1>9, <2>1, <2>2, <2>3 DEF HoldSocket, TypeOK, Socket
<1>10. ASSUME NEW w \in Sockets, CloseSocket(w)
       PROVE  TypeOK'
  BY <1>10 DEF CloseSocket, TypeOK
<1>11. ASSUME NEW w \in Sockets, NEW k \in Tokens, OpenSocket(w, k)
       PROVE  TypeOK'
  <2>1. /\ [session |-> sessions[k], held |-> FALSE, left |-> Opening, lapsed |-> None] \in Socket
        /\ Opening >= 0
    BY <1>11 DEF OpenSocket, Live, TypeOK, Socket, LongestSocket
  <2> QED BY <1>11, <2>1 DEF OpenSocket, TypeOK
<1>12. CASE Rescope
  <2> DEFINE O == {o \in Operators : Renamed(accounts[o])}
  <2>1. accounts' \in [Operators -> Account \cup {None}]
    BY <1>12 DEF Rescope, TypeOK, Account, Renamed
  <2>2. /\ sessions' \in [Tokens -> Session \cup {None}]
        /\ \A k \in Tokens : sessions'[k] # None => sessions'[k].left >= 0
    BY <1>12 DEF Rescope, TypeOK
  <2>3. logins' \in [Logins -> Login \cup {None}]
    BY <1>12 DEF Rescope, Overtaken, Login, TypeOK
  <2>4. LongestSocket + 1 \in Nat
    BY DEF LongestSocket
  <2>5. ASSUME NEW w \in Sockets
        PROVE  /\ Lapsed(O)[w] \in Socket \cup {None}
               /\ Lapsed(O)[w] # None => Lapsed(O)[w].left >= 0
    BY <2>4 DEF Lapsed, Socket, TypeOK
  <2>6. sockets' = Lapsed(O) /\ acting' = acting
    BY <1>12 DEF Rescope
  <2>7. /\ sockets' \in [Sockets -> Socket \cup {None}]
        /\ \A w \in Sockets : sockets'[w] # None => sockets'[w].left >= 0
    BY <2>5, <2>6 DEF Lapsed
  <2> QED BY <2>1, <2>2, <2>3, <2>6, <2>7 DEF TypeOK
<1>13. CASE Restart
  <2>1. StartupAccount \in Account
    BY DEF StartupAccount, Account
  <2>2. accounts' \in [Operators -> Account \cup {None}]
    BY <1>13, <2>1 DEF Restart, TypeOK
  <2> QED BY <1>13, <2>2 DEF Restart, TypeOK, Live
<1>14. CASE Tick
  <2>1. /\ sessions' \in [Tokens -> Session \cup {None}]
        /\ \A k \in Tokens : sessions'[k] # None => sessions'[k].left >= 0
    <3>1. ASSUME NEW k \in Tokens, Live(k)
          PROVE  /\ [sessions[k] EXCEPT !.left = @ - 1] \in Session
                 /\ [sessions[k] EXCEPT !.left = @ - 1].left >= 0
      BY <3>1 DEF Live, TypeOK, Session
    <3> QED BY <1>14, <3>1 DEF Tick, TypeOK
  <2>2. ASSUME NEW w \in Sockets, sockets[w] # None
        PROVE  sockets'[w] \in Socket /\ sockets'[w].left >= 0
    <3>1. /\ sockets[w] \in Socket /\ sockets[w].session \in Session
          /\ sockets[w].left > 0
      BY <1>14, <2>2, TickSocket
    <3> DEFINE s == sockets[w]
    <3>2. sockets'[w] = [s EXCEPT !.left = s.left - 1,
                                  !.session = [s.session EXCEPT !.left = Older(@)],
                                  !.lapsed = Since(@)]
      BY <1>14, <2>2, TickSocket
    <3>3. Older(s.session.left) \in -(Opening + 1)..SessionTtl
      BY <3>1 DEF Session, Older
    <3>4. Since(s.lapsed) \in 0..(LongestSocket + 1) \cup {None}
      BY <3>1 DEF Socket, LongestSocket, Since
    <3>5. s.left - 1 \in -1..(LongestSocket + SessionTtl) /\ s.left - 1 >= 0
      BY <3>1 DEF Socket, LongestSocket
    <3>6. [s.session EXCEPT !.left = Older(@)] \in Session
      BY <3>1, <3>3 DEF Session
    <3> QED BY <3>1, <3>2, <3>4, <3>5, <3>6 DEF Socket
  <2>3. ASSUME NEW w \in Sockets, sockets[w] = None
        PROVE  sockets'[w] = None
    BY <1>14, <2>3 DEF Tick
  <2>4. sockets' \in [Sockets -> Socket \cup {None}]
    BY <1>14, <2>2, <2>3 DEF Tick
  <2> QED BY <1>14, <2>1, <2>2, <2>3, <2>4 DEF Tick, TypeOK
<1> QED
  BY NextCases, <1>1, <1>2, <1>3, <1>4, <1>5, <1>6, <1>7, <1>8, <1>9, <1>10, <1>11,
     <1>12, <1>13, <1>14

THEOREM TypeCorrect == Spec => []TypeOK
<1>1. Init => TypeOK
  <2>1. StartupAccount \in Account
    BY StaffAssumption DEF StartupAccount, Account
  <2> QED BY <2>1 DEF Init, TypeOK
<1>2. TypeOK /\ [Next]_vars => TypeOK'
  <2>1. ASSUME TypeOK, UNCHANGED vars
        PROVE  TypeOK'
    BY <2>1 DEF vars, TypeOK
  <2> QED BY <2>1, TypeStep
<1> QED BY <1>1, <1>2, PTL DEF Spec

-----------------------------------------------------------------------------
(* An administrator remains.                                               *)

(* A change of one account that is not the last administrator's, or leaves *)
(* it one, leaves an administrator.                                        *)
LEMMA OtherAdminRemains ==
    ASSUME TypeOK, AdministratorRemains, NEW o \in Operators, NEW acc,
           IsAdmin(accounts[o]) /\ ~IsAdmin(acc) => OtherAdmin(o),
           accounts' = [accounts EXCEPT ![o] = acc]
    PROVE  AdministratorRemains'
<1> USE DEF TypeOK, AdministratorRemains
<1>1. \A p \in Operators \ {o} : accounts'[p] = accounts[p]
  OBVIOUS
<1>2. accounts'[o] = acc
  OBVIOUS
<1>3. CASE OtherAdmin(o)
  <2>1. PICK p \in Operators \ {o} : IsAdmin(accounts[p])
    BY <1>3 DEF OtherAdmin
  <2>2. IsAdmin(accounts[p])'
    BY <1>1, <2>1 DEF IsAdmin
  <2> QED BY <2>2
<1>4. CASE IsAdmin(acc)
  <2>1. IsAdmin(accounts[o])'
    BY <1>2, <1>4 DEF IsAdmin
  <2> QED BY <2>1
<1>5. CASE ~IsAdmin(accounts[o])
  <2>1. PICK p \in Operators : IsAdmin(accounts[p])
    OBVIOUS
  <2>2. p # o
    BY <1>5, <2>1
  <2>3. IsAdmin(accounts[p])'
    BY <1>1, <2>1, <2>2 DEF IsAdmin
  <2> QED BY <2>3
<1> QED BY <1>3, <1>4, <1>5

LEMMA AdministratorStep ==
    ASSUME TypeOK, AdministratorRemains, Next
    PROVE  AdministratorRemains'
<1>1. ASSUME NEW r \in Requests, NEW o \in Operators, DeleteOperator(r, o)
      PROVE  AdministratorRemains'
  <2>1. IsAdmin(accounts[o]) => OtherAdmin(o)
    BY <1>1 DEF DeleteOperator
  <2>2. accounts' = [accounts EXCEPT ![o] = None]
    BY <1>1 DEF DeleteOperator, Change
  <2> QED BY <2>1, <2>2, OtherAdminRemains
<1>2. ASSUME NEW r \in Requests, NEW o \in Operators, NEW acc \in Account,
             UpsertOperator(r, o, acc)
      PROVE  AdministratorRemains'
  <2>1. IsAdmin(accounts[o]) /\ ~IsAdmin(acc) => OtherAdmin(o)
    BY <1>2 DEF UpsertOperator
  <2>2. accounts' = [accounts EXCEPT ![o] = acc]
    BY <1>2 DEF UpsertOperator, Change
  <2> QED BY <2>1, <2>2, OtherAdminRemains
<1>3. CASE Rescope
  <2>1. PICK p \in Operators : IsAdmin(accounts[p])
    BY DEF AdministratorRemains
  <2>2. accounts[p] \in Account
    BY <2>1 DEF TypeOK, IsAdmin
  <2>3. CASE Renamed(accounts[p])
    <3>1. accounts'[p] = [accounts[p] EXCEPT !.authority = Rescoped[accounts[p].authority]]
      BY <1>3, <2>3 DEF Rescope
    <3>2. /\ accounts'[p].enabled = accounts[p].enabled
          /\ accounts'[p].authority \in Admins
          /\ accounts'[p] \in Account
      BY <2>1, <2>2, <3>1, StaffAssumption DEF Account, IsAdmin
    <3>3. IsAdmin(accounts[p])'
      BY <2>1, <3>2, StaffAssumption DEF IsAdmin, Account
    <3> QED BY <3>3 DEF AdministratorRemains
  <2>4. CASE ~Renamed(accounts[p])
    <3>1. accounts'[p] = accounts[p]
      BY <1>3, <2>4 DEF Rescope
    <3>2. IsAdmin(accounts[p])'
      BY <2>1, <3>1 DEF IsAdmin
    <3> QED BY <3>2 DEF AdministratorRemains
  <2> QED BY <2>3, <2>4
<1>4. CASE Restart
  <2>1. PICK p \in Operators : IsAdmin(accounts[p])
    BY DEF AdministratorRemains
  <2>2. accounts'[p] = accounts[p]
    BY <1>4, <2>1 DEF Restart, IsAdmin, TypeOK
  <2>3. IsAdmin(accounts[p])'
    BY <2>1, <2>2 DEF IsAdmin
  <2> QED BY <2>3 DEF AdministratorRemains
<1>5. ASSUME UNCHANGED accounts
      PROVE  AdministratorRemains'
  BY <1>5 DEF AdministratorRemains, IsAdmin
<1>6. \/ UNCHANGED accounts
      \/ \E r \in Requests, o \in Operators : DeleteOperator(r, o)
      \/ \E r \in Requests, o \in Operators, acc \in Account : UpsertOperator(r, o, acc)
      \/ Rescope
      \/ Restart
  BY NextCases DEF LeaveAdmin, EnterAdmin, AbandonLogin, CheckLogin, IssueSession,
     RevokeSession, HoldSocket, CloseSocket, OpenSocket, Tick
<1> QED BY <1>1, <1>2, <1>3, <1>4, <1>5, <1>6

(* upsert_operator, delete_operator, the rescoping and a restart never      *)
(* leave the system without an administrator who can log in.               *)
THEOREM AdministratorStays == Spec => []AdministratorRemains
<1>1. Init => AdministratorRemains
  <2> SUFFICES ASSUME Init PROVE AdministratorRemains
    OBVIOUS
  <2>1. accounts[Startup] = StartupAccount
    BY StaffAssumption DEF Init
  <2>2. StartupAccount \in Account /\ StartupAccount.authority \in Admins
        /\ StartupAccount.enabled
    BY StaffAssumption DEF StartupAccount, Account
  <2>3. IsAdmin(accounts[Startup])
    BY <2>1, <2>2, StaffAssumption DEF IsAdmin, Account
  <2> QED BY <2>3, StaffAssumption DEF AdministratorRemains
<1>2. TypeOK /\ AdministratorRemains /\ [Next]_vars => AdministratorRemains'
  <2>1. ASSUME AdministratorRemains, UNCHANGED vars
        PROVE  AdministratorRemains'
    BY <2>1 DEF vars, AdministratorRemains, IsAdmin
  <2> QED BY <2>1, AdministratorStep
<1> QED BY <1>1, <1>2, TypeCorrect, PTL DEF Spec

-----------------------------------------------------------------------------
(* What was copied from an account is what the account says.               *)

LoginsCurrent ==
    \A h \in Logins : logins[h] # None /\ ~logins[h].overtaken => Matches(logins[h])

(* The sockets nobody lapsed. *)
SocketsNoted ==
    \A w \in Sockets :
        sockets[w] # None /\ ~sockets[w].session.overtaken /\ sockets[w].lapsed = None =>
            Matches(sockets[w].session)

(* A session is a copy of a login's copy, a socket's of a session's: none of *)
(* the three is preserved without the one before it.                        *)
Copies == LoginsCurrent /\ SessionsCurrent /\ SocketsNoted

(* Matches, in the next state, of a record of either state. *)
StillMatches(s) ==
    /\ accounts'[s.op] # None
    /\ accounts'[s.op].enabled
    /\ accounts'[s.op].authority = s.authority

(* The accounts outside of O are as they were. *)
Beyond(O) == \A o \in Operators \ O : accounts'[o] = accounts[o]

LEMMA MatchesBeyond ==
    ASSUME NEW O, Beyond(O), NEW s, s.op \in Operators \ O, Matches(s)
    PROVE  StillMatches(s)
BY DEF Beyond, Matches, StillMatches

LEMMA OvertakenCurrent ==
    ASSUME TypeOK, LoginsCurrent, NEW O, Beyond(O), logins' = Overtaken(O)
    PROVE  LoginsCurrent'
<1> SUFFICES ASSUME NEW h \in Logins, logins'[h] # None, ~logins'[h].overtaken
             PROVE  StillMatches(logins'[h])
  BY DEF LoginsCurrent, Matches, StillMatches
<1>1. logins[h] # None => logins[h] \in Login
  BY DEF TypeOK
<1>2. logins'[h] = logins[h] /\ logins[h] # None /\ logins[h].op \notin O
  BY <1>1 DEF Overtaken, Login
<1>3. Matches(logins[h]) /\ logins[h].op \in Operators \ O
  BY <1>1, <1>2 DEF LoginsCurrent, Login
<1>4. StillMatches(logins[h])
  BY <1>2, <1>3 DEF Beyond, Matches, StillMatches
<1> QED BY <1>2, <1>4

LEMMA LapsedNoted ==
    ASSUME TypeOK, SocketsNoted, NEW O, Beyond(O), sockets' = Lapsed(O)
    PROVE  SocketsNoted'
<1> SUFFICES ASSUME NEW w \in Sockets, sockets'[w] # None,
                    ~sockets'[w].session.overtaken, sockets'[w].lapsed = None
             PROVE  StillMatches(sockets'[w].session)
  BY DEF SocketsNoted, Matches, StillMatches
<1>1. sockets[w] # None => sockets[w] \in Socket /\ sockets[w].session \in Session
  BY DEF TypeOK, Socket
<1>2. /\ sockets'[w] = sockets[w] /\ sockets[w] # None
      /\ sockets[w].session.op \notin O
  <2>1. None \notin Nat
    BY StaffAssumption
  <2>2. sockets[w] # None
    BY DEF Lapsed
  <2> DEFINE change == sockets[w].session.op \in O /\ sockets[w].lapsed = None
  <2>3. ~change
    <3> SUFFICES ASSUME change PROVE FALSE
      OBVIOUS
    <3>1. sockets'[w] = [sockets[w] EXCEPT !.lapsed = 0]
      BY <2>2 DEF Lapsed
    <3>2. sockets'[w].lapsed = 0
      BY <1>1, <2>2, <3>1 DEF Socket
    <3> QED BY <2>1, <3>2
  <2>4. sockets'[w] = sockets[w]
    BY <2>2, <2>3 DEF Lapsed
  <2> QED BY <2>2, <2>3, <2>4
<1>3. /\ Matches(sockets[w].session)
      /\ sockets[w].session.op \in Operators \ O
  BY <1>1, <1>2 DEF SocketsNoted, Session
<1>4. StillMatches(sockets[w].session)
  BY <1>2, <1>3 DEF Beyond, Matches, StillMatches
<1> QED BY <1>2, <1>4

(* Sessions that were there and are not of an account in O still match. *)
LEMMA SessionsBeyond ==
    ASSUME TypeOK, SessionsCurrent, NEW O, Beyond(O),
           \A k \in Tokens : sessions'[k] # None =>
               sessions'[k] = sessions[k] /\ sessions[k].op \notin O
    PROVE  SessionsCurrent'
<1> SUFFICES ASSUME NEW k \in Tokens, sessions'[k] # None, ~sessions'[k].overtaken
             PROVE  StillMatches(sessions'[k])
  BY DEF SessionsCurrent, Matches, StillMatches
<1>1. sessions'[k] = sessions[k] /\ sessions[k] \in Session /\ sessions[k].op \notin O
  BY DEF TypeOK
<1>2. Matches(sessions[k]) /\ sessions[k].op \in Operators \ O
  BY <1>1 DEF SessionsCurrent, Session
<1>3. StillMatches(sessions[k])
  BY <1>1, <1>2 DEF Beyond, Matches, StillMatches
<1> QED BY <1>1, <1>3

LEMMA ChangeCopies ==
    ASSUME TypeOK, Copies, NEW o \in Operators, NEW new,
           \A p \in Operators \ {o} : new[p] = accounts[p], Change({o}, new)
    PROVE  Copies'
<1>1. Beyond({o}) /\ logins' = Overtaken({o}) /\ sockets' = Lapsed({o})
  BY DEF Beyond, Change
<1>2. \A k \in Tokens : sessions'[k] # None =>
          sessions'[k] = sessions[k] /\ sessions[k].op \notin {o}
  BY DEF Change, Revoked
<1> QED BY <1>1, <1>2, OvertakenCurrent, LapsedNoted, SessionsBeyond DEF Copies

LEMMA CopiesStep ==
    ASSUME TypeOK, Copies, Next
    PROVE  Copies'
<1> USE StaffAssumption
<1>1. ASSUME NEW r \in Requests, NEW o \in Operators, DeleteOperator(r, o)
      PROVE  Copies'
  <2>1. \A p \in Operators \ {o} : [accounts EXCEPT ![o] = None][p] = accounts[p]
    BY DEF TypeOK
  <2> QED BY <1>1, <2>1, ChangeCopies DEF DeleteOperator
<1>2. ASSUME NEW r \in Requests, NEW o \in Operators, NEW acc \in Account,
             UpsertOperator(r, o, acc)
      PROVE  Copies'
  <2>1. \A p \in Operators \ {o} : [accounts EXCEPT ![o] = acc][p] = accounts[p]
    BY DEF TypeOK
  <2> QED BY <1>2, <2>1, ChangeCopies DEF UpsertOperator
<1>3. ASSUME NEW h \in Logins, AbandonLogin(h)
      PROVE  Copies'
  BY <1>3 DEF AbandonLogin, Copies, LoginsCurrent, SessionsCurrent, SocketsNoted,
     Matches, StillMatches, TypeOK
<1>4. ASSUME NEW h \in Logins, NEW o \in Operators, CheckLogin(h, o)
      PROVE  Copies'
  <2>1. SessionsCurrent' /\ SocketsNoted'
    BY <1>4 DEF CheckLogin, Copies, SessionsCurrent, SocketsNoted, Matches, StillMatches
  <2>2. LoginsCurrent'
    <3> SUFFICES ASSUME NEW g \in Logins, logins'[g] # None, ~logins'[g].overtaken
                 PROVE  StillMatches(logins'[g])
      BY DEF LoginsCurrent, Matches, StillMatches
    <3>1. CASE g = h
      BY <1>4, <3>1 DEF CheckLogin, Matches, StillMatches, TypeOK
    <3>2. CASE g # h
      BY <1>4, <3>2 DEF CheckLogin, Matches, StillMatches, TypeOK, Copies, LoginsCurrent
    <3> QED BY <3>1, <3>2
  <2> QED BY <2>1, <2>2 DEF Copies
<1>5. ASSUME NEW h \in Logins, NEW k \in Tokens, IssueSession(h, k)
      PROVE  Copies'
  <2>1. LoginsCurrent' /\ SocketsNoted'
    BY <1>5 DEF IssueSession, Copies, LoginsCurrent, SocketsNoted, Matches, StillMatches, TypeOK
  <2>2. SessionsCurrent'
    <3> SUFFICES ASSUME NEW j \in Tokens, sessions'[j] # None, ~sessions'[j].overtaken
                 PROVE  StillMatches(sessions'[j])
      BY DEF SessionsCurrent, Matches, StillMatches
    <3>1. CASE j = k
      BY <1>5, <3>1 DEF IssueSession, Matches, StillMatches, TypeOK, Copies, LoginsCurrent
    <3>2. CASE j # k
      BY <1>5, <3>2 DEF IssueSession, Matches, StillMatches, TypeOK, Copies, SessionsCurrent
    <3> QED BY <3>1, <3>2
  <2> QED BY <2>1, <2>2 DEF Copies
<1>6. ASSUME NEW k \in Tokens, RevokeSession(k)
      PROVE  Copies'
  BY <1>6 DEF RevokeSession, Copies, LoginsCurrent, SessionsCurrent, SocketsNoted,
     Matches, StillMatches, TypeOK
<1>7. ASSUME NEW w \in Sockets, HoldSocket(w)
      PROVE  Copies'
  <2>1. LoginsCurrent' /\ SessionsCurrent'
    BY <1>7 DEF HoldSocket, Copies, LoginsCurrent, SessionsCurrent, Matches, StillMatches
  <2>2. SocketsNoted'
    <3> SUFFICES ASSUME NEW v \in Sockets, sockets'[v] # None,
                        ~sockets'[v].session.overtaken, sockets'[v].lapsed = None
                 PROVE  StillMatches(sockets'[v].session)
      BY DEF SocketsNoted, Matches, StillMatches
    <3>1. /\ sockets[v] # None /\ sockets'[v].session = sockets[v].session
          /\ sockets'[v].lapsed = sockets[v].lapsed
      BY <1>7 DEF HoldSocket, TypeOK, Socket
    <3> QED BY <1>7, <3>1 DEF HoldSocket, Copies, SocketsNoted, Matches, StillMatches
  <2> QED BY <2>1, <2>2 DEF Copies
<1>8. ASSUME NEW w \in Sockets, CloseSocket(w)
      PROVE  Copies'
  BY <1>8 DEF CloseSocket, Copies, LoginsCurrent, SessionsCurrent, SocketsNoted,
     Matches, StillMatches, TypeOK
<1>9. ASSUME NEW w \in Sockets, NEW k \in Tokens, OpenSocket(w, k)
      PROVE  Copies'
  <2>1. LoginsCurrent' /\ SessionsCurrent'
    BY <1>9 DEF OpenSocket, Copies, LoginsCurrent, SessionsCurrent, Matches, StillMatches
  <2>2. SocketsNoted'
    <3> SUFFICES ASSUME NEW v \in Sockets, sockets'[v] # None,
                        ~sockets'[v].session.overtaken, sockets'[v].lapsed = None
                 PROVE  StillMatches(sockets'[v].session)
      BY DEF SocketsNoted, Matches, StillMatches
    <3>1. CASE v = w
      BY <1>9, <3>1 DEF OpenSocket, Live, Matches, StillMatches, TypeOK, Copies, SessionsCurrent
    <3>2. CASE v # w
      BY <1>9, <3>2 DEF OpenSocket, Matches, StillMatches, TypeOK, Copies, SocketsNoted
    <3> QED BY <3>1, <3>2
  <2> QED BY <2>1, <2>2 DEF Copies
<1>10. CASE Rescope
  <2> DEFINE O == {o \in Operators : Renamed(accounts[o])}
  <2>1. Beyond(O) /\ logins' = Overtaken(O) /\ sockets' = Lapsed(O)
    BY <1>10 DEF Rescope, Beyond, TypeOK
  <2>2. \A k \in Tokens : sessions'[k] # None =>
            sessions'[k] = sessions[k] /\ sessions[k].op \notin O
    BY <1>10 DEF Rescope
  <2> HIDE DEF O
  <2> QED BY <2>1, <2>2, OvertakenCurrent, LapsedNoted, SessionsBeyond DEF Copies
<1>11. CASE Restart
  <2>1. LoginsCurrent' /\ SocketsNoted'
    BY <1>11 DEF Restart, LoginsCurrent, SocketsNoted
  <2> DEFINE O == IF accounts[Startup] = None THEN {Startup} ELSE {}
  <2>2. Beyond(O)
    BY <1>11 DEF Restart, Beyond, TypeOK
  <2>3. \A k \in Tokens : sessions'[k] # None =>
            sessions'[k] = sessions[k] /\ sessions[k].op \notin O
    BY <1>11 DEF Restart
  <2> HIDE DEF O
  <2> QED BY <2>1, <2>2, <2>3, SessionsBeyond DEF Copies
<1>12. CASE Tick
  <2>1. LoginsCurrent'
    BY <1>12 DEF Tick, Copies, LoginsCurrent, Matches, StillMatches
  <2>2. SessionsCurrent'
    <3> SUFFICES ASSUME NEW k \in Tokens, sessions'[k] # None, ~sessions'[k].overtaken
                 PROVE  StillMatches(sessions'[k])
      BY DEF SessionsCurrent, Matches, StillMatches
    <3>1. /\ sessions[k] # None /\ sessions'[k].op = sessions[k].op
          /\ sessions'[k].authority = sessions[k].authority
          /\ sessions'[k].overtaken = sessions[k].overtaken
      BY <1>12 DEF Tick, TypeOK, Session, Live
    <3> QED BY <1>12, <3>1 DEF Tick, Copies, SessionsCurrent, Matches, StillMatches
  <2>3. SocketsNoted'
    <3> SUFFICES ASSUME NEW w \in Sockets, sockets'[w] # None,
                        ~sockets'[w].session.overtaken, sockets'[w].lapsed = None
                 PROVE  StillMatches(sockets'[w].session)
      BY DEF SocketsNoted, Matches, StillMatches
    <3>1. /\ sockets[w] # None /\ sockets[w] \in Socket /\ sockets[w].session \in Session
      BY <1>12 DEF Tick, TypeOK, Socket
    <3>2. /\ sockets'[w].session.op = sockets[w].session.op
          /\ sockets'[w].session.authority = sockets[w].session.authority
          /\ sockets'[w].session.overtaken = sockets[w].session.overtaken
          /\ sockets'[w].lapsed = Since(sockets[w].lapsed)
      <4>1. sockets'[w] = [sockets[w] EXCEPT
                !.left = sockets[w].left - 1,
                !.session = [sockets[w].session EXCEPT !.left = Older(@)],
                !.lapsed = Since(sockets[w].lapsed)]
        BY <1>12, <3>1, TickSocket
      <4> QED BY <3>1, <4>1 DEF Session, Socket
    <3>3. sockets[w].lapsed = None
      <4>1. sockets[w].lapsed # None => sockets[w].lapsed \in Int
        BY <3>1 DEF Socket, LongestSocket
      <4>2. sockets[w].lapsed # None => Since(sockets[w].lapsed) \in Int
        BY <4>1 DEF Since
      <4> QED BY <3>2, <4>2
    <3> QED BY <1>12, <3>1, <3>2, <3>3 DEF Tick, Copies, SocketsNoted, Matches, StillMatches
  <2> QED BY <2>1, <2>2, <2>3 DEF Copies
<1>13. ASSUME UNCHANGED <<accounts, sessions, logins, sockets>>
       PROVE  Copies'
  BY <1>13 DEF Copies, LoginsCurrent, SessionsCurrent, SocketsNoted, Matches, StillMatches
<1>14. (\E r \in Requests : LeaveAdmin(r)) \/ (\E r \in Requests, k \in Tokens : EnterAdmin(r, k))
          => UNCHANGED <<accounts, sessions, logins, sockets>>
  BY DEF LeaveAdmin, EnterAdmin
<1> QED BY NextCases, <1>1, <1>2, <1>3, <1>4, <1>5, <1>6, <1>7, <1>8, <1>9, <1>10,
           <1>11, <1>12, <1>13, <1>14

LEMMA CopiesHold == Spec => []Copies
<1>1. Init => Copies
  BY DEF Init, Copies, LoginsCurrent, SessionsCurrent, SocketsNoted
<1>2. TypeOK /\ Copies /\ [Next]_vars => Copies'
  <2>1. ASSUME Copies, UNCHANGED vars
        PROVE  Copies'
    BY <2>1 DEF vars, Copies, LoginsCurrent, SessionsCurrent, SocketsNoted, Matches, StillMatches
  <2> QED BY <2>1, CopiesStep
<1> QED BY <1>1, <1>2, TypeCorrect, PTL DEF Spec

(* A session says what its account says, unless the account was changed     *)
(* between the two transactions of the login that issued it.               *)
THEOREM SessionsFollowAccounts == Spec => []SessionsCurrent
<1>1. Copies => SessionsCurrent
  BY DEF Copies
<1> QED BY <1>1, CopiesHold, PTL

-----------------------------------------------------------------------------
(* What is left to a socket, to its session and of the time since its      *)
(* account was changed.                                                    *)

Timed(s) ==
    /\ s.left <= IF s.held THEN SocketMaxAge ELSE Opening
    /\ s.lapsed # None => s.lapsed + s.left <= IF s.held THEN LongestSocket ELSE Opening
    /\ ~s.held => s.session.left + Opening > s.left
    /\ s.held => \/ s.left <= s.session.left
                 \/ s.left = 0 /\ s.session.left > -Opening

SocketsTimed == \A w \in Sockets : sockets[w] # None => Timed(sockets[w])

LEMMA LapsedTimed ==
    ASSUME TypeOK, SocketsTimed, NEW O, sockets' = Lapsed(O)
    PROVE  SocketsTimed'
<1> SUFFICES ASSUME NEW w \in Sockets, sockets'[w] # None
             PROVE  Timed(sockets'[w])
  BY DEF SocketsTimed, Timed
<1>1. sockets[w] # None /\ Timed(sockets[w]) /\ sockets[w] \in Socket
  BY DEF Lapsed, SocketsTimed, TypeOK
<1>2. CASE sockets'[w] = sockets[w]
  BY <1>1, <1>2
<1>3. CASE sockets'[w] = [sockets[w] EXCEPT !.lapsed = 0]
  BY <1>1, <1>3, StaffAssumption DEF Timed, Socket, Session, LongestSocket
<1>4. sockets'[w] = sockets[w] \/ sockets'[w] = [sockets[w] EXCEPT !.lapsed = 0]
  BY <1>1 DEF Lapsed
<1> QED BY <1>2, <1>3, <1>4

LEMMA TimedStep ==
    ASSUME TypeOK, SocketsTimed, Next
    PROVE  SocketsTimed'
<1> USE StaffAssumption
<1>1. ASSUME NEW w \in Sockets, HoldSocket(w)
      PROVE  SocketsTimed'
  <2> SUFFICES ASSUME NEW v \in Sockets, sockets'[v] # None
               PROVE  Timed(sockets'[v])
    BY DEF SocketsTimed, Timed
  <2>1. CASE v # w
    BY <1>1, <2>1 DEF HoldSocket, SocketsTimed, TypeOK
  <2>2. CASE v = w
    <3> DEFINE s == sockets[w]
    <3>1. s \in Socket /\ s.session \in Session /\ s.left >= 0 /\ Timed(s) /\ ~s.held
      BY <1>1 DEF HoldSocket, SocketsTimed, TypeOK, Socket
    <3>2. sockets'[w] = [s EXCEPT !.held = TRUE, !.left = MaxAge(s.session.left)]
      BY <1>1 DEF HoldSocket, TypeOK
    <3>3. /\ s.left \in Int /\ s.session.left \in Int
          /\ s.lapsed # None => s.lapsed \in Int
      BY <3>1 DEF Socket, Session, LongestSocket
    <3>4. /\ MaxAge(s.session.left) \in Int /\ MaxAge(s.session.left) <= SocketMaxAge
          /\ \/ MaxAge(s.session.left) <= s.session.left
             \/ MaxAge(s.session.left) = 0 /\ s.session.left > -Opening
      BY <3>1, <3>3 DEF MaxAge, Timed
    <3>5. /\ sockets'[w].held /\ sockets'[w].left = MaxAge(s.session.left)
          /\ sockets'[w].lapsed = s.lapsed /\ sockets'[w].session = s.session
      BY <3>1, <3>2 DEF Socket
    <3>6. s.lapsed # None => s.lapsed <= Opening
      BY <3>1, <3>3 DEF Timed
    <3> QED BY <2>2, <3>3, <3>4, <3>5, <3>6 DEF Timed, LongestSocket
  <2> QED BY <2>1, <2>2
<1>2. ASSUME NEW w \in Sockets, CloseSocket(w)
      PROVE  SocketsTimed'
  BY <1>2 DEF CloseSocket, SocketsTimed, Timed, TypeOK
<1>3. ASSUME NEW w \in Sockets, NEW k \in Tokens, OpenSocket(w, k)
      PROVE  SocketsTimed'
  <2> SUFFICES ASSUME NEW v \in Sockets, sockets'[v] # None
               PROVE  Timed(sockets'[v])
    BY DEF SocketsTimed, Timed
  <2>1. CASE v # w
    BY <1>3, <2>1 DEF OpenSocket, SocketsTimed, TypeOK
  <2>2. CASE v = w
    BY <1>3, <2>2 DEF OpenSocket, Live, Timed, TypeOK, Session
  <2> QED BY <2>1, <2>2
<1>4. CASE Tick
  <2> SUFFICES ASSUME NEW w \in Sockets, sockets'[w] # None
               PROVE  Timed(sockets'[w])
    BY DEF SocketsTimed, Timed
  <2>1. sockets[w] # None
    BY <1>4 DEF Tick
  <2> DEFINE s == sockets[w]
             t == sockets'[w]
  <2>2. /\ s \in Socket /\ s.session \in Session /\ s.left > 0 /\ Timed(s)
        /\ t = [s EXCEPT !.left = s.left - 1,
                         !.session = [s.session EXCEPT !.left = Older(@)],
                         !.lapsed = Since(s.lapsed)]
    BY <1>4, <2>1, TickSocket DEF SocketsTimed
  <2>3. /\ t.left = s.left - 1 /\ t.held = s.held
        /\ t.session.left = Older(s.session.left) /\ t.lapsed = Since(s.lapsed)
    BY <2>2 DEF Socket, Session
  <2>4. /\ s.left \in Int /\ s.session.left \in Int
        /\ s.lapsed # None => s.lapsed \in Int
        /\ s.held \in BOOLEAN
    BY <2>2 DEF Socket, Session, LongestSocket
  <2>5. t.lapsed # None => s.lapsed # None /\ t.lapsed <= s.lapsed + 1 /\ t.lapsed \in Int
    BY <2>3, <2>4 DEF Since
  <2>6. s.session.left > -(Opening + 1) => t.session.left = s.session.left - 1
    BY <2>3 DEF Older
  <2>7. s.held => s.session.left >= s.left /\ t.session.left = s.session.left - 1
    BY <2>2, <2>4, <2>6 DEF Timed
  <2>8. ~s.held => t.session.left = s.session.left - 1
    BY <2>2, <2>4, <2>6 DEF Timed
  <2> HIDE DEF s, t
  <2>9. Timed(t)
    BY <2>2, <2>3, <2>4, <2>5, <2>7, <2>8 DEF Timed, LongestSocket
  <2> QED BY <2>9 DEF t
<1>5. ASSUME NEW O, sockets' = Lapsed(O)
      PROVE  SocketsTimed'
  BY <1>5, LapsedTimed
<1>6. CASE Restart
  BY <1>6 DEF Restart, SocketsTimed
<1>7. CASE UNCHANGED sockets
  BY <1>7 DEF SocketsTimed, Timed
<1>8. \/ \E w \in Sockets : HoldSocket(w) \/ CloseSocket(w)
      \/ \E w \in Sockets, k \in Tokens : OpenSocket(w, k)
      \/ Tick
      \/ \E O : sockets' = Lapsed(O)
      \/ Restart
      \/ UNCHANGED sockets
  BY NextCases DEF LeaveAdmin, EnterAdmin, AbandonLogin, CheckLogin, IssueSession,
     RevokeSession, DeleteOperator, UpsertOperator, Change, Rescope
<1> QED BY <1>1, <1>2, <1>3, <1>4, <1>5, <1>6, <1>7, <1>8

LEMMA TimedHolds == Spec => []SocketsTimed
<1>1. Init => SocketsTimed
  BY DEF Init, SocketsTimed
<1>2. TypeOK /\ SocketsTimed /\ [Next]_vars => SocketsTimed'
  <2>1. ASSUME SocketsTimed, UNCHANGED vars
        PROVE  SocketsTimed'
    BY <2>1 DEF vars, SocketsTimed, Timed
  <2> QED BY <2>1, TimedStep
<1> QED BY <1>1, <1>2, TypeCorrect, PTL DEF Spec

(* An authority that was taken away shows the queue no longer than the      *)
(* opening and the life of a socket after that, unless it was taken away   *)
(* during the login.                                                       *)
THEOREM SocketsFollowAccounts == Spec => []SocketsFollow
<1>1. TypeOK /\ Copies /\ SocketsTimed => SocketsFollow
  <2> SUFFICES ASSUME TypeOK, SocketsNoted, SocketsTimed, NEW w \in Sockets,
                      sockets[w] # None, ~sockets[w].session.overtaken,
                      ~Matches(sockets[w].session)
               PROVE  sockets[w].lapsed \in 0..LongestSocket
    BY DEF SocketsFollow, Copies
  <2>1. sockets[w] \in Socket /\ sockets[w].left >= 0 /\ Timed(sockets[w])
    BY DEF TypeOK, SocketsTimed
  <2>2. sockets[w].lapsed # None
    BY DEF SocketsNoted
  <2> QED BY <2>1, <2>2, StaffAssumption DEF Timed, Socket, LongestSocket
<1> QED BY <1>1, TypeCorrect, CopiesHold, TimedHolds, PTL

(* No socket outlives the session it was opened with by as much as Opening. *)
THEOREM SocketsEndWithSessions == Spec => []SocketsEnd
<1>1. TypeOK /\ SocketsTimed => SocketsEnd
  <2> SUFFICES ASSUME TypeOK, SocketsTimed, NEW w \in Sockets, sockets[w] # None
               PROVE  \/ sockets[w].session.left >= 0
                      \/ sockets[w].session.left > -Opening
    BY DEF SocketsEnd
  <2>1. /\ sockets[w] \in Socket /\ sockets[w].session \in Session
        /\ sockets[w].left >= 0 /\ Timed(sockets[w])
    BY DEF TypeOK, SocketsTimed, Socket
  <2> QED BY <2>1, StaffAssumption DEF Timed, Socket, Session, LongestSocket
<1> QED BY <1>1, TypeCorrect, TimedHolds, PTL

=============================================================================
