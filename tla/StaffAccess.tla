---------------------------- MODULE StaffAccess ----------------------------
(***************************************************************************)
(* Operator accounts, their sessions and their WebSockets: what an         *)
(* operator may do is copied from the account into a session at login and  *)
(* from the session into a request handler or a socket, and the account    *)
(* can change at any point in between.  MutationService of src/service.py  *)
(* changes accounts and sessions, one transaction per operation; the       *)
(* handlers of src/main.py string several of them together.                *)
(***************************************************************************)
EXTENDS Integers

CONSTANTS
    Operators,     \* usernames
    Startup,       \* settings.admin_username
    Authorities,   \* valid combinations of roles, class scope and all_classes
    Admins,        \* those with the admin role
    Proctoring,    \* those with the proctor role
    Rescoped,      \* the authority each becomes when class keys are remapped
    Logins,        \* login requests being handled
    Requests,      \* administrators' requests being handled
    Tokens,        \* session tokens
    Sockets,       \* staff WebSockets
    SessionTtl,    \* settings.session_ttl_seconds
    SocketMaxAge,  \* settings.cms_socket_max_age_seconds
    Opening,       \* how long the handshake and the first state may take
    None

ASSUME StaffAssumption ==
    /\ Startup \in Operators
    /\ Admins \subseteq Authorities /\ Proctoring \subseteq Authorities
    /\ Rescoped \in [Authorities -> Authorities]
    /\ \A a \in Authorities : Rescoped[a] \in Admins <=> a \in Admins
    /\ SessionTtl \in Nat \ {0} /\ SocketMaxAge \in Nat \ {0}
    /\ Opening \in Nat
    /\ Admins \ Proctoring # {}
    /\ None \notin Operators \cup Int
    /\ None \notin [authority : Authorities, enabled : BOOLEAN]

(* Times are kept as what is left of them, so that nothing bounds how long  *)
(* the system runs.                                                        *)
VARIABLES
    accounts,  \* operator_accounts
    sessions,  \* sessions with subject_type "operator"
    logins,    \* what each login read of the account
    acting,    \* the requests that were let in as an administrator's
    sockets    \* Hub.staff, with the time left to each

vars == <<accounts, sessions, logins, acting, sockets>>

Account == [authority : Authorities, enabled : BOOLEAN]
IsAdmin(acc) == acc # None /\ acc.enabled /\ acc.authority \in Admins

(* "overtaken" is history: the account was changed or deleted after the    *)
(* login had read it.                                                      *)
Login == [op : Operators, authority : Authorities, overtaken : BOOLEAN]
Session == [op : Operators, authority : Authorities, overtaken : BOOLEAN,
            left : -(Opening + 1)..SessionTtl]

(* A socket keeps the session it was opened with.  "lapsed" is history: how *)
(* long ago its account was changed; it counts no further than the longest  *)
(* a socket may last.                                                      *)
LongestSocket == Opening + SocketMaxAge
Socket == [session : Session, held : BOOLEAN, left : -1..(LongestSocket + SessionTtl),
           lapsed : 0..(LongestSocket + 1) \cup {None}]

(* get_session *)
Live(k) == sessions[k] # None /\ sessions[k].left > 0

-----------------------------------------------------------------------------
(* Changing an account. *)

\* Mutant: an administrator who is disabled counts as well.
OtherAdminMut(o) ==
    \E p \in Operators \ {o} : accounts[p] # None /\ accounts[p].authority \in Admins
OtherAdmin(o) == \E p \in Operators \ {o} : IsAdmin(accounts[p])

(* The sessions that go with a change of the accounts in O. *)
\* Mutant: only when the account is gone or disabled.
RevokedMut(O, new) ==
    [k \in Tokens |->
        IF /\ sessions[k] # None /\ sessions[k].op \in O
           /\ new[sessions[k].op] = None \/ ~new[sessions[k].op].enabled
        THEN None ELSE sessions[k]]
Revoked(O, new) ==
    [k \in Tokens |-> IF sessions[k] # None /\ sessions[k].op \in O THEN None ELSE sessions[k]]

(* What the logins under way have read is no longer what the account says. *)
Overtaken(O) ==
    [h \in Logins |-> IF logins[h] # None /\ logins[h].op \in O
                      THEN [logins[h] EXCEPT !.overtaken = TRUE] ELSE logins[h]]

(* No operation on accounts looks at the sockets that are open. *)
Lapsed(O) ==
    [w \in Sockets |->
        IF sockets[w] # None /\ sockets[w].session.op \in O /\ sockets[w].lapsed = None
        THEN [sockets[w] EXCEPT !.lapsed = 0] ELSE sockets[w]]

Change(O, new) ==
    /\ accounts' = new
    /\ sessions' = Revoked(O, new)
    /\ logins' = Overtaken(O)
    /\ sockets' = Lapsed(O)

UpsertOperator(r, o, acc) ==
    /\ r \in acting
    /\ IsAdmin(accounts[o]) /\ ~IsAdmin(acc) => OtherAdmin(o)
    /\ Change({o}, [accounts EXCEPT ![o] = acc])
    /\ acting' = acting \ {r}

DeleteOperator(r, o) ==
    /\ r \in acting
    /\ accounts[o] # None
    /\ IsAdmin(accounts[o]) => OtherAdmin(o)
    /\ Change({o}, [accounts EXCEPT ![o] = None])
    /\ acting' = acting \ {r}

(* The part of reconcile_legacy_class_mapping_keys that is about accounts: *)
(* scopes that name a remapped class key are rewritten.                    *)
Renamed(record) == record # None /\ Rescoped[record.authority] # record.authority

Rescope ==
    LET O == {o \in Operators : Renamed(accounts[o])}
    IN /\ O # {}
       /\ accounts' = [o \in Operators |-> IF o \in O
             THEN [accounts[o] EXCEPT !.authority = Rescoped[@]] ELSE accounts[o]]
       /\ sessions' = [k \in Tokens |->
             IF sessions[k] # None /\ (sessions[k].op \in O \/ Renamed(sessions[k]))
             THEN None ELSE sessions[k]]
       /\ logins' = Overtaken(O)
       /\ sockets' = Lapsed(O)
       /\ UNCHANGED acting

-----------------------------------------------------------------------------
(* operator_login: the account is read in one transaction, the session     *)
(* issued in another.                                                      *)

CheckLogin(h, o) ==
    /\ logins[h] = None
    /\ accounts[o] # None /\ accounts[o].enabled
    /\ logins' = [logins EXCEPT ![h] =
          [op |-> o, authority |-> accounts[o].authority, overtaken |-> FALSE]]
    /\ UNCHANGED <<accounts, sessions, acting, sockets>>

(* Expired sessions go in the same transaction. *)
IssueSession(h, k) ==
    /\ logins[h] # None
    /\ sessions[k] = None
    /\ sessions' = [j \in Tokens |->
          IF j = k THEN [op |-> logins[h].op, authority |-> logins[h].authority,
                         overtaken |-> logins[h].overtaken, left |-> SessionTtl]
          ELSE IF Live(j) THEN sessions[j] ELSE None]
    /\ logins' = [logins EXCEPT ![h] = None]
    /\ UNCHANGED <<accounts, acting, sockets>>

(* The client is gone before the session is issued. *)
AbandonLogin(h) ==
    /\ logins[h] # None
    /\ logins' = [logins EXCEPT ![h] = None]
    /\ UNCHANGED <<accounts, sessions, acting, sockets>>

(* logout, which revokes a session that expired meanwhile just the same.   *)
RevokeSession(k) ==
    /\ sessions[k] # None
    /\ sessions' = [sessions EXCEPT ![k] = None]
    /\ UNCHANGED <<accounts, logins, acting, sockets>>

-----------------------------------------------------------------------------
(* What a session is good for. *)

(* require_admin: the rest of the handler relies on the roles read here. *)
EnterAdmin(r, k) ==
    /\ r \notin acting
    /\ Live(k)
    /\ sessions[k].authority \in Admins
    /\ acting' = acting \cup {r}
    /\ UNCHANGED <<accounts, sessions, logins, sockets>>

(* The operation is refused, or is none on accounts. *)
LeaveAdmin(r) ==
    /\ r \in acting
    /\ acting' = acting \ {r}
    /\ UNCHANGED <<accounts, sessions, logins, sockets>>

(* staff_websocket: registered with the hub before the first state is       *)
(* sent, which may take as long as Opening; the deadline is set after that. *)
OpenSocket(w, k) ==
    /\ sockets[w] = None
    /\ Live(k)
    /\ sessions[k].authority \in Proctoring
    /\ sockets' = [sockets EXCEPT ![w] =
          [session |-> sessions[k], held |-> FALSE, left |-> Opening, lapsed |-> None]]
    /\ UNCHANGED <<accounts, sessions, logins, acting>>

(* _principal_socket_max_age, given what is left of the session. *)
\* Mutant: a socket lives as long as its session.
MaxAgeMutSession(left) == IF left > 0 THEN left ELSE 0
\* Mutant: a socket lives as long as the setting says.
MaxAgeMutSetting(left) == SocketMaxAge
MaxAge(left) ==
    IF left >= SocketMaxAge THEN SocketMaxAge ELSE IF left > 0 THEN left ELSE 0

HoldSocket(w) ==
    /\ sockets[w] # None /\ ~sockets[w].held
    /\ sockets' = [sockets EXCEPT ![w].held = TRUE,
                                  ![w].left = MaxAge(sockets[w].session.left)]
    /\ UNCHANGED <<accounts, sessions, logins, acting>>

(* At the deadline, or because the client went away. *)
CloseSocket(w) ==
    /\ sockets[w] # None
    /\ sockets' = [sockets EXCEPT ![w] = None]
    /\ UNCHANGED <<accounts, sessions, logins, acting>>

(* A socket whose time is over is held or closed before more time passes.  *)
Tick ==
    /\ \A w \in Sockets : sockets[w] # None => sockets[w].left > 0
    /\ sessions' = [k \in Tokens |->
          IF Live(k) THEN [sessions[k] EXCEPT !.left = @ - 1] ELSE sessions[k]]
    /\ sockets' = [w \in Sockets |->
          IF sockets[w] = None THEN None
          ELSE [sockets[w] EXCEPT
                  !.left = @ - 1,
                  !.session.left = IF @ > -(Opening + 1) THEN @ - 1 ELSE @,
                  !.lapsed = IF @ = None \/ @ > LongestSocket THEN @ ELSE @ + 1]]
    /\ UNCHANGED <<accounts, logins, acting>>

(* The process ends and starts again: the database stays.  The startup      *)
(* administrator is made if the name is free, and expired sessions go.      *)
StartupAccount == [authority |-> CHOOSE a \in Admins \ Proctoring : TRUE, enabled |-> TRUE]

Restart ==
    /\ accounts' = IF accounts[Startup] # None THEN accounts
                   ELSE [accounts EXCEPT ![Startup] = StartupAccount]
    /\ sessions' = [k \in Tokens |->
          IF /\ Live(k)
             /\ accounts[Startup] # None \/ sessions[k].op # Startup
          THEN sessions[k] ELSE None]
    /\ logins' = [h \in Logins |-> None]
    /\ acting' = {}
    /\ sockets' = [w \in Sockets |-> None]

Init ==
    /\ accounts = [o \in Operators |-> IF o = Startup THEN StartupAccount ELSE None]
    /\ sessions = [k \in Tokens |-> None]
    /\ logins = [h \in Logins |-> None]
    /\ acting = {}
    /\ sockets = [w \in Sockets |-> None]

Next ==
    \/ \E r \in Requests :
          \/ LeaveAdmin(r)
          \/ \E k \in Tokens : EnterAdmin(r, k)
          \/ \E o \in Operators :
                \/ DeleteOperator(r, o)
                \/ \E acc \in Account : UpsertOperator(r, o, acc)
    \/ \E h \in Logins :
          \/ AbandonLogin(h)
          \/ \E o \in Operators : CheckLogin(h, o)
          \/ \E k \in Tokens : IssueSession(h, k)
    \/ \E k \in Tokens : RevokeSession(k)
    \/ \E w \in Sockets :
          \/ HoldSocket(w) \/ CloseSocket(w)
          \/ \E k \in Tokens : OpenSocket(w, k)
    \/ Rescope
    \/ Restart
    \/ Tick

Spec == Init /\ [][Next]_vars

-----------------------------------------------------------------------------
(* What is promised.                                                       *)

(* Every value is of its kind, and a socket is given no time that is over   *)
(* before it is given.                                                     *)
TypeOK ==
    /\ accounts \in [Operators -> Account \cup {None}]
    /\ sessions \in [Tokens -> Session \cup {None}]
    /\ \A k \in Tokens : sessions[k] # None => sessions[k].left >= 0
    /\ logins \in [Logins -> Login \cup {None}]
    /\ acting \subseteq Requests
    /\ sockets \in [Sockets -> Socket \cup {None}]
    /\ \A w \in Sockets : sockets[w] # None => sockets[w].left >= 0

(* An administrator who can log in remains, whatever administrators do to   *)
(* each other and themselves, with authority read before it was taken away, *)
(* and whatever a restart finds.                                            *)
AdministratorRemains == \E o \in Operators : IsAdmin(accounts[o])

(* A session says what its account says, unless the account was changed     *)
(* while the login was between its two transactions.                        *)
Matches(s) ==
    /\ accounts[s.op] # None
    /\ accounts[s.op].enabled
    /\ accounts[s.op].authority = s.authority

SessionsCurrent ==
    \A k \in Tokens : sessions[k] # None /\ ~sessions[k].overtaken => Matches(sessions[k])

(* Nothing closes the sockets of an operator whose account is changed; but  *)
(* an authority that was taken away shows the queue no longer than the life *)
(* of a socket after that.                                                  *)
SocketsFollow ==
    \A w \in Sockets :
        sockets[w] # None /\ ~sockets[w].session.overtaken /\ ~Matches(sockets[w].session) =>
            sockets[w].lapsed \in 0..LongestSocket

(* Nor does a socket outlive the session it was opened with, except while   *)
(* it is being opened.                                                      *)
SocketsEnd ==
    \A w \in Sockets : sockets[w] # None =>
        \/ sockets[w].session.left >= 0
        \/ sockets[w].session.left > -Opening

=============================================================================
