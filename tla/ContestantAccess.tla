------------------------- MODULE ContestantAccess -------------------------
(***************************************************************************)
(* How a contestant's browser is let in.  It carries a login cookie of     *)
(* each CMS contest and one session cookie of the service.  Every request  *)
(* asks CMS who the logins belong to (src/cms_auth.py), looks the answer   *)
(* up in the roster and pairs it with a companion session (src/auth.py),   *)
(* whose token guards the forms of the page it is shown on.  Responses     *)
(* come back in any order, or not at all, and set cookies when they do     *)
(* (src/main.py).                                                          *)
(*                                                                         *)
(* Requests read the cookies when they are sent; the sessions, the roster  *)
(* and the logins may have changed when they are handled, and the cookies  *)
(* when they are answered.                                                 *)
(***************************************************************************)
EXTENDS Integers, FiniteSets, FiniteSetsExt, Functions

CONSTANTS
    Users,      \* contestants
    Contests,   \* settings.cms_contests, as numbers in the order of their names
    Tokens,     \* BOUND: session tokens
    Requests,   \* BOUND: requests of the browser under way at a time
    None,
    AsItWas     \* an answer that leaves the page alone

ASSUME AccessAssumption ==
    /\ Contests \subseteq Nat
    /\ {None, AsItWas} \cap (Users \cup Tokens \cup [user : Users, token : Tokens]) = {}
    /\ None # AsItWas

VARIABLES
    enabled,   \* the contestants the roster has
    logins,    \* the browser's login cookies
    cookie,    \* the browser's session cookie
    page,      \* whom the page greets, and the token in its forms
    sessions,  \* the rows of sessions with subject_type "cms"
    requests,  \* the requests under way
    out        \* history: the contestant has logged out and not in again

vars == <<enabled, logins, cookie, page, sessions, requests, out>>

Logins == [Contests -> Users \cup {None}]
NoLogins == [c \in Contests |-> None]

(* A page is [user, token].  A request is sent with the cookies, is let in *)
(* as somebody or refused, and answered:                                   *)
(*   idle;                                                                 *)
(*   sent, with a kind ("render", "poll" or "act"), the cookie, the user   *)
(*     and contest CMS vouched for, the logins it refreshed (`relay'), and  *)
(*     the page whose form it posts (`from');                              *)
(*   leaving, a logout, with the cookie and the page;                      *)
(*   admitted, refused or left, the answer: it sets cookies (`new' a       *)
(*     session, `relay' logins) and shows a page, an error or nothing.     *)
(* A poll stands for the opening of the page's socket as well, which is    *)
(* let in and sets cookies in the same way.                                *)
Idle == [stage |-> "idle"]
Becomes(r, next) == requests' = [requests EXCEPT ![r] = next]
Answer(stage, user, new, relay, shows) ==
    [stage |-> stage, user |-> user, new |-> new, relay |-> relay, shows |-> shows]

(* An error takes the place of the page that was asked for.                *)
Refusal(kind, new, relay) ==
    Answer("refused", None, new, relay, IF kind = "render" THEN None ELSE AsItWas)

-----------------------------------------------------------------------------
(* The browser.                                                            *)

(* CMSAuthenticator.authenticate: each login is accepted or not, or its    *)
(* contest is down; accepted ones may be refreshed.  That depends on the   *)
(* logins sent and on CMS alone, so it is settled at once.                 *)
Identify(r, kind, from) ==
    LET credentialed == {c \in Contests : logins[c] # None}
    IN \E accepted \in SUBSET credentialed :
       \E down \in SUBSET (credentialed \ accepted) :
       \E refreshed \in {{}, accepted} :
          LET identities == {logins[c] : c \in accepted}
              relay == [c \in Contests |-> IF c \in refreshed THEN logins[c] ELSE None]
          IN IF down = {} /\ Cardinality(identities) = 1
             THEN \E u \in identities :
                     Becomes(r, [stage |-> "sent", kind |-> kind, from |-> from,
                                 cookie |-> cookie, user |-> u, contest |-> Min(accepted),
                                 relay |-> relay])
             ELSE Becomes(r, Refusal(kind, None, relay))

(* The page polls, and posts its forms with the token it was given.        *)
Open(r) == Identify(r, "render", None)
Poll(r) == page # None /\ Identify(r, "poll", None)
Post(r) == page # None /\ Identify(r, "act", page)
PressLogout(r) ==
    page # None /\ Becomes(r, [stage |-> "leaving", from |-> page, cookie |-> cookie])

Send(r) ==
    /\ requests[r] = Idle
    /\ Open(r) \/ Poll(r) \/ Post(r) \/ PressLogout(r)
    /\ UNCHANGED <<enabled, logins, cookie, page, sessions, out>>

(* auth_cookie_relay, and the cookies logout deletes.                      *)
\* Mutant: logout deletes the login of the first contest only.
LoginsAfterMut(a) ==
    [c \in Contests |->
        IF a.relay[c] # None THEN a.relay[c]
        ELSE IF a.stage = "left" /\ c = Min(Contests) THEN None ELSE logins[c]]
LoginsAfter(a) ==
    [c \in Contests |->
        IF a.relay[c] # None THEN a.relay[c]
        ELSE IF a.stage = "left" THEN None ELSE logins[c]]

CookieAfter(a) ==
    IF a.new # None THEN a.new ELSE IF a.stage = "left" THEN None ELSE cookie

Arrive(r) ==
    LET a == requests[r]
    IN /\ a.stage \in {"admitted", "refused", "left"}
       /\ logins' = LoginsAfter(a)
       /\ cookie' = CookieAfter(a)
       /\ page' = IF a.shows = AsItWas THEN page ELSE a.shows
       /\ out' = IF a.stage = "left"
                 THEN \A other \in Requests \ {r} : requests[other] = Idle
                 ELSE out
       /\ Becomes(r, Idle)
       /\ UNCHANGED <<enabled, sessions>>

(* The connection is gone before the answer.                               *)
GetLost(r) ==
    /\ requests[r].stage \in {"admitted", "refused", "left"}
    /\ Becomes(r, Idle)
    /\ UNCHANGED <<enabled, logins, cookie, page, sessions, out>>

-----------------------------------------------------------------------------
(* get_student_principal, once it knows the identity.                      *)

(* The contestant is not in the roster.                                    *)
Strange(q) == q.user \notin enabled

RefuseStranger(r) ==
    LET q == requests[r]
    IN /\ q.stage = "sent"
       /\ Strange(q)
       /\ Becomes(r, Refusal(q.kind, None, q.relay))
       /\ UNCHANGED <<enabled, logins, cookie, page, sessions, out>>

(* The session the cookie names is this contestant's in this contest.      *)
\* Mutant: any live session will do.
CompanionMut(q) == q.cookie \in DOMAIN sessions
Companion(q) ==
    /\ q.cookie \in DOMAIN sessions
    /\ sessions[q.cookie].user = q.user
    /\ sessions[q.cookie].contest = q.contest

(* verify_csrf, for the requests that change something.                    *)
\* Mutant: any live session of the contestant's is good enough.
GenuineMut(q, t) == q.kind = "act" => q.from.token \in DOMAIN sessions
Genuine(q, t) == q.kind = "act" => q.from.token = t

(* The principal is made from the session t, which is `new' or known.      *)
Admit(r, t, user, new) ==
    LET q == requests[r]
    IN Becomes(r, IF Genuine(q, t)
                  THEN Answer("admitted", user, new, q.relay,
                              IF q.kind = "render" THEN [user |-> user, token |-> t]
                              ELSE AsItWas)
                  ELSE Refusal(q.kind, new, q.relay))

UseSession(r) ==
    LET q == requests[r]
    IN /\ q.stage = "sent"
       /\ ~Strange(q)
       /\ Companion(q)
       /\ Admit(r, q.cookie, sessions[q.cookie].user, None)
       /\ UNCHANGED <<enabled, logins, cookie, page, sessions, out>>

(* Tokens are random: a new one is none the browser still has.  A row whose *)
(* token the browser does not have is never read again.                    *)
TokenOf(p) == IF p \in {None, AsItWas} THEN None ELSE p.token
Mentioned(q) ==
    CASE q.stage = "idle" -> {}
      [] q.stage \in {"sent", "leaving"} -> {q.cookie, TokenOf(q.from)}
      [] OTHER -> {q.new, TokenOf(q.shows)}
InUse == {cookie, TokenOf(page)} \cup UNION {Mentioned(requests[r]) : r \in Requests}

NewRow(q) == [user |-> q.user, contest |-> q.contest]

Issue(r) ==
    LET q == requests[r]
    IN /\ q.stage = "sent"
       /\ ~Strange(q)
       /\ ~Companion(q)
       /\ \E t \in Tokens \ InUse :
             /\ sessions' = [s \in DOMAIN sessions \cup {t} |->
                                IF s = t THEN NewRow(q) ELSE sessions[s]]
             /\ Admit(r, t, q.user, t)
       /\ UNCHANGED <<enabled, logins, cookie, page, out>>

(* The cms_session_issuance bucket of the contestant is full; when that is *)
(* is left open.                                                           *)
RefuseIssue(r) ==
    LET q == requests[r]
    IN /\ q.stage = "sent"
       /\ ~Strange(q)
       /\ ~Companion(q)
       /\ Becomes(r, Refusal(q.kind, None, q.relay))
       /\ UNCHANGED <<enabled, logins, cookie, page, sessions, out>>

-----------------------------------------------------------------------------
(* logout, which asks neither CMS nor the roster.                          *)

MayLeave(q) == q.cookie \in DOMAIN sessions /\ q.from.token = q.cookie

Revoke(r) ==
    LET q == requests[r]
    IN /\ q.stage = "leaving"
       /\ MayLeave(q)
       /\ sessions' = Restrict(sessions, DOMAIN sessions \ {q.cookie})
       /\ Becomes(r, Answer("left", None, None, NoLogins, None))
       /\ UNCHANGED <<enabled, logins, cookie, page, out>>

RefuseLogout(r) ==
    LET q == requests[r]
    IN /\ q.stage = "leaving"
       /\ ~MayLeave(q)
       /\ Becomes(r, Answer("refused", None, None, NoLogins, None))
       /\ UNCHANGED <<enabled, logins, cookie, page, sessions, out>>

-----------------------------------------------------------------------------
(* What happens meanwhile.                                                 *)

(* The contestant logs in to a contest with CMS, or that login ends; CMS    *)
(* deletes the cookie of a login it does not accept, too.                  *)
CmsLogin(c, u) ==
    /\ logins[c] # u
    /\ logins' = [logins EXCEPT ![c] = u]
    /\ out' = (out /\ u = None)
    /\ UNCHANGED <<enabled, cookie, page, sessions, requests>>

(* An operator logs in on this browser: one cookie serves both.            *)
OperatorLogin ==
    /\ cookie # None
    /\ cookie' = None
    /\ UNCHANGED <<enabled, logins, page, sessions, requests, out>>

Synchronise(roster) ==
    /\ enabled' = roster
    /\ UNCHANGED <<logins, cookie, page, sessions, requests, out>>

Expire(t) ==
    /\ sessions' = Restrict(sessions, DOMAIN sessions \ {t})
    /\ UNCHANGED <<enabled, logins, cookie, page, requests, out>>

-----------------------------------------------------------------------------
Init ==
    /\ enabled = Users
    /\ logins = NoLogins
    /\ cookie = None
    /\ page = None
    /\ sessions = [t \in {} |-> None]
    /\ requests = [r \in Requests |-> Idle]
    /\ out = FALSE

Next ==
    \/ \E r \in Requests :
          \/ Send(r) \/ Arrive(r) \/ GetLost(r)
          \/ RefuseStranger(r) \/ UseSession(r) \/ Issue(r) \/ RefuseIssue(r)
          \/ Revoke(r) \/ RefuseLogout(r)
    \/ \E c \in Contests, u \in Users \cup {None} : CmsLogin(c, u)
    \/ OperatorLogin
    \/ \E roster \in SUBSET Users : Synchronise(roster)
    \/ \E t \in DOMAIN sessions : Expire(t)

Spec == Init /\ [][Next]_vars

-----------------------------------------------------------------------------
(* What is promised.                                                       *)

(* Whatever the cookies became while a request was under way, it acts for  *)
(* the contestant CMS vouched for with the logins it was sent with; and a  *)
(* form acts for the contestant its page greets, although somebody else    *)
(* may have logged in since.                                               *)
ActsForItsUser ==
    [][\A r \in Requests :
          LET q == requests[r]
          IN q.stage = "sent" /\ requests'[r].stage = "admitted" =>
                /\ requests'[r].user = q.user
                /\ q.kind = "act" => q.from.user = q.user]_vars

(* A contestant who has logged out stays out, whichever contests the       *)
(* browser had logins of, until the next login.  Only an answer that was   *)
(* under way at the time may bring a refreshed login back.                 *)
LogoutHolds ==
    out => /\ logins = NoLogins
           /\ \A r \in Requests : requests[r].stage # "admitted"

=============================================================================
