----------------------- MODULE ContestantAccessProofs -----------------------
(***************************************************************************)
(* Theorems about ContestantAccess for any contestants, contests, tokens   *)
(* and numbers of requests under way.                                      *)
(***************************************************************************)
EXTENDS ContestantAccess, FiniteSetTheorems, WellFoundedInduction, TLAPS

Pages == [user : Users, token : Tokens]
Forms ==
    {Idle}
    \cup [stage : {"sent"}, kind : {"render", "poll", "act"}, from : Pages \cup {None},
          cookie : Tokens \cup {None}, user : Users, contest : Contests, relay : Logins]
    \cup [stage : {"leaving"}, from : Pages, cookie : Tokens \cup {None}]
    \cup [stage : {"admitted", "refused", "left"}, user : Users \cup {None},
          new : Tokens \cup {None}, relay : Logins, shows : Pages \cup {None, AsItWas}]

(* A form is posted from a page. *)
PostedFromPage(q) == q.stage = "sent" /\ q.kind = "act" => q.from \in Pages

TypeOK ==
    /\ enabled \in SUBSET Users
    /\ logins \in Logins
    /\ cookie \in Tokens \cup {None}
    /\ page \in Pages \cup {None}
    /\ DOMAIN sessions \in SUBSET Tokens
    /\ sessions \in [DOMAIN sessions -> [user : Users, contest : Contests]]
    /\ requests \in [Requests -> Forms]
    /\ \A r \in Requests : PostedFromPage(requests[r])
    /\ out \in BOOLEAN

-----------------------------------------------------------------------------
(* Some contest is the first of those that accepted. *)
LEMMA FirstContest ==
    ASSUME NEW S \in SUBSET Contests, S # {}
    PROVE  Min(S) \in S
<1> DEFINE below == {p \in Nat \X Nat : p[1] < p[2]}
<1>1. S \subseteq Nat
  BY AccessAssumption
<1>2. PICK n \in S : \A m \in S : <<m, n>> \notin below
  <2>1. IsWellFoundedOn(below, Nat)
    BY NatLessThanWellFounded, Zenon DEF OpToRel
  <2> HIDE DEF below
  <2> QED BY <1>1, <2>1, WFMin
<1>3. ASSUME NEW m \in S
      PROVE  n <= m
  <2>1. m \in Nat /\ n \in Nat /\ <<m, n>> \notin below
    BY <1>1, <1>2
  <2>2. ~(m < n)
    BY <2>1
  <2> QED BY <2>1, <2>2
<1> QED BY <1>3 DEF Min

(* A page is not one of the marks for no page. *)
LEMMA PagesAreProper == Pages \cap {None, AsItWas} = {}
BY AccessAssumption DEF Pages

(* The forms a request takes on its way. *)
LEMMA AnswerForm ==
    ASSUME NEW stage \in {"admitted", "refused", "left"}, NEW user \in Users \cup {None},
           NEW new \in Tokens \cup {None}, NEW relay \in Logins,
           NEW shows \in Pages \cup {None, AsItWas}
    PROVE  /\ Answer(stage, user, new, relay, shows) \in Forms
           /\ PostedFromPage(Answer(stage, user, new, relay, shows))
BY DEF Answer, Forms, PostedFromPage

LEMMA RefusalForm ==
    ASSUME NEW kind, NEW new \in Tokens \cup {None}, NEW relay \in Logins
    PROVE  Refusal(kind, new, relay) \in Forms /\ PostedFromPage(Refusal(kind, new, relay))
BY AnswerForm DEF Refusal

(* What there is to know of a request by its stage. *)
LEMMA FormByStage ==
    ASSUME NEW q \in Forms
    PROVE  /\ q.stage \in {"idle", "sent", "leaving", "admitted", "refused", "left"}
           /\ q.stage = "idle" => q = Idle
           /\ q.stage = "sent" =>
                 /\ q.kind \in {"render", "poll", "act"} /\ q.from \in Pages \cup {None}
                 /\ q.cookie \in Tokens \cup {None} /\ q.user \in Users
                 /\ q.contest \in Contests /\ q.relay \in Logins
           /\ q.stage = "leaving" => q.from \in Pages /\ q.cookie \in Tokens \cup {None}
           /\ q.stage \in {"admitted", "refused", "left"} =>
                 /\ q.user \in Users \cup {None} /\ q.new \in Tokens \cup {None}
                 /\ q.relay \in Logins /\ q.shows \in Pages \cup {None, AsItWas}
BY DEF Forms, Idle

(* Only request r changes, and to a proper form. *)
LEMMA BecomesType ==
    ASSUME requests \in [Requests -> Forms], \A r \in Requests : PostedFromPage(requests[r]),
           NEW r \in Requests, NEW next \in Forms, PostedFromPage(next), Becomes(r, next)
    PROVE  /\ requests' \in [Requests -> Forms]
           /\ \A q \in Requests : PostedFromPage(requests'[q])
BY DEF Becomes

(* The answer to an identified request, from its session. *)
LEMMA AdmitForm ==
    ASSUME TypeOK, NEW r \in Requests, requests[r].stage = "sent",
           NEW t \in Tokens, NEW user \in Users, NEW new \in Tokens \cup {None},
           Admit(r, t, user, new)
    PROVE  /\ requests' \in [Requests -> Forms]
           /\ \A q \in Requests : PostedFromPage(requests'[q])
<1> DEFINE q == requests[r]
           shows == IF q.kind = "render" THEN [user |-> user, token |-> t] ELSE AsItWas
           next == IF Genuine(q, t) THEN Answer("admitted", user, new, q.relay, shows)
                   ELSE Refusal(q.kind, new, q.relay)
<1>1. q \in Forms /\ Becomes(r, next)
  BY DEF TypeOK, Admit
<1>2. q.relay \in Logins
  BY <1>1, FormByStage
<1>3. shows \in Pages \cup {None, AsItWas}
  BY DEF Pages
<1>4. next \in Forms /\ PostedFromPage(next)
  <2> HIDE DEF q, shows
  <2> QED BY <1>2, <1>3, AnswerForm, RefusalForm
<1> HIDE DEF next, q
<1> QED BY <1>1, <1>4, BecomesType DEF TypeOK

(* Identification gives the request a user and a contest, or refuses it. *)
LEMMA IdentifyForm ==
    ASSUME TypeOK, NEW r \in Requests, NEW kind \in {"render", "poll", "act"},
           NEW from \in Pages \cup {None}, kind = "act" => from \in Pages,
           Identify(r, kind, from)
    PROVE  \E next \in Forms :
              /\ Becomes(r, next) /\ PostedFromPage(next)
              /\ \/ next.stage = "sent" /\ next.from = from
                 \/ next.stage = "refused" /\ next.shows \in {None, AsItWas}
<1> DEFINE credentialed == {c \in Contests : logins[c] # None}
<1>1. PICK accepted \in SUBSET credentialed, refreshed \in SUBSET Contests :
        LET identities == {logins[c] : c \in accepted}
            relay == [c \in Contests |-> IF c \in refreshed THEN logins[c] ELSE None]
        IN \/ /\ Cardinality(identities) = 1
              /\ \E u \in identities :
                     Becomes(r, [stage |-> "sent", kind |-> kind, from |-> from,
                                 cookie |-> cookie, user |-> u, contest |-> Min(accepted),
                                 relay |-> relay])
           \/ Becomes(r, Refusal(kind, None, relay))
  BY DEF Identify
<1> DEFINE identities == {logins[c] : c \in accepted}
           relay == [c \in Contests |-> IF c \in refreshed THEN logins[c] ELSE None]
<1>2. relay \in Logins
  BY DEF TypeOK, Logins
<1>3. ASSUME NEW u \in identities,
             Becomes(r, [stage |-> "sent", kind |-> kind, from |-> from,
                         cookie |-> cookie, user |-> u, contest |-> Min(accepted),
                         relay |-> relay])
      PROVE  \E next \in Forms :
                /\ Becomes(r, next) /\ PostedFromPage(next)
                /\ next.stage = "sent" /\ next.from = from
  <2> DEFINE next == [stage |-> "sent", kind |-> kind, from |-> from, cookie |-> cookie,
                      user |-> u, contest |-> Min(accepted), relay |-> relay]
  <2>1. u \in Users
    BY DEF TypeOK, Logins
  <2>2. accepted # {} /\ accepted \in SUBSET Contests
    OBVIOUS
  <2>3. Min(accepted) \in Contests
    BY <2>2, FirstContest
  <2>4. next \in Forms
    <3> HIDE DEF relay, identities
    <3> QED BY <1>2, <2>1, <2>3 DEF Forms, TypeOK
  <2>5. next.stage = "sent" /\ next.from = from /\ PostedFromPage(next)
    BY DEF PostedFromPage
  <2> QED BY <1>3, <2>4, <2>5
<1>4. ASSUME Becomes(r, Refusal(kind, None, relay))
      PROVE  \E next \in Forms :
                /\ Becomes(r, next) /\ PostedFromPage(next)
                /\ next.stage = "refused" /\ next.shows \in {None, AsItWas}
  <2>1. Refusal(kind, None, relay) \in Forms /\ PostedFromPage(Refusal(kind, None, relay))
    BY <1>2, RefusalForm
  <2>2. /\ Refusal(kind, None, relay).stage = "refused"
        /\ Refusal(kind, None, relay).shows \in {None, AsItWas}
    BY DEF Refusal, Answer
  <2> QED BY <1>4, <2>1, <2>2
<1> QED BY <1>1, <1>3, <1>4

(* What is sent: an identified or refused request, or a logout from the     *)
(* page.                                                                    *)
LEMMA SendForm ==
    ASSUME TypeOK, NEW r \in Requests, Send(r)
    PROVE  \E next \in Forms :
              /\ Becomes(r, next) /\ PostedFromPage(next)
              /\ \/ next.stage = "sent" /\ next.from \in {None, page}
                 \/ next.stage = "refused" /\ next.shows \in {None, AsItWas}
                 \/ next.stage = "leaving" /\ next.from = page
<1>1. CASE Open(r)
  BY <1>1, IdentifyForm DEF Open
<1>2. CASE Poll(r)
  BY <1>2, IdentifyForm DEF Poll
<1>3. CASE Post(r)
  <2>1. page \in Pages
    BY <1>3 DEF Post, TypeOK
  <2> QED BY <1>3, <2>1, IdentifyForm DEF Post
<1>4. CASE PressLogout(r)
  <2> DEFINE next == [stage |-> "leaving", from |-> page, cookie |-> cookie]
  <2>1. page \in Pages /\ Becomes(r, next)
    BY <1>4 DEF PressLogout, TypeOK
  <2>2. next \in Forms /\ PostedFromPage(next)
    BY <2>1 DEF Forms, PostedFromPage, TypeOK
  <2>3. next.stage = "leaving" /\ next.from = page
    OBVIOUS
  <2> QED BY <2>1, <2>2, <2>3
<1> QED BY <1>1, <1>2, <1>3, <1>4 DEF Send

-----------------------------------------------------------------------------
(* Every step leaves everything in its domain. *)

(* An answer sets cookies and shows a page of the kinds there are. *)
LEMMA ArriveType ==
    ASSUME TypeOK, NEW r \in Requests, Arrive(r)
    PROVE  TypeOK'
<1> DEFINE a == requests[r]
<1>1. /\ a \in Forms /\ a.stage \in {"admitted", "refused", "left"}
      /\ logins' = LoginsAfter(a) /\ cookie' = CookieAfter(a)
      /\ page' = (IF a.shows = AsItWas THEN page ELSE a.shows)
      /\ out' \in BOOLEAN /\ Becomes(r, Idle) /\ UNCHANGED <<enabled, sessions>>
  BY DEF Arrive, TypeOK
<1>2. /\ a.new \in Tokens \cup {None} /\ a.relay \in Logins
      /\ a.shows \in Pages \cup {None, AsItWas}
  BY <1>1, FormByStage
<1>3. Idle \in Forms /\ PostedFromPage(Idle)
  BY DEF Forms, Idle, PostedFromPage
<1>4. /\ requests' \in [Requests -> Forms]
      /\ \A q \in Requests : PostedFromPage(requests'[q])
  BY <1>1, <1>3, BecomesType DEF TypeOK
<1> HIDE DEF a
<1>5. logins' \in Logins
  BY <1>1, <1>2 DEF LoginsAfter, Logins, TypeOK
<1>6. cookie' \in Tokens \cup {None} /\ page' \in Pages \cup {None}
  BY <1>1, <1>2 DEF CookieAfter, TypeOK
<1> QED BY <1>1, <1>4, <1>5, <1>6 DEF TypeOK

(* A session is taken or made, and the request answered or refused. *)
LEMMA IssueType ==
    ASSUME TypeOK, NEW r \in Requests, Issue(r)
    PROVE  TypeOK'
<1> DEFINE q == requests[r]
<1>1. q \in Forms /\ q.stage = "sent" /\ UNCHANGED <<enabled, logins, cookie, page, out>>
  BY DEF Issue, TypeOK
<1>2. PICK t \in Tokens \ InUse :
        /\ sessions' = [s \in DOMAIN sessions \cup {t} |-> IF s = t THEN NewRow(q) ELSE sessions[s]]
        /\ Admit(r, t, q.user, t)
  BY DEF Issue
<1>3. q.user \in Users /\ q.contest \in Contests
  BY <1>1, FormByStage
<1>4. /\ requests' \in [Requests -> Forms]
      /\ \A p \in Requests : PostedFromPage(requests'[p])
  BY <1>1, <1>2, <1>3, AdmitForm
<1>5. DOMAIN sessions' \in SUBSET Tokens
  BY <1>2 DEF TypeOK
<1>6. sessions' \in [DOMAIN sessions' -> [user : Users, contest : Contests]]
  BY <1>2, <1>3 DEF NewRow, TypeOK
<1> QED BY <1>1, <1>4, <1>5, <1>6 DEF TypeOK

LEMMA RequestStepType ==
    ASSUME TypeOK, NEW r \in Requests,
           \/ Send(r) \/ Arrive(r) \/ GetLost(r)
           \/ RefuseStranger(r) \/ UseSession(r) \/ Issue(r) \/ RefuseIssue(r)
           \/ Revoke(r) \/ RefuseLogout(r)
    PROVE  TypeOK'
<1>1. requests[r] \in Forms /\ NoLogins \in Logins
  BY DEF TypeOK, NoLogins, Logins
<1>2. ASSUME NEW next \in Forms, PostedFromPage(next), Becomes(r, next),
             UNCHANGED <<enabled, logins, cookie, page, out>>,
             \/ UNCHANGED sessions
             \/ \E t : sessions' = Restrict(sessions, DOMAIN sessions \ {t})
      PROVE  TypeOK'
  <2>1. /\ requests' \in [Requests -> Forms]
        /\ \A q \in Requests : PostedFromPage(requests'[q])
    BY <1>2, BecomesType DEF TypeOK
  <2>2. /\ DOMAIN sessions' \in SUBSET Tokens
        /\ sessions' \in [DOMAIN sessions' -> [user : Users, contest : Contests]]
    BY <1>2 DEF TypeOK, Restrict
  <2> QED BY <1>2, <2>1, <2>2 DEF TypeOK
<1>3. CASE Send(r)
  <2>1. PICK next \in Forms : Becomes(r, next) /\ PostedFromPage(next)
    BY <1>3, SendForm
  <2> QED BY <1>2, <1>3, <2>1 DEF Send
<1>4. CASE GetLost(r)
  <2>1. Idle \in Forms /\ PostedFromPage(Idle)
    BY DEF Forms, Idle, PostedFromPage
  <2> QED BY <1>2, <1>4, <2>1 DEF GetLost
<1>5. CASE RefuseStranger(r) \/ RefuseIssue(r)
  <2>1. /\ requests[r].stage = "sent" /\ UNCHANGED <<enabled, logins, cookie, page, sessions, out>>
        /\ Becomes(r, Refusal(requests[r].kind, None, requests[r].relay))
    BY <1>5 DEF RefuseStranger, RefuseIssue
  <2>2. requests[r].relay \in Logins
    BY <1>1, <2>1, FormByStage
  <2>3. /\ Refusal(requests[r].kind, None, requests[r].relay) \in Forms
        /\ PostedFromPage(Refusal(requests[r].kind, None, requests[r].relay))
    BY <2>2, RefusalForm
  <2> QED BY <1>2, <2>1, <2>3
<1>6. CASE UseSession(r)
  <2>1. /\ requests[r].stage = "sent" /\ UNCHANGED <<enabled, logins, cookie, page, sessions, out>>
        /\ requests[r].cookie \in DOMAIN sessions
        /\ Admit(r, requests[r].cookie, sessions[requests[r].cookie].user, None)
    BY <1>6 DEF UseSession, Companion
  <2>2. requests[r].cookie \in Tokens /\ sessions[requests[r].cookie].user \in Users
    BY <2>1 DEF TypeOK
  <2>3. /\ requests' \in [Requests -> Forms]
        /\ \A q \in Requests : PostedFromPage(requests'[q])
    BY <2>1, <2>2, AdmitForm
  <2> QED BY <2>1, <2>3 DEF TypeOK
<1>7. CASE Revoke(r) \/ RefuseLogout(r)
  <2>1. /\ UNCHANGED <<enabled, logins, cookie, page, out>>
        /\ \/ UNCHANGED sessions
           \/ \E t : sessions' = Restrict(sessions, DOMAIN sessions \ {t})
        /\ \E stage \in {"left", "refused"} :
              Becomes(r, Answer(stage, None, None, NoLogins, None))
    BY <1>7 DEF Revoke, RefuseLogout
  <2>2. PICK stage \in {"left", "refused"} : Becomes(r, Answer(stage, None, None, NoLogins, None))
    BY <2>1
  <2>3. /\ Answer(stage, None, None, NoLogins, None) \in Forms
        /\ PostedFromPage(Answer(stage, None, None, NoLogins, None))
    BY <1>1, AnswerForm
  <2> QED BY <1>2, <2>1, <2>2, <2>3
<1> QED BY <1>3, <1>4, <1>5, <1>6, <1>7, ArriveType, IssueType

LEMMA StepType ==
    ASSUME TypeOK, [Next]_vars
    PROVE  TypeOK'
<1>1. ASSUME NEW c \in Contests, NEW u \in Users \cup {None}, CmsLogin(c, u)
      PROVE  TypeOK'
  BY <1>1 DEF CmsLogin, TypeOK, Logins
<1>2. CASE OperatorLogin
  BY <1>2 DEF OperatorLogin, TypeOK
<1>3. ASSUME NEW roster \in SUBSET Users, Synchronise(roster)
      PROVE  TypeOK'
  BY <1>3 DEF Synchronise, TypeOK
<1>4. ASSUME NEW t \in DOMAIN sessions, Expire(t)
      PROVE  TypeOK'
  BY <1>4 DEF Expire, Restrict, TypeOK
<1>5. CASE UNCHANGED vars
  BY <1>5 DEF vars, TypeOK
<1> QED BY <1>1, <1>2, <1>3, <1>4, <1>5, RequestStepType DEF Next

(* The cookies, the page, the sessions and the requests under way are of    *)
(* the kinds the code gives them.                                           *)
THEOREM AccessTypeCorrect == Spec => []TypeOK
<1>1. Init => TypeOK
  <2> SUFFICES ASSUME Init PROVE TypeOK
    OBVIOUS
  <2>1. Idle \in Forms /\ PostedFromPage(Idle)
    BY DEF Forms, Idle, PostedFromPage
  <2>2. requests \in [Requests -> Forms] /\ \A r \in Requests : PostedFromPage(requests[r])
    BY <2>1 DEF Init
  <2>3. /\ DOMAIN sessions \in SUBSET Tokens
        /\ sessions \in [DOMAIN sessions -> [user : Users, contest : Contests]]
    BY DEF Init
  <2>4. logins \in Logins
    BY DEF Init, NoLogins, Logins
  <2> QED BY <2>2, <2>3, <2>4 DEF Init, TypeOK
<1> QED BY <1>1, StepType, PTL DEF Spec

-----------------------------------------------------------------------------
(* Logging out.  An answer to a logout deletes every login and brings none, *)
(* and once the contestant is out there is nothing under way that could    *)
(* bring one, nor a login to send.                                         *)
Harmless(q) ==
    /\ q.stage \in {"idle", "leaving", "refused", "left"}
    /\ q.stage \in {"refused", "left"} => q.relay = NoLogins

Out ==
    /\ \A r \in Requests : requests[r].stage = "left" => requests[r].relay = NoLogins
    /\ out => logins = NoLogins /\ \A r \in Requests : Harmless(requests[r])

(* Without a login nobody is identified, and nothing is refreshed. *)
LEMMA NobodyIdentified ==
    ASSUME logins = NoLogins, NEW r, NEW kind, NEW from, Identify(r, kind, from)
    PROVE  Becomes(r, Refusal(kind, None, NoLogins))
<1> DEFINE credentialed == {c \in Contests : logins[c] # None}
<1>1. credentialed = {}
  BY DEF NoLogins
<1>2. Cardinality({}) # 1
  BY FS_EmptySet
<1> QED BY <1>1, <1>2 DEF Identify, NoLogins

LEMMA OutStep ==
    ASSUME TypeOK, Out, [Next]_vars
    PROVE  Out'
<1> USE DEF TypeOK
<1>1. ASSUME NEW r \in Requests, NEW next, Becomes(r, next),
             next.stage = "left" => next.relay = NoLogins,
             out => Harmless(next),
             UNCHANGED <<logins, out>>
      PROVE  Out'
  <2>1. \A q \in Requests : requests'[q] = IF q = r THEN next ELSE requests[q]
    BY <1>1 DEF Becomes
  <2> QED BY <1>1, <2>1 DEF Out
<1>2. ASSUME NEW r \in Requests, Send(r)
      PROVE  Out'
  <2>1. PICK next \in Forms :
              /\ Becomes(r, next)
              /\ next.stage \in {"sent", "refused", "leaving"}
    BY <1>2, SendForm
  <2>2. CASE ~out
    BY <1>1, <1>2, <2>1, <2>2 DEF Send
  <2>3. CASE out
    <3>1. logins = NoLogins
      BY <2>3 DEF Out
    <3>2. \/ \E kind : Becomes(r, Refusal(kind, None, NoLogins))
          \/ PressLogout(r)
      BY <1>2, <3>1, NobodyIdentified DEF Send, Open, Poll, Post
    <3>3. next.stage = "refused" => next.relay = NoLogins
      <4>1. requests'[r] = next
        BY <2>1 DEF Becomes
      <4>2. ASSUME NEW kind, Becomes(r, Refusal(kind, None, NoLogins))
            PROVE  next.relay = NoLogins
        BY <4>1, <4>2 DEF Becomes, Refusal, Answer
      <4>3. ASSUME PressLogout(r)
            PROVE  next.stage = "leaving"
        BY <4>1, <4>3 DEF Becomes, PressLogout
      <4> QED BY <3>2, <4>2, <4>3
    <3>4. next.stage # "sent"
      <4>1. requests'[r] = next
        BY <2>1 DEF Becomes
      <4> QED BY <3>2, <4>1 DEF Becomes, Refusal, Answer, PressLogout
    <3> QED BY <1>1, <1>2, <2>1, <3>3, <3>4 DEF Send, Harmless
  <2> QED BY <2>2, <2>3
<1>3. ASSUME NEW r \in Requests, Arrive(r)
      PROVE  Out'
  <2> DEFINE a == requests[r]
  <2>1. \A q \in Requests : requests'[q] = IF q = r THEN Idle ELSE requests[q]
    BY <1>3 DEF Arrive, Becomes
  <2>2. a.stage \in {"admitted", "refused", "left"} /\ logins' = LoginsAfter(a)
    BY <1>3 DEF Arrive
  <2>3. CASE a.stage = "left"
    <3>1. logins' = NoLogins
      BY <2>2, <2>3 DEF LoginsAfter, NoLogins, Out
    <3>2. out' => \A q \in Requests : requests'[q] = Idle
      BY <1>3, <2>1, <2>3 DEF Arrive
    <3> QED BY <2>1, <3>1, <3>2 DEF Out, Harmless, Idle
  <2>4. CASE a.stage # "left"
    <3>1. out' = out
      BY <1>3, <2>4 DEF Arrive
    <3>2. out => a.relay = NoLogins
      BY <2>2 DEF Out, Harmless
    <3>3. out => logins' = NoLogins
      BY <2>2, <2>4, <3>2 DEF LoginsAfter, NoLogins, Out
    <3> QED BY <2>1, <3>1, <3>3 DEF Out, Harmless, Idle
  <2> QED BY <2>3, <2>4
<1>4. ASSUME NEW r \in Requests, GetLost(r)
      PROVE  Out'
  BY <1>1, <1>4 DEF GetLost, Idle, Harmless
<1>5. ASSUME NEW r \in Requests,
             RefuseStranger(r) \/ UseSession(r) \/ Issue(r) \/ RefuseIssue(r)
      PROVE  Out'
  <2>1. /\ requests[r].stage = "sent" /\ UNCHANGED <<logins, out>>
        /\ \/ \E t, user, new : Admit(r, t, user, new)
           \/ \E kind, new, relay : Becomes(r, Refusal(kind, new, relay))
    BY <1>5 DEF RefuseStranger, UseSession, Issue, RefuseIssue
  <2>2. ~out
    BY <2>1 DEF Out, Harmless
  <2>3. ASSUME NEW t, NEW user, NEW new, Admit(r, t, user, new)
        PROVE  \E next : Becomes(r, next) /\ next.stage \in {"admitted", "refused"}
    <3> DEFINE q == requests[r]
               shows == IF q.kind = "render" THEN [user |-> user, token |-> t] ELSE AsItWas
               next == IF Genuine(q, t) THEN Answer("admitted", user, new, q.relay, shows)
                       ELSE Refusal(q.kind, new, q.relay)
    <3>1. Becomes(r, next)
      BY <2>3 DEF Admit
    <3>2. next.stage \in {"admitted", "refused"}
      BY DEF Answer, Refusal
    <3> HIDE DEF next
    <3> QED BY <3>1, <3>2
  <2>4. ASSUME NEW kind, NEW new, NEW relay, Becomes(r, Refusal(kind, new, relay))
        PROVE  \E next : Becomes(r, next) /\ next.stage \in {"admitted", "refused"}
    <3>1. Refusal(kind, new, relay).stage = "refused"
      BY DEF Answer, Refusal
    <3> QED BY <2>4, <3>1
  <2> QED BY <1>1, <2>1, <2>2, <2>3, <2>4
<1>6. ASSUME NEW r \in Requests, Revoke(r) \/ RefuseLogout(r)
      PROVE  Out'
  <2>1. /\ UNCHANGED <<logins, out>>
        /\ \E stage \in {"left", "refused"} :
              Becomes(r, Answer(stage, None, None, NoLogins, None))
    BY <1>6 DEF Revoke, RefuseLogout
  <2>2. PICK stage \in {"left", "refused"} : Becomes(r, Answer(stage, None, None, NoLogins, None))
    BY <2>1
  <2>3. /\ Answer(stage, None, None, NoLogins, None).stage = stage
        /\ Answer(stage, None, None, NoLogins, None).relay = NoLogins
    BY DEF Answer
  <2> QED BY <1>1, <2>1, <2>2, <2>3 DEF Harmless
<1>7. ASSUME NEW c \in Contests, NEW u \in Users \cup {None}, CmsLogin(c, u)
      PROVE  Out'
  BY <1>7 DEF CmsLogin, Out, Logins, NoLogins
<1>8. CASE \/ OperatorLogin
           \/ \E roster \in SUBSET Users : Synchronise(roster)
           \/ \E t \in DOMAIN sessions : Expire(t)
           \/ UNCHANGED vars
  <2>1. UNCHANGED <<logins, requests, out>>
    BY <1>8 DEF OperatorLogin, Synchronise, Expire, vars
  <2> QED BY <2>1 DEF Out
<1> QED BY <1>2, <1>3, <1>4, <1>5, <1>6, <1>7, <1>8 DEF Next

(* A contestant who has logged out of one contest is logged out of all, and *)
(* no answer to an earlier request lets anybody in.                        *)
THEOREM LogoutStays == Spec => []LogoutHolds
<1>1. Init => Out
  BY DEF Init, Out, Idle
<1>2. TypeOK /\ Out /\ [Next]_vars => Out'
  BY OutStep
<1>3. Out => LogoutHolds
  BY DEF Out, Harmless, LogoutHolds
<1> QED BY <1>1, <1>2, <1>3, AccessTypeCorrect, PTL DEF Spec

-----------------------------------------------------------------------------
(* Pages and their tokens.  Wherever a page is kept, on the screen, with a *)
(* request or in an answer, its token opens a session of the contestant it *)
(* greets, or none: a token is never given to a second contestant while a  *)
(* page with it exists.                                                    *)
Belongs(p) ==
    p \in Pages /\ p.token \in DOMAIN sessions => sessions[p.token].user = p.user

PagesOf(q) ==
    CASE q.stage = "idle" -> {}
      [] q.stage \in {"sent", "leaving"} -> {q.from}
      [] OTHER -> {q.shows}

Bound ==
    /\ Belongs(page)
    /\ \A r \in Requests : \A p \in PagesOf(requests[r]) : Belongs(p)

(* A new token is on no page, so that its row speaks of no page there is.  *)
LEMMA FreshTokenOnNoPage ==
    ASSUME TypeOK, NEW t \in Tokens \ InUse
    PROVE  /\ page \in Pages => page.token # t
           /\ \A r \in Requests : \A p \in PagesOf(requests[r]) : p \in Pages => p.token # t
           /\ \A r \in Requests : requests[r].stage = "sent" /\ requests[r].from \in Pages
                 => requests[r].from.token # t
<1>1. \A p \in Pages : TokenOf(p) = p.token
  BY PagesAreProper DEF TokenOf
<1>2. t # TokenOf(page) /\ \A r \in Requests : t \notin Mentioned(requests[r])
  BY DEF InUse
<1>3. ASSUME NEW r \in Requests, NEW p \in PagesOf(requests[r])
      PROVE  TokenOf(p) \in Mentioned(requests[r])
  BY <1>3 DEF PagesOf, Mentioned
<1>4. ASSUME NEW r \in Requests, requests[r].stage = "sent"
      PROVE  TokenOf(requests[r].from) \in Mentioned(requests[r])
  BY <1>4 DEF Mentioned
<1> QED BY <1>1, <1>2, <1>3, <1>4

(* What Admit shows is a page of the contestant with the token of the      *)
(* session, or nothing new.                                                *)
LEMMA AdmitShows ==
    ASSUME TypeOK, NEW r \in Requests, NEW t, NEW user, NEW new,
           Admit(r, t, user, new)
    PROVE  /\ \A o \in Requests \ {r} : requests'[o] = requests[o]
           /\ requests'[r].stage \in {"admitted", "refused"}
           /\ requests'[r].shows \in {None, AsItWas, [user |-> user, token |-> t]}
           /\ requests'[r].stage = "admitted" =>
                 requests'[r].user = user /\ Genuine(requests[r], t)
<1> DEFINE q == requests[r]
           shows == IF q.kind = "render" THEN [user |-> user, token |-> t] ELSE AsItWas
           good == Answer("admitted", user, new, q.relay, shows)
           bad == Refusal(q.kind, new, q.relay)
<1>1. Becomes(r, IF Genuine(q, t) THEN good ELSE bad)
  BY DEF Admit
<1>2. /\ good.stage = "admitted" /\ good.user = user /\ good.shows = shows
      /\ bad.stage = "refused" /\ bad.shows \in {None, AsItWas}
  BY DEF Answer, Refusal
<1>3. requests'[r] = (IF Genuine(q, t) THEN good ELSE bad)
  BY <1>1 DEF Becomes, TypeOK
<1>4. \A o \in Requests \ {r} : requests'[o] = requests[o]
  BY <1>1 DEF Becomes, TypeOK
<1> HIDE DEF good, bad
<1>5. CASE Genuine(q, t)
  BY <1>2, <1>3, <1>4, <1>5
<1>6. CASE ~Genuine(q, t)
  BY <1>2, <1>3, <1>4, <1>6
<1> QED BY <1>5, <1>6

(* Sessions may end, and the pages a step makes may be those there were.   *)
LEMMA NoNewPages ==
    ASSUME Bound, DOMAIN sessions' \subseteq DOMAIN sessions,
           \A t \in DOMAIN sessions' : sessions'[t] = sessions[t],
           NEW r \in Requests,
           \A o \in Requests \ {r} : requests'[o] = requests[o],
           \A p \in PagesOf(requests'[r]) :
              p \in Pages => p = page \/ p \in PagesOf(requests[r]),
           page' \in Pages => page' = page \/ page' \in PagesOf(requests[r])
    PROVE  Bound'
<1>1. \A p : Belongs(p) => Belongs(p)'
  BY DEF Belongs
<1>2. \A p : p \notin Pages => Belongs(p)'
  BY DEF Belongs
<1>3. Belongs(page)'
  <2>1. CASE page' \in Pages
    <3>1. Belongs(page')
      BY <2>1 DEF Bound
    <3> QED BY <3>1 DEF Belongs
  <2> QED BY <2>1 DEF Belongs
<1>4. ASSUME NEW o \in Requests, NEW p \in PagesOf(requests'[o])
      PROVE  Belongs(p)'
  <2>1. CASE o # r
    BY <1>1, <2>1, <1>4 DEF Bound
  <2>2. CASE o = r /\ p \in Pages
    BY <1>1, <1>4, <2>2 DEF Bound
  <2> QED BY <1>2, <2>1, <2>2
<1>5. (\A o \in Requests : \A p \in PagesOf(requests[o]) : Belongs(p))'
  BY <1>4 DEF PagesOf
<1> QED BY <1>3, <1>5 DEF Bound

LEMMA BoundStep ==
    ASSUME TypeOK, Bound, [Next]_vars
    PROVE  Bound'
<1>1. ASSUME NEW r \in Requests, NEW next, Becomes(r, next), UNCHANGED page,
             \A p \in PagesOf(next) : p \in Pages => p = page \/ p \in PagesOf(requests[r]),
             \/ UNCHANGED sessions
             \/ \E t : sessions' = Restrict(sessions, DOMAIN sessions \ {t})
      PROVE  Bound'
  <2>1. /\ requests'[r] = next
        /\ \A o \in Requests \ {r} : requests'[o] = requests[o]
    BY <1>1 DEF Becomes, TypeOK
  <2>2. /\ DOMAIN sessions' \subseteq DOMAIN sessions
        /\ \A t \in DOMAIN sessions' : sessions'[t] = sessions[t]
    BY <1>1 DEF Restrict
  <2> QED BY <1>1, <2>1, <2>2, NoNewPages
<1>2. ASSUME NEW r \in Requests, Send(r)
      PROVE  Bound'
  <2>1. PICK next \in Forms :
              /\ Becomes(r, next)
              /\ \/ next.stage = "sent" /\ next.from \in {None, page}
                 \/ next.stage = "refused" /\ next.shows \in {None, AsItWas}
                 \/ next.stage = "leaving" /\ next.from = page
    BY <1>2, SendForm
  <2>2. \A p \in PagesOf(next) : p \in Pages => p = page
    BY <2>1, PagesAreProper DEF PagesOf
  <2> QED BY <1>1, <1>2, <2>1, <2>2 DEF Send
<1>3. ASSUME NEW r \in Requests, Arrive(r)
      PROVE  Bound'
  <2>1. /\ requests[r].stage \in {"admitted", "refused", "left"}
        /\ page' = (IF requests[r].shows = AsItWas THEN page ELSE requests[r].shows)
        /\ UNCHANGED sessions /\ Becomes(r, Idle)
    BY <1>3 DEF Arrive
  <2>2. requests'[r] = Idle /\ \A o \in Requests \ {r} : requests'[o] = requests[o]
    BY <2>1 DEF Becomes, TypeOK
  <2>3. PagesOf(requests[r]) = {requests[r].shows} /\ PagesOf(Idle) = {}
    BY <2>1 DEF PagesOf, Idle
  <2>4. page' = page \/ page' \in PagesOf(requests[r])
    BY <2>1, <2>3
  <2> QED BY <2>1, <2>2, <2>3, <2>4, NoNewPages
<1>4. ASSUME NEW r \in Requests, GetLost(r)
      PROVE  Bound'
  <2>1. PagesOf(Idle) = {}
    BY DEF PagesOf, Idle
  <2> QED BY <1>1, <1>4, <2>1 DEF GetLost
<1>5. ASSUME NEW r \in Requests, RefuseStranger(r) \/ RefuseIssue(r)
      PROVE  Bound'
  <2> DEFINE next == Refusal(requests[r].kind, None, requests[r].relay)
  <2>1. next.stage = "refused" /\ next.shows \in {None, AsItWas}
    BY DEF Refusal, Answer
  <2>2. \A p \in PagesOf(next) : p \notin Pages
    BY <2>1, PagesAreProper DEF PagesOf
  <2>3. Becomes(r, next) /\ UNCHANGED <<page, sessions>>
    BY <1>5 DEF RefuseStranger, RefuseIssue
  <2> HIDE DEF next
  <2> QED BY <1>1, <2>2, <2>3
<1>6. ASSUME NEW r \in Requests, UseSession(r)
      PROVE  Bound'
  <2> DEFINE t == requests[r].cookie
  <2>0. PICK mine : mine = [user |-> sessions[t].user, token |-> t]
    OBVIOUS
  <2>1. Admit(r, t, sessions[t].user, None) /\ UNCHANGED <<page, sessions>>
    BY <1>6 DEF UseSession
  <2>2. /\ \A o \in Requests \ {r} : requests'[o] = requests[o]
        /\ requests'[r].stage \in {"admitted", "refused"}
        /\ requests'[r].shows \in {None, AsItWas, mine}
    BY <2>1, <2>0, AdmitShows
  <2>3. \A p \in PagesOf(requests'[r]) : Belongs(p)'
    <3>1. Belongs(mine)'
      BY <2>1, <2>0 DEF Belongs
    <3>2. Belongs(None)' /\ Belongs(AsItWas)'
      BY PagesAreProper DEF Belongs
    <3>3. PagesOf(requests'[r]) \subseteq {None, AsItWas, mine}
      BY <2>2 DEF PagesOf
    <3> QED BY <3>1, <3>2, <3>3
  <2>4. \A p : Belongs(p) => Belongs(p)'
    BY <2>1 DEF Belongs
  <2>5. \A o \in Requests : \A p \in PagesOf(requests'[o]) : Belongs(p)'
    BY <2>2, <2>3, <2>4 DEF Bound
  <2>6. Belongs(page)'
    BY <2>1 DEF Bound, Belongs
  <2> QED BY <2>5, <2>6 DEF Bound, PagesOf
<1>7. ASSUME NEW r \in Requests, Issue(r)
      PROVE  Bound'
  <2> DEFINE q == requests[r]
  <2>1. PICK t \in Tokens \ InUse :
           /\ sessions' = [s \in DOMAIN sessions \cup {t} |->
                              IF s = t THEN NewRow(q) ELSE sessions[s]]
           /\ Admit(r, t, q.user, t)
    BY <1>7 DEF Issue
  <2>0. PICK mine : mine = [user |-> q.user, token |-> t]
    OBVIOUS
  <2>2. /\ \A o \in Requests \ {r} : requests'[o] = requests[o]
        /\ requests'[r].stage \in {"admitted", "refused"}
        /\ requests'[r].shows \in {None, AsItWas, mine}
    BY <2>1, <2>0, AdmitShows
  <2>3. \A p \in PagesOf(requests'[r]) : Belongs(p)'
    <3>1. Belongs(mine)'
      BY <2>1, <2>0 DEF Belongs, NewRow
    <3>2. Belongs(None)' /\ Belongs(AsItWas)'
      BY PagesAreProper DEF Belongs
    <3>3. PagesOf(requests'[r]) \subseteq {None, AsItWas, mine}
      BY <2>2 DEF PagesOf
    <3> QED BY <3>1, <3>2, <3>3
  <2>4. ASSUME NEW p, Belongs(p), p \in Pages => p.token # t
        PROVE  Belongs(p)'
    BY <2>1, <2>4 DEF Belongs
  <2>5. /\ page \in Pages => page.token # t
        /\ \A o \in Requests : \A p \in PagesOf(requests[o]) : p \in Pages => p.token # t
    BY <2>1, FreshTokenOnNoPage
  <2>6. ASSUME NEW o \in Requests, NEW p \in PagesOf(requests'[o])
        PROVE  Belongs(p)'
    <3>1. CASE o = r
      BY <2>3, <2>6, <3>1
    <3>2. CASE o # r
      <4>1. p \in PagesOf(requests[o]) /\ Belongs(p)
        BY <2>2, <2>6, <3>2 DEF Bound
      <4> QED BY <2>4, <2>5, <4>1
    <3> QED BY <3>1, <3>2
  <2>7. Belongs(page)'
    <3>1. Belongs(page) /\ UNCHANGED page
      BY <1>7 DEF Bound, Issue
    <3> QED BY <2>1, <2>5, <3>1 DEF Belongs
  <2> QED BY <2>6, <2>7 DEF Bound, PagesOf
<1>8. ASSUME NEW r \in Requests, Revoke(r) \/ RefuseLogout(r)
      PROVE  Bound'
  <2>1. /\ UNCHANGED page
        /\ \/ UNCHANGED sessions
           \/ \E t : sessions' = Restrict(sessions, DOMAIN sessions \ {t})
        /\ \E stage \in {"left", "refused"} :
              Becomes(r, Answer(stage, None, None, NoLogins, None))
    BY <1>8 DEF Revoke, RefuseLogout
  <2>2. PICK stage \in {"left", "refused"} : Becomes(r, Answer(stage, None, None, NoLogins, None))
    BY <2>1
  <2>3. PagesOf(Answer(stage, None, None, NoLogins, None)) = {None}
    BY DEF Answer, PagesOf
  <2> QED BY <1>1, <2>1, <2>2, <2>3, PagesAreProper
<1>9. CASE \/ \E c \in Contests, u \in Users \cup {None} : CmsLogin(c, u)
           \/ OperatorLogin
           \/ \E roster \in SUBSET Users : Synchronise(roster)
           \/ \E t \in DOMAIN sessions : Expire(t)
           \/ UNCHANGED vars
  <2>1. /\ UNCHANGED <<page, requests>>
        /\ \/ UNCHANGED sessions
           \/ \E t : sessions' = Restrict(sessions, DOMAIN sessions \ {t})
    BY <1>9 DEF CmsLogin, OperatorLogin, Synchronise, Expire, vars
  <2>2. \A p : Belongs(p) => Belongs(p)'
    BY <2>1 DEF Belongs, Restrict
  <2>3. Belongs(page)'
    BY <2>1 DEF Bound, Belongs, Restrict
  <2> QED BY <2>1, <2>2, <2>3 DEF Bound, PagesOf
<1> QED BY <1>2, <1>3, <1>4, <1>5, <1>6, <1>7, <1>8, <1>9 DEF Next

(* Whatever the cookies became in the meantime, a request acts for the     *)
(* contestant CMS vouched for, and a form for the one its page greets.     *)
THEOREM ActsForWhomItShould == Spec => ActsForItsUser
<1> DEFINE Right(r) ==
              LET q == requests[r]
              IN q.stage = "sent" /\ requests'[r].stage = "admitted" =>
                    /\ requests'[r].user = q.user
                    /\ q.kind = "act" => q.from.user = q.user
           Proper == \A r \in Requests : Right(r)
<1>1. Init => Bound
  BY PagesAreProper DEF Init, Bound, Belongs, PagesOf, Idle
<1>2. TypeOK /\ Bound /\ [Next]_vars => Bound'
  BY BoundStep
<1>3. ASSUME TypeOK, Bound, NEW r \in Requests, Next,
             requests[r].stage = "sent", requests'[r].stage = "admitted"
      PROVE  UseSession(r) \/ Issue(r)
  <2>1. requests'[r] # requests[r]
    BY <1>3
  <2>2. ~UNCHANGED requests
    BY <2>1
  <2>3. PICK o \in Requests :
          \/ Send(o) \/ Arrive(o) \/ GetLost(o)
          \/ RefuseStranger(o) \/ UseSession(o) \/ Issue(o) \/ RefuseIssue(o)
          \/ Revoke(o) \/ RefuseLogout(o)
    BY <1>3, <2>2 DEF Next, CmsLogin, OperatorLogin, Synchronise, Expire
  <2>4. ASSUME NEW next, Becomes(o, next)
        PROVE  o = r /\ requests'[r] = next
    BY <2>1, <2>4 DEF Becomes, TypeOK
  <2>5. ~(Send(o) \/ Arrive(o) \/ GetLost(o) \/ Revoke(o) \/ RefuseLogout(o))
    <3>1. ASSUME Send(o) PROVE FALSE
      <4>1. PICK next : Becomes(o, next)
        BY <1>3, <3>1, SendForm
      <4> QED BY <1>3, <2>4, <3>1, <4>1 DEF Send, Idle
    <3>2. ASSUME Arrive(o) \/ GetLost(o) PROVE FALSE
      <4>1. Becomes(o, Idle) /\ requests[o].stage # "sent"
        BY <3>2 DEF Arrive, GetLost
      <4> QED BY <1>3, <2>4, <4>1
    <3>3. ASSUME Revoke(o) \/ RefuseLogout(o) PROVE FALSE
      <4>1. PICK next : Becomes(o, next) /\ requests[o].stage # "sent"
        BY <3>3 DEF Revoke, RefuseLogout
      <4> QED BY <1>3, <2>4, <4>1
    <3> QED BY <3>1, <3>2, <3>3
  <2>6. ~(RefuseStranger(o) \/ RefuseIssue(o))
    <3>1. Refusal(requests[o].kind, None, requests[o].relay).stage = "refused"
      BY DEF Refusal, Answer
    <3> QED BY <1>3, <2>4, <3>1 DEF RefuseStranger, RefuseIssue
  <2>7. o = r
    <3>1. UseSession(o) \/ Issue(o)
      BY <2>3, <2>5, <2>6
    <3>2. PICK t, user, new : Admit(o, t, user, new)
      BY <3>1 DEF UseSession, Issue
    <3>3. \A q \in Requests \ {o} : requests'[q] = requests[q]
      BY <1>3, <3>2, AdmitShows
    <3> QED BY <2>1, <3>3
  <2> QED BY <2>3, <2>5, <2>6, <2>7
<1>4. ASSUME TypeOK, Bound, NEW r \in Requests,
             requests[r].stage = "sent", requests'[r].stage = "admitted", UseSession(r)
      PROVE  Right(r)
  <2> DEFINE q == requests[r]
             t == q.cookie
  <2>1. /\ t \in DOMAIN sessions /\ sessions[t].user = q.user
        /\ Admit(r, t, sessions[t].user, None)
    BY <1>4 DEF UseSession, Companion
  <2>2. requests'[r].user = q.user /\ Genuine(q, t)
    BY <1>4, <2>1, AdmitShows
  <2>3. ASSUME q.kind = "act" PROVE q.from.user = q.user
    <3>1. q.from \in Pages /\ q.from.token = t
      BY <1>4, <2>2, <2>3 DEF Genuine, TypeOK, PostedFromPage
    <3>2. Belongs(q.from)
      BY <1>4 DEF Bound, PagesOf
    <3> QED BY <2>1, <3>1, <3>2 DEF Belongs
  <2> QED BY <2>2, <2>3
<1>5. ASSUME TypeOK, Bound, NEW r \in Requests,
             requests[r].stage = "sent", requests'[r].stage = "admitted", Issue(r)
      PROVE  Right(r)
  <2> DEFINE q == requests[r]
  <2>1. PICK t \in Tokens \ InUse : Admit(r, t, q.user, t)
    BY <1>5 DEF Issue
  <2>2. requests'[r].user = q.user /\ Genuine(q, t)
    BY <1>5, <2>1, AdmitShows
  <2>3. q.kind # "act"
    <3>1. q.kind = "act" => q.from \in Pages /\ q.from.token = t
      BY <1>5, <2>2 DEF Genuine, TypeOK, PostedFromPage
    <3> QED BY <1>5, <2>1, <3>1, FreshTokenOnNoPage
  <2> QED BY <2>2, <2>3
<1>6. TypeOK /\ Bound /\ [Next]_vars => [Proper]_vars
  <2> HIDE DEF Right
  <2>1. ASSUME TypeOK, Bound, Next, NEW r \in Requests PROVE Right(r)
    <3>1. CASE requests[r].stage = "sent" /\ requests'[r].stage = "admitted"
      BY <1>3, <1>4, <1>5, <2>1, <3>1
    <3>2. CASE ~(requests[r].stage = "sent" /\ requests'[r].stage = "admitted")
      BY <3>2 DEF Right
    <3> QED BY <3>1, <3>2
  <2> QED BY <2>1
<1> QED BY <1>1, <1>2, <1>6, AccessTypeCorrect, PTL DEF Spec, ActsForItsUser

=============================================================================
