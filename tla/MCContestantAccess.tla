------------------------ MODULE MCContestantAccess ------------------------
(* One browser of two contestants for TLC.                                 *)
EXTENDS ContestantAccess, TLC

CONSTANTS u, v, k1, k2, k3, r1, r2

Symmetric == Permutations(Users) \cup Permutations(Tokens) \cup Permutations(Requests)

(* A token whose row is gone is like none: no comparison with it succeeds. *)
(* A row whose token nobody has is like none too.                          *)
Alive(t) == IF t \in DOMAIN sessions THEN t ELSE None
AlivePage(p) == IF p \in {None, AsItWas} THEN p ELSE <<p.user, Alive(p.token)>>
AliveRequest(q) ==
    CASE q.stage = "idle" -> q
      [] q.stage \in {"sent", "leaving"} ->
            [q EXCEPT !.from = AlivePage(@), !.cookie = Alive(@)]
      [] OTHER ->
            [q EXCEPT !.new = IF @ = None THEN None ELSE <<Alive(@)>>, !.shows = AlivePage(@)]
LiveView ==
    <<enabled, logins, Alive(cookie), AlivePage(page), out,
      Restrict(sessions, DOMAIN sessions \cap InUse),
      [r \in Requests |-> AliveRequest(requests[r])]>>

(* The two instances of run access, for its CONSTRAINT: two requests at a  *)
(* time of a browser that knows contest 1 only, and one at a time of a     *)
(* browser with logins of both.                                            *)
Foreign(q) ==
    CASE q.stage = "sent" -> q.contest # 1 \/ q.relay[2] # None
      [] q.stage \in {"admitted", "refused", "left"} -> q.relay[2] # None
      [] OTHER -> FALSE
OneContest ==
    /\ logins[2] = None
    /\ \A t \in DOMAIN sessions \cap InUse : sessions[t].contest = 1
    /\ \A r \in Requests : ~Foreign(requests[r])
OneRequest == \E r \in Requests : requests[r] = Idle
Instances == OneContest \/ OneRequest

=============================================================================
