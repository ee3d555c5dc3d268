--------------------------- MODULE MCToiletQueue ---------------------------
(***************************************************************************)
(* Values of the constants of ToiletQueue for TLC: each cfg picks from     *)
(* these.                                                                  *)
(***************************************************************************)
EXTENDS ToiletQueue, TLC

CONSTANTS s1, s2, s3, c1, c2, t1, t2, t3, p1, p2

Requests2 == 1..2
Requests3 == 1..3

(* A clock that stands still orders the queue by id; one that can step     *)
(* back does not.                                                          *)
SteadyClock == {0}
SteppingClock == {0, 1}

NoCodes == {}
(* Alerts about the mapping, which changes of it open and close.           *)
ConfigurationCodes == {"class_without_toilet", "no_toilets"}

Known(C) == [failed |-> FALSE, classes |-> C, anomalies |-> {}]

(* What Olimp-control can answer of a student: a place, two places, a      *)
(* computer in no room, and an answer that names a room and is malformed.  *)
Mixed ==
    {Known({c1}), Known({c1, c2}),
     [failed |-> FALSE, classes |-> {}, anomalies |-> {"computer_without_class"}],
     [failed |-> TRUE, classes |-> {c2}, anomalies |-> {"assignment_malformed"}]}

OneRoom == {Known({c1}), Outage}
All == Mixed \cup OneRoom

(* p1 watches class c1 only, p2 the whole contest. *)
RoomAndAll == [p \in {p1, p2} |-> IF p = p1 THEN {c1} ELSE {}]
AllOnly == [p \in {p2} |-> {}]

(* The instances of run queue, for its CONSTRAINT: two requests with mixed  *)
(* answers; and three of one class, nobody resolving an alert by hand, with *)
(* a clock that steps or with toilets of two places.                       *)
OnePlace == \A t \in ToiletIds : capacity[t] <= 1
Steady == now = 0 /\ \A r \in RequestIds : Open(r) => {created[r], activated[r]} \subseteq {0, None}
Answered(S) == \A r \in RequestIds : Open(r) => assigned[r] \in S
TwoMixed == status[3] = "none" /\ Answered(Mixed)
ThreeOfOneRoom ==
    /\ Answered(OneRoom)
    /\ mapping[c1] # NoToilet /\ mapping[c2] = NoRow
    /\ \A r \in Waiting \cup Active :
          "class_without_toilet" \in alerts[r] <=>
              mode[r] = "fallback_all" /\ ~LookupFailed(assigned[r])
    /\ \A r \in Waiting : "no_toilets" \in alerts[r] <=> locks[r] = {}
Instances ==
    \/ TwoMixed /\ OnePlace /\ Steady
    \/ ThreeOfOneRoom /\ OnePlace
    \/ ThreeOfOneRoom /\ Steady /\ Answered({Known({c1})})

(* No operation reads the route, snapshot or owner of a closed request, so *)
(* two states that differ only there have the same future.                 *)
OpenRowsView ==
    <<configVars, spent, now, alerts,
      [r \in RequestIds |->
         IF Open(r) THEN <<status[r], owner[r], kind[r], assigned[r], created[r],
                           activated[r], mode[r], blocked[r], locks[r]>>
         ELSE <<status[r] = "none">>]>>

Symmetric == Permutations({t1, t2, t3}) \cup Permutations({s1, s2, s3})
=============================================================================
