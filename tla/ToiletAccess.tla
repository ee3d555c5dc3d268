---------------------------- MODULE ToiletAccess ----------------------------
(***************************************************************************)
(* What the queue promises, without the queue: who is in which toilets.    *)
(* A visit holds a set of toilets taken all at once and given back all at  *)
(* once, a toilet never has more visitors than room, and the only ways out *)
(* are to be returned or to have one of one's toilets closed.  Classes,    *)
(* routes, alerts, order and the reasons of the steps are not visible.     *)
(***************************************************************************)
EXTENDS Naturals, FiniteSets

CONSTANTS Visitors, ToiletIds, MaxCapacity

VARIABLES
    held,   \* the toilets each visitor occupies, {} for nobody's visit
    room    \* the places of each toilet, 0 while it does not exist

vars == <<held, room>>

Visiting(h, t) == {v \in Visitors : t \in h[v]}

Fits(h, rm) == \A t \in ToiletIds : Cardinality(Visiting(h, t)) <= rm[t]

(* From h, some visitors who hold nothing enter, each with its whole set.  *)
Enter(h) ==
    /\ held' \in [Visitors -> SUBSET ToiletIds]
    /\ \A v \in Visitors : h[v] # {} => held'[v] = h[v]
    /\ Fits(held', room')

Init ==
    /\ held = [v \in Visitors |-> {}]
    /\ room = [t \in ToiletIds |-> 0]

Admit ==
    /\ UNCHANGED room
    /\ Enter(held)

Return(v) ==
    /\ held[v] # {}
    /\ UNCHANGED room
    /\ Enter([held EXCEPT ![v] = {}])

Resize(t, n) ==
    /\ room' = [room EXCEPT ![t] = n]
    /\ Enter(held)

Close(t) ==
    /\ room' = [room EXCEPT ![t] = 0]
    /\ Enter([v \in Visitors |-> IF t \in held[v] THEN {} ELSE held[v]])

Next ==
    \/ Admit
    \/ \E v \in Visitors : Return(v)
    \/ \E t \in ToiletIds : Close(t) \/ \E n \in 1..MaxCapacity : Resize(t, n)

Spec == Init /\ [][Next]_vars

=============================================================================
