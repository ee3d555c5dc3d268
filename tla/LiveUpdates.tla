---------------------------- MODULE LiveUpdates ----------------------------
(***************************************************************************)
(* How a page learns that the queue changed: the hub of src/ws.py, the     *)
(* WebSocket handlers and live_staff_state of src/main.py, and the page's  *)
(* own refresh (src/templates).                                            *)
(*                                                                         *)
(* A mutation commits in a worker thread.  Its handler then schedules one  *)
(* broadcast task, which reads the state anew for every socket and awaits  *)
(* each send, so tasks, handlers of new sockets and further commits        *)
(* interleave between a read and the send of what was read.  A page has    *)
(* one socket at a time; messages of a socket arrive in the order sent.    *)
(***************************************************************************)
EXTENDS Naturals, FiniteSetsExt

CONSTANTS
    Pages,       \* pages that are open
    StaffPages,  \* those of proctors, the others are contestants'
    Results,     \* whom the results of operations may name, sets of parties
    MaxVersion,  \* BOUND: changes considered
    MaxPolls     \* BOUND: fetches of one page on their way at a time

ASSUME LiveAssumption ==
    /\ StaffPages \subseteq Pages
    /\ \A parties \in Results : parties # {} /\ parties \subseteq {"students", "staff"}
    /\ MaxVersion \in Nat /\ MaxPolls \in Nat

Versions == 0..MaxVersion
Tasks == 1..MaxVersion
Nobody == [to |-> {}, state |-> 0]

VARIABLES
    version,  \* changes committed so far
    news,     \* the parties the result of a change names, until its handler has read it
    phase,    \* the handler and then the broadcast task of each change
    todo,     \* sockets the task's loop has yet to come to
    letter,   \* what it has read and is sending, if it is
    hub,      \* pages whose socket is registered
    socket,   \* "closed", "greeting" until the first send, "open"
    first,    \* the state a greeting read
    seen,     \* HISTORY: newest state the page's socket has carried
    polls,    \* the states that fetches of the page are bringing
    shown     \* the state the page shows

taskVars == <<phase, todo, letter>>
socketVars == <<hub, socket, first>>
pageVars == <<seen, shown>>
vars == <<version, news, taskVars, socketVars, pageVars, polls>>

-----------------------------------------------------------------------------
(* A change and its broadcast.                                             *)

(* "not result.student_user_ids and not result.staff_changed" *)
Announced(parties) == parties # {}

Commit(parties) ==
    /\ version < MaxVersion
    /\ version' = version + 1
    /\ news' = [news EXCEPT ![version + 1] = parties]
    /\ phase' = [phase EXCEPT ![version + 1] = "committed"]
    /\ UNCHANGED <<todo, letter, socketVars, pageVars, polls>>

Notify(n) ==
    /\ phase[n] = "committed"
    /\ phase' = [phase EXCEPT ![n] = IF Announced(news[n]) THEN "scheduled" ELSE "over"]
    /\ news' = [news EXCEPT ![n] = {}]
    /\ UNCHANGED <<version, todo, letter, socketVars, pageVars, polls>>

(* Each loop goes over a copy of its registry made when it begins. *)
Idle(n) == todo[n] = {} /\ letter[n] = Nobody

BeginStudents(n) ==
    /\ phase[n] = "scheduled"
    /\ phase' = [phase EXCEPT ![n] = "students"]
    /\ todo' = [todo EXCEPT ![n] = hub \ StaffPages]
    /\ UNCHANGED <<version, news, letter, socketVars, pageVars, polls>>

BeginStaff(n) ==
    /\ phase[n] = "students" /\ Idle(n)
    /\ phase' = [phase EXCEPT ![n] = "staff"]
    /\ todo' = [todo EXCEPT ![n] = hub \cap StaffPages]
    /\ UNCHANGED <<version, news, letter, socketVars, pageVars, polls>>

Finish(n) ==
    /\ phase[n] = "staff" /\ Idle(n)
    /\ phase' = [phase EXCEPT ![n] = "over"]
    /\ UNCHANGED <<version, news, todo, letter, socketVars, pageVars, polls>>

(* The state a socket is sent is read when its turn comes. *)
ReadState(n, p) ==
    /\ p \in todo[n] /\ letter[n] = Nobody
    /\ todo' = [todo EXCEPT ![n] = @ \ {p}]
    /\ letter' = [letter EXCEPT ![n] = [to |-> {p}, state |-> version]]
    /\ UNCHANGED <<version, news, phase, socketVars, pageVars, polls>>

(* remove_student and remove_staff. *)
Without(p) == hub \ {p}

Deliver(p, state) ==
    /\ shown' = [shown EXCEPT ![p] = state]
    /\ seen' = [seen EXCEPT ![p] = Max({@, state})]

Send(n, p) ==
    /\ letter[n].to = {p}
    /\ letter' = [letter EXCEPT ![n] = Nobody]
    /\ Deliver(p, letter[n].state)
    /\ UNCHANGED <<version, news, phase, todo, socketVars, polls>>

(* Reading or sending raised: the socket leaves the hub, but is not closed. *)
Drop(n, p) ==
    /\ letter[n].to = {p}
    /\ letter' = [letter EXCEPT ![n] = Nobody]
    /\ hub' = Without(p)
    /\ UNCHANGED <<version, news, phase, todo, socket, first, pageVars, polls>>

-----------------------------------------------------------------------------
(* A socket.                                                               *)

(* The point of its handler at which it is registered: before its first    *)
(* state is read, with no await between.                                   *)
\* Mutant: when that state has been sent.
RegisteredAtMut == "open"
RegisteredAt == "greeting"
Register(p, point) == IF point = RegisteredAt THEN hub \cup {p} ELSE hub

OpenSocket(p) ==
    /\ socket[p] = "closed"
    /\ socket' = [socket EXCEPT ![p] = "greeting"]
    /\ hub' = Register(p, "greeting")
    /\ first' = [first EXCEPT ![p] = version]
    /\ UNCHANGED <<version, news, taskVars, pageVars, polls>>

Greet(p) ==
    /\ socket[p] = "greeting"
    /\ socket' = [socket EXCEPT ![p] = "open"]
    /\ hub' = Register(p, "open")
    /\ first' = [first EXCEPT ![p] = 0]
    /\ Deliver(p, first[p])
    /\ UNCHANGED <<version, news, taskVars, polls>>

(* Its deadline, a disconnection, or a greeting that raised.  What a task   *)
(* still has for this socket reaches nobody: the page's next socket is     *)
(* another object.                                                         *)
CloseSocket(p) ==
    /\ socket[p] # "closed"
    /\ socket' = [socket EXCEPT ![p] = "closed"]
    /\ hub' = Without(p)
    /\ first' = [first EXCEPT ![p] = 0]
    /\ seen' = [seen EXCEPT ![p] = 0]
    /\ todo' = [n \in Tasks |-> todo[n] \ {p}]
    /\ letter' = [n \in Tasks |-> IF letter[n].to = {p} THEN Nobody ELSE letter[n]]
    /\ UNCHANGED <<version, news, phase, shown, polls>>

-----------------------------------------------------------------------------
(* The page also fetches its state every fifteen seconds.  Fetches may      *)
(* overtake each other and the socket's messages.                          *)
Poll(p) ==
    /\ Cardinality(polls[p]) < MaxPolls
    /\ polls' = [polls EXCEPT ![p] = @ \cup {version}]
    /\ UNCHANGED <<version, news, taskVars, socketVars, pageVars>>

\* Mutant: ignored while a socket is there.
RenderedMut(p, state) ==
    IF socket[p] = "open" THEN shown ELSE [shown EXCEPT ![p] = state]
Rendered(p, state) == [shown EXCEPT ![p] = state]
Arrive(p, state) ==
    /\ state \in polls[p]
    /\ polls' = [polls EXCEPT ![p] = @ \ {state}]
    /\ shown' = Rendered(p, state)
    /\ UNCHANGED <<version, news, taskVars, socketVars, seen>>

-----------------------------------------------------------------------------
Init ==
    /\ version = 0
    /\ news = [n \in Tasks |-> {}]
    /\ phase = [n \in Tasks |-> "none"]
    /\ todo = [n \in Tasks |-> {}]
    /\ letter = [n \in Tasks |-> Nobody]
    /\ hub = {}
    /\ socket = [p \in Pages |-> "closed"]
    /\ first = [p \in Pages |-> 0]
    /\ seen = [p \in Pages |-> 0]
    /\ polls = [p \in Pages |-> {}]
    /\ shown = [p \in Pages |-> 0]

Next ==
    \/ \E parties \in Results : Commit(parties)
    \/ \E n \in Tasks :
          \/ Notify(n) \/ BeginStudents(n) \/ BeginStaff(n) \/ Finish(n)
          \/ \E p \in Pages : ReadState(n, p) \/ Send(n, p) \/ Drop(n, p)
    \/ \E p \in Pages :
          \/ OpenSocket(p) \/ Greet(p) \/ CloseSocket(p) \/ Poll(p)
          \/ \E state \in Versions : Arrive(p, state)

Spec == Init /\ [][Next]_vars

(* The page's timer runs on, and what is on the network arrives. *)
FairSpec ==
    /\ Spec
    /\ \A p \in Pages :
          /\ WF_vars(Poll(p))
          /\ \A state \in Versions : WF_vars(Arrive(p, state))

-----------------------------------------------------------------------------
(* What is promised.                                                       *)

AtMostOne == {{}} \cup {{p} : p \in Pages}

(* Domains; and only a socket that is there is registered or written to.   *)
TypeOK ==
    /\ version \in Versions
    /\ news \in [Tasks -> Results \cup {{}}]
    /\ phase \in [Tasks -> {"none", "committed", "scheduled", "students", "staff", "over"}]
    /\ todo \in [Tasks -> SUBSET Pages]
    /\ letter \in [Tasks -> [to : AtMostOne, state : Versions]]
    /\ hub \subseteq {p \in Pages : socket[p] # "closed"}
    /\ \A n \in Tasks : todo[n] \cup letter[n].to \subseteq {p \in Pages : socket[p] # "closed"}
    /\ socket \in [Pages -> {"closed", "greeting", "open"}]
    /\ first \in [Pages -> Versions] /\ seen \in [Pages -> Versions]
    /\ polls \in [Pages -> SUBSET Versions] /\ shown \in [Pages -> Versions]

(* A socket that is registered has carried every change whose broadcast is *)
(* over, the ones committed while it was opened included: what a socket    *)
(* misses before its first state, that state contains.                     *)
NoUpdateMissed ==
    \A p \in hub : socket[p] = "open" =>
        \A n \in Tasks : phase[n] = "over" => seen[p] >= n

(* When changes stop, every page comes to show the last one and goes on    *)
(* showing it, whatever overtook what and although a socket that was       *)
(* dropped from the hub stays open and silent.                             *)
PagesConverge == <>[](\A p \in Pages : shown[p] = version)

=============================================================================
