------------------------------ MODULE Roster ------------------------------
(***************************************************************************)
(* The contestant roster: _sync_students of src/main.py, which a start of  *)
(* the service and the administrators run, sync_students of src/service.py *)
(* and what both make of the list Olimp-control gives.                     *)
(*                                                                         *)
(* Olimp-control edits its list at any time.  A call asks for it, installs *)
(* the answer in one transaction and sets or clears a flag in memory,      *)
(* which src/auth.py reads to tell a contestant whom it does not find      *)
(* "unavailable" from "not in the roster".  The steps of one call are      *)
(* apart, since the call awaits between them; an asyncio lock, which is    *)
(* handed on in order of arrival, keeps the calls apart.                   *)
(***************************************************************************)
EXTENDS Naturals, Sequences, FiniteSets

CONSTANTS
    Callers,      \* handlers that may be running a synchronisation
    Startup,      \* the one among them that is the lifespan's
    Userids,      \* users.username
    Raw,          \* userids as Olimp-control spells them
    Strip,        \* Raw -> Userids, what str.strip makes of them
    Ids,          \* Olimp-control's student ids
    Lists,        \* the lists it may come to hold, sets of entries
    MaxEditions,  \* BOUND: versions of the list considered
    Errors,       \* ControlAPIError and its subclasses
    NoId,         \* a control_id that is NULL
    NoRow,        \* no users row
    NoError       \* student_sync_failure is None

Entries == [id : Ids, raw : Raw]

ASSUME RosterAssumption ==
    /\ Startup \in Callers
    /\ Strip \in [Raw -> Userids]
    /\ Lists \subseteq SUBSET Entries
    /\ MaxEditions \in Nat
    /\ NoId \notin Ids /\ NoRow \notin Ids /\ NoId # NoRow
    /\ NoError \notin Errors

VARIABLES
    editions,  \* the lists Olimp-control has held, in order; the last is current
    controlId, \* users: control_id by username
    enabled,   \* users: the enabled usernames
    process,   \* "down", "starting" or "up"
    line,      \* student_sync_lock: its holder, then those who wait for it
    step,      \* where each call is
    answer,    \* what Olimp-control answered it: an edition or an error
    failure,   \* app.state.student_sync_failure
    installed, \* HISTORY: the edition in users, 0 for what the file came with
    renewed    \* HISTORY: this process has installed one

rosterVars == <<controlId, enabled, installed>>
callVars == <<line, step, answer>>
vars == <<editions, rosterVars, process, callVars, failure, renewed>>

-----------------------------------------------------------------------------
(* Two entries alike: students() of src/control_client.py compares them as *)
(* they came, sync_students after stripping.                               *)
Malformed(list) == \E x, y \in list : x # y /\ (x.id = y.id \/ x.raw = y.raw)
Duplicate(list) ==
    \E x, y \in list : x # y /\ (x.id = y.id \/ Strip[x.raw] = Strip[y.raw])

Listed(list) == {Strip[x.raw] : x \in list}
IdOf(list, u) == CHOOSE i \in Ids : \E x \in list : x.id = i /\ Strip[x.raw] = u

(* "Olimp-control student id is assigned to another userid": the rows are  *)
(* compared as they were before the call, disabled ones included.          *)
Conflict(list) ==
    \E x \in list, u \in Userids : controlId[u] = x.id /\ u # Strip[x.raw]

Refused(list) == Duplicate(list) \/ Conflict(list)

-----------------------------------------------------------------------------
(* One call.                                                               *)

\* Mutant: no lock.
HoldsMut(c) == \E i \in DOMAIN line : line[i] = c
Holds(c) == line # <<>> /\ Head(line) = c

(* An administrator asks for one. *)
Enter(c) ==
    /\ process = "up"
    /\ c # Startup
    /\ step[c] = "idle"
    /\ line' = Append(line, c)
    /\ step' = [step EXCEPT ![c] = "waiting"]
    /\ UNCHANGED <<editions, rosterVars, process, answer, failure, renewed>>

(* Olimp-control reads its list at some moment of the call, or fails it;   *)
(* a list with an entry twice is a failure to the client.                  *)
Ask(c) ==
    /\ Holds(c)
    /\ step[c] = "waiting"
    /\ \E a \in {Len(editions)} \cup Errors :
          /\ a \notin Errors => ~Malformed(editions[a])
          /\ answer' = [answer EXCEPT ![c] = a]
          /\ step' = [step EXCEPT ![c] = IF a \in Errors THEN "failed" ELSE "answered"]
    /\ UNCHANGED <<editions, rosterVars, process, line, failure, renewed>>

(* The rows sync_students leaves enabled. *)
\* Mutant: those the list omits stay.
EnabledByMut(list) == enabled \cup Listed(list)
EnabledBy(list) == Listed(list)

Install(c) ==
    LET list == editions[answer[c]]
    IN /\ step[c] = "answered"
       /\ ~Refused(list)
       /\ controlId' = [u \in Userids |->
             IF u \in Listed(list) THEN IdOf(list, u) ELSE controlId[u]]
       /\ enabled' = EnabledBy(list)
       /\ installed' = answer[c]
       /\ renewed' = TRUE
       /\ step' = [step EXCEPT ![c] = "installed"]
       /\ UNCHANGED <<editions, process, line, answer, failure>>

(* The process serves once its startup call is over, unless that raised.   *)
ServesAfter(c, st) == IF c = Startup THEN st ELSE process

Return(c) ==
    /\ line' = Tail(line)
    /\ step' = [step EXCEPT ![c] = "idle"]
    /\ answer' = [answer EXCEPT ![c] = NoError]

Succeed(c) ==
    /\ step[c] = "installed"
    /\ failure' = NoError
    /\ process' = ServesAfter(c, "up")
    /\ Return(c)
    /\ UNCHANGED <<editions, rosterVars, renewed>>

(* The flag as the except clause leaves it. *)
\* Mutant: a failure does not set it.
NotedMut(error) == failure
Noted(error) == error

Fail(c) ==
    /\ step[c] = "failed"
    /\ failure' = Noted(answer[c])
    /\ process' = ServesAfter(c, "up")
    /\ Return(c)
    /\ UNCHANGED <<editions, rosterVars, renewed>>

(* A ServiceError is not caught: it ends a start, and it is an error page  *)
(* to an administrator.  The lock is released, the flag stays.             *)
\* Mutant: it is not released.
RefuseMut(c) ==
    /\ step[c] = "answered"
    /\ Refused(editions[answer[c]])
    /\ process' = ServesAfter(c, "down")
    /\ step' = [step EXCEPT ![c] = "idle"]
    /\ answer' = [answer EXCEPT ![c] = NoError]
    /\ UNCHANGED <<editions, rosterVars, line, failure, renewed>>
Refuse(c) ==
    /\ step[c] = "answered"
    /\ Refused(editions[answer[c]])
    /\ process' = ServesAfter(c, "down")
    /\ Return(c)
    /\ UNCHANGED <<editions, rosterVars, failure, renewed>>

-----------------------------------------------------------------------------
(* The process, and the list.                                              *)

Start ==
    /\ process = "down"
    /\ process' = "starting"
    /\ line' = <<Startup>>
    /\ step' = [c \in Callers |-> IF c = Startup THEN "waiting" ELSE "idle"]
    /\ answer' = [c \in Callers |-> NoError]
    /\ failure' = NoError
    /\ renewed' = FALSE
    /\ UNCHANGED <<editions, rosterVars>>

Crash ==
    /\ process # "down"
    /\ process' = "down"
    /\ line' = <<>>
    /\ step' = [c \in Callers |-> "idle"]
    /\ answer' = [c \in Callers |-> NoError]
    /\ UNCHANGED <<editions, rosterVars, failure, renewed>>

Edit ==
    /\ Len(editions) < MaxEditions
    /\ \E list \in Lists \ {editions[Len(editions)]} : editions' = Append(editions, list)
    /\ UNCHANGED <<rosterVars, process, callVars, failure, renewed>>

-----------------------------------------------------------------------------
(* A file of the prototype may hold contestants that have no control_id.   *)
Init ==
    /\ \E list \in Lists : editions = <<list>>
    /\ \E legacy \in SUBSET Userids :
          /\ controlId = [u \in Userids |-> IF u \in legacy THEN NoId ELSE NoRow]
          /\ enabled = legacy
    /\ process = "down"
    /\ line = <<>>
    /\ step = [c \in Callers |-> "idle"]
    /\ answer = [c \in Callers |-> NoError]
    /\ failure = NoError
    /\ installed = 0
    /\ renewed = FALSE

Proceed(c) == Ask(c) \/ Install(c) \/ Succeed(c) \/ Fail(c) \/ Refuse(c)

Next ==
    \/ \E c \in Callers :
          \/ Enter(c) \/ Ask(c) \/ Install(c)
          \/ Succeed(c) \/ Fail(c) \/ Refuse(c)
    \/ Start \/ Crash \/ Edit

(* A call that runs goes on: Olimp-control's answer is awaited for         *)
(* control_timeout_seconds at most.                                        *)
Spec == Init /\ [][Next]_vars
FairSpec == Spec /\ \A c \in Callers : WF_vars(Proceed(c))

-----------------------------------------------------------------------------
(* What is promised.                                                       *)

(* The domains, and the two UNIQUE constraints of the users table: no two  *)
(* rows have one control_id.                                               *)
TypeOK ==
    /\ editions \in Seq(Lists) /\ editions # <<>>
    /\ controlId \in [Userids -> Ids \cup {NoId, NoRow}]
    /\ \A u, v \in Userids : controlId[u] \in Ids /\ controlId[u] = controlId[v] => u = v
    /\ enabled \subseteq {u \in Userids : controlId[u] # NoRow}
    /\ process \in {"down", "starting", "up"}
    /\ line \in Seq(Callers)
    /\ step \in [Callers -> {"idle", "waiting", "answered", "failed", "installed"}]
    /\ answer \in [Callers -> Nat \cup Errors \cup {NoError}]
    /\ failure \in Errors \cup {NoError}
    /\ installed \in 0..Len(editions)
    /\ renewed \in BOOLEAN

(* The enabled contestants are those of one edition of the list, with its  *)
(* ids, through refusals, failures and the crash of a call: never a mix of *)
(* two and never somebody a later edition left out.                        *)
RosterIsOneEdition ==
    installed > 0 =>
        /\ enabled = Listed(editions[installed])
        /\ \A u \in enabled : controlId[u] = IdOf(editions[installed], u)

(* A contestant is told "not in the roster" only by a process that has     *)
(* read the list itself: one that serves and has not says "unavailable".   *)
FreshOrFlagged == process = "up" /\ failure = NoError => renewed

(* A later roster is never replaced by an earlier one, however long the    *)
(* answer of an earlier call took.                                         *)
NeverOlder == [][installed' >= installed]_vars

(* Every call ends, and so does the wait of those behind it in line.       *)
SyncsEnd == \A c \in Callers : step[c] # "idle" ~> step[c] = "idle"

=============================================================================
