--------------------------- MODULE CmsProbeProofs ---------------------------
(***************************************************************************)
(* Theorems about CmsProbe for any tasks, cookies, addresses, flights,     *)
(* limits and times.                                                       *)
(***************************************************************************)
EXTENDS CmsProbe, FiniteSetTheorems, WellFoundedInduction, TLAPS

(* The probe a task is at is one it has yet to make: contests have a least. *)
LEMMA LeastContest ==
    ASSUME NEW S \in SUBSET Cookies, S # {}
    PROVE  \E c \in S : \A d \in S : Contest[c] <= Contest[d]
<1> DEFINE ranks == {Contest[c] : c \in S}
<1>1. ranks \subseteq Nat /\ ranks # {}
  BY ProbeAssumption
<1> DEFINE below == {p \in Nat \X Nat : p[1] < p[2]}
<1>2. PICK n \in ranks : \A m \in ranks : ~(<<m, n>> \in below)
  <2>1. IsWellFoundedOn(below, Nat)
    BY NatLessThanWellFounded, Zenon DEF OpToRel
  <2> HIDE DEF ranks, below
  <2> QED BY <1>1, <2>1, WFMin
<1>3. ASSUME NEW m \in ranks
      PROVE  n <= m
  <2>1. m \in Nat /\ n \in Nat
    BY <1>1
  <2>2. ~(<<m, n>> \in below)
    BY <1>2
  <2>3. ~(m < n)
    BY <2>1, <2>2
  <2> QED BY <2>1, <2>3
<1>4. PICK c \in S : Contest[c] = n
  OBVIOUS
<1> QED BY <1>3, <1>4

LEMMA CurrentTodo ==
    ASSUME NEW t, todo[t] \in SUBSET Cookies, todo[t] # {}
    PROVE  Current(t) \in todo[t]
BY LeastContest DEF Current

LEMMA SameKey ==
    ASSUME NEW t, todo'[t] = todo[t], addr'[t] = addr[t]
    PROVE  Key(t)' = Key(t)
BY DEF Key, Current

-----------------------------------------------------------------------------
(* TypeOK in parts.                                                        *)

PcStates == {"idle", "probe", "waiting", "sent", "answered", "done"}

(* A task that is asking has something left to ask. *)
TaskTypes ==
    /\ pc \in [Tasks -> PcStates]
    /\ addr \in [Tasks -> Addresses]
    /\ todo \in [Tasks -> SUBSET Cookies]
    /\ got \in [Tasks -> SUBSET [cookie : Cookies, status : Statuses]]
    /\ joined \in [Tasks -> Flights \cup {None}]
    /\ sentAt \in [Tasks -> 0..MaxTime]
    /\ began \in [Tasks -> 0..MaxTime]
    /\ reply \in [Tasks -> Replies]
    /\ \A t \in Tasks : pc[t] \in {"probe", "waiting", "sent", "answered"} => todo[t] # {}
    /\ \A t \in Tasks : Flying(t) => joined[t] \in Flights

FlightTypes ==
    /\ flights \in [Keys -> Flights \cup {None}]
    /\ holder \in [Flights -> Tasks \cup {None}]

CacheTypes ==
    /\ DOMAIN cache \subseteq Keys
    /\ IsFiniteSet(DOMAIN cache) /\ Cardinality(DOMAIN cache) <= MaxEntries
    /\ \A k \in DOMAIN cache : cache[k] \in Entries

WindowTypes ==
    /\ DOMAIN windows \subseteq Addresses
    /\ Cardinality(DOMAIN windows) <= MaxEntries
    /\ \A a \in DOMAIN windows : windows[a] \in WindowStates

WorldTypes ==
    /\ clock \in 0..MaxTime
    /\ goneAt \in [Logins -> 0..(MaxTime + 1)]
    /\ sends \in [Addresses -> [0..MaxTime -> Nat]]
    /\ vouched \in [Logins -> Vouches \cup {None}]

Types == TaskTypes /\ FlightTypes /\ CacheTypes /\ WindowTypes /\ WorldTypes

LEMMA TypesTypeOK == Types => TypeOK
BY DEF Types, TypeOK, TaskTypes, FlightTypes, CacheTypes, WindowTypes, WorldTypes, PcStates

LEMMA DownReply == Down \in Replies
BY DEF Down, Replies

LEMMA KeyType ==
    ASSUME TaskTypes, NEW t \in Tasks, todo[t] # {}
    PROVE  /\ Current(t) \in todo[t] /\ Current(t) \in Cookies
           /\ Key(t) \in Keys /\ Key(t)[2] \in Addresses
BY CurrentTodo DEF TaskTypes, Key, Keys

(* What a step of t leaves alone. *)
Others(t) ==
    \A s \in Tasks : s # t =>
        pc'[s] = pc[s] /\ todo'[s] = todo[s] /\ addr'[s] = addr[s] /\ joined'[s] = joined[s]

LEMMA ReturnType ==
    ASSUME TaskTypes, NEW t \in Tasks, todo[t] # {}, NEW status \in Statuses,
           Return(t, status)
    PROVE  TaskTypes' /\ Others(t) /\ ~Flying(t)'
<1>1. Current(t) \in Cookies /\ Current(t) \in todo[t]
  BY KeyType
<1>2. [cookie |-> Current(t), status |-> status] \in [cookie : Cookies, status : Statuses]
  BY <1>1
<1>3. got' \in [Tasks -> SUBSET [cookie : Cookies, status : Statuses]]
  BY <1>2 DEF Return, TaskTypes
<1>4. /\ todo' \in [Tasks -> SUBSET Cookies]
      /\ pc' \in [Tasks -> PcStates]
      /\ joined' \in [Tasks -> Flights \cup {None}]
      /\ addr' = addr
  BY DEF Return, TaskTypes, PcStates
<1>5. sentAt' \in [Tasks -> 0..MaxTime] /\ reply' \in [Tasks -> Replies] /\ began' = began
  BY DownReply, ProbeAssumption DEF Return, TaskTypes
<1>6. Others(t)
  BY DEF Others, Return, TaskTypes
<1>7. pc'[t] \in {"done", "probe"} /\ (pc'[t] = "probe" => todo'[t] # {})
  BY <1>1 DEF Return, TaskTypes
<1>8. ASSUME NEW s \in Tasks
      PROVE  /\ pc'[s] \in {"probe", "waiting", "sent", "answered"} => todo'[s] # {}
             /\ Flying(s)' => joined'[s] \in Flights
  BY <1>6, <1>7 DEF Others, TaskTypes, Flying
<1> QED BY <1>3, <1>4, <1>5, <1>6, <1>7, <1>8 DEF TaskTypes, Flying

LEMMA ShrunkSize ==
    ASSUME NEW all, NEW last, NEW kept \in Shrunk(all, last)
    PROVE  kept \subseteq all /\ Cardinality(kept) <= MaxEntries
BY ProbeAssumption DEF Shrunk

LEMMA PutType ==
    ASSUME CacheTypes, clock \in 0..MaxTime, NEW k \in Keys, k[2] \in Addresses,
           NEW status \in Statuses, NEW refreshed \in Cookies \cup {None},
           CachePut(k, status, refreshed)
    PROVE  CacheTypes'
<1>1. CASE Ttl(status) = 0
  BY <1>1 DEF CachePut, CacheTypes
<1>2. CASE Ttl(status) # 0
  <2> DEFINE last == IF refreshed = None THEN k ELSE <<refreshed, k[2]>>
             live == {j \in DOMAIN cache : cache[j].expires > clock}
             entry == [status |-> status, expires |-> clock + Ttl(status)]
  <2>1. PICK kept \in Shrunk(live \cup {k, last}, last) :
            cache' = [j \in kept |-> IF j \in {k, last} THEN entry ELSE cache[j]]
    BY <1>2 DEF CachePut
  <2>2. last \in Keys
    BY DEF Keys
  <2>3. entry \in Entries
    BY ProbeAssumption DEF Entries, Ttl
  <2>4. IsFiniteSet(live \cup {k, last})
    <3>1. IsFiniteSet(live)
      BY FS_Subset DEF CacheTypes
    <3>2. IsFiniteSet((live \cup {k}) \cup {last})
      BY <3>1, FS_AddElement
    <3>3. live \cup {k, last} = (live \cup {k}) \cup {last}
      OBVIOUS
    <3> QED BY <3>2, <3>3
  <2>5. kept \subseteq live \cup {k, last} /\ Cardinality(kept) <= MaxEntries
    BY ShrunkSize
  <2>6. IsFiniteSet(kept)
    BY <2>4, <2>5, FS_Subset
  <2> HIDE DEF last, entry
  <2> QED BY <2>1, <2>2, <2>3, <2>5, <2>6 DEF CacheTypes
<1> QED BY <1>1, <1>2

LEMMA PoppedType ==
    ASSUME CacheTypes, NEW k, cache' = Popped(k)
    PROVE  CacheTypes'
<1>1. DOMAIN cache' = DOMAIN cache \ {k}
  BY DEF Popped
<1>2. IsFiniteSet(DOMAIN cache \ {k}) /\ Cardinality(DOMAIN cache \ {k}) <= Cardinality(DOMAIN cache)
  BY FS_Subset DEF CacheTypes
<1>3. Cardinality(DOMAIN cache \ {k}) \in Nat /\ Cardinality(DOMAIN cache) \in Nat
  BY <1>2, FS_CardinalityType DEF CacheTypes
<1>4. Cardinality(DOMAIN cache \ {k}) <= MaxEntries
  BY <1>2, <1>3, ProbeAssumption DEF CacheTypes
<1> QED BY <1>1, <1>2, <1>4 DEF CacheTypes, Popped

LEMMA AllowType ==
    ASSUME WindowTypes, clock \in 0..MaxTime, NEW a \in Addresses, AllowProbe(a)
    PROVE  WindowTypes'
<1>1. PICK kept \in Shrunk(DOMAIN windows \cup {a}, a) :
        windows' = [b \in kept |-> IF b = a THEN Counted(Window(a), Allowed(a))
                                   ELSE windows[b]]
  BY DEF AllowProbe
<1>2. kept \subseteq DOMAIN windows \cup {a} /\ Cardinality(kept) <= MaxEntries
  BY ShrunkSize
<1>3. Window(a) \in WindowStates
  BY ProbeAssumption DEF Window, WindowTypes, WindowStates
<1>4. Counted(Window(a), Allowed(a)) \in WindowStates
  BY <1>3, ProbeAssumption DEF Counted, Allowed, WindowStates
<1> QED BY <1>1, <1>2, <1>4 DEF WindowTypes

LEMMA LeaveType ==
    ASSUME FlightTypes, NEW t, Leave(t)
    PROVE  FlightTypes'
BY DEF FlightTypes, Leave

LEMMA ServedStatus ==
    ASSUME CacheTypes, NEW k, Servable(k)
    PROVE  cache[k].status \in Statuses
BY DEF CacheTypes, Servable, Entries
(* A task that flies on is where it was, whatever it waits for next. *)
LEMMA SuspendType ==
    ASSUME TaskTypes, NEW t \in Tasks, todo[t] # {},
           NEW where \in {"waiting", "sent", "answered"}, Suspend(t, where),
           joined' \in [Tasks -> Flights \cup {None}], joined'[t] \in Flights,
           \A s \in Tasks : s # t => joined'[s] = joined[s],
           sentAt' \in [Tasks -> 0..MaxTime], reply' \in [Tasks -> Replies]
    PROVE  TaskTypes' /\ Others(t) /\ Key(t)' = Key(t) /\ pc'[t] = where
<1>1. /\ pc' \in [Tasks -> PcStates] /\ addr' = addr /\ todo' = todo /\ got' = got
      /\ began' = began
      /\ pc'[t] = where /\ \A s \in Tasks : s # t => pc'[s] = pc[s]
  BY DEF Suspend, TaskTypes, PcStates
<1>2. Others(t) /\ Key(t)' = Key(t)
  BY <1>1, SameKey DEF Others
<1> QED BY <1>1, <1>2 DEF TaskTypes, Flying

LEMMA TypesStep ==
    ASSUME Types, Next
    PROVE  Types'
<1> USE ProbeAssumption DEF Types, taskVars, flightVars, storeVars, worldVars
<1>1. ASSUME NEW t \in Tasks, NEW jar \in Jars[t], NEW a \in Addresses, Authenticate(t, jar, a)
      PROVE  Types'
  <2>1. /\ pc' \in [Tasks -> PcStates] /\ addr' \in [Tasks -> Addresses]
        /\ todo' \in [Tasks -> SUBSET Cookies]
        /\ got' \in [Tasks -> SUBSET [cookie : Cookies, status : Statuses]]
    BY <1>1 DEF Authenticate, TaskTypes, PcStates
  <2>2. ASSUME NEW s \in Tasks
        PROVE  /\ pc'[s] \in {"probe", "waiting", "sent", "answered"} => todo'[s] # {}
               /\ Flying(s)' => joined'[s] \in Flights
    BY <1>1 DEF Authenticate, TaskTypes, Flying
  <2>3. UNCHANGED <<joined, sentAt, reply, flightVars, storeVars, worldVars>>
    BY <1>1 DEF Authenticate
  <2>4. began' \in [Tasks -> 0..MaxTime]
    BY <1>1 DEF Authenticate, TaskTypes, WorldTypes
  <2>5. TaskTypes'
    BY <2>1, <2>2, <2>3, <2>4 DEF TaskTypes, Flying
  <2> QED BY <2>3, <2>5 DEF FlightTypes, CacheTypes, WindowTypes, WorldTypes
<1>2. ASSUME NEW t \in Tasks, RefuseOversize(t) \/ ServeCached(t)
      PROVE  Types'
  <2>1. todo[t] # {}
    BY <1>2 DEF RefuseOversize, ServeCached, TaskTypes
  <2>2. PICK status \in Statuses : Return(t, status)
    BY <1>2, ServedStatus DEF RefuseOversize, ServeCached, Statuses
  <2>3. TaskTypes'
    BY <2>1, <2>2, ReturnType
  <2>4. UNCHANGED <<flightVars, storeVars, worldVars>>
    BY <1>2 DEF RefuseOversize, ServeCached
  <2> QED BY <2>3, <2>4 DEF FlightTypes, CacheTypes, WindowTypes, WorldTypes
<1>3. ASSUME NEW t \in Tasks, Join(t)
      PROVE  Types'
  <2>1. todo[t] # {}
    BY <1>3 DEF Join, TaskTypes
  <2>2. Key(t) \in Keys
    BY <2>1, KeyType
  <2>3. PICK f \in Flights : /\ flights' = [flights EXCEPT ![Key(t)] = f] \/ flights' = flights
                             /\ joined' = [joined EXCEPT ![t] = f]
    BY <1>3 DEF Join
  <2>4. FlightTypes'
    BY <1>3, <2>3 DEF Join, FlightTypes
  <2>5. /\ Suspend(t, "waiting") /\ cache' = Popped(Key(t))
        /\ UNCHANGED <<sentAt, reply, windows, worldVars>>
    BY <1>3 DEF Join
  <2>6. TaskTypes'
    BY <2>1, <2>3, <2>5, SuspendType DEF TaskTypes
  <2>7. CacheTypes'
    BY <2>5, PoppedType
  <2> QED BY <2>4, <2>5, <2>6, <2>7 DEF WindowTypes, WorldTypes
<1>4. ASSUME NEW t \in Tasks, ServeShared(t)
      PROVE  Types'
  <2>1. todo[t] # {}
    BY <1>4 DEF ServeShared, LockFree, TaskTypes
  <2>2. TaskTypes'
    BY <1>4, <2>1, ServedStatus, ReturnType DEF ServeShared
  <2>3. FlightTypes'
    BY <1>4, LeaveType DEF ServeShared
  <2>4. UNCHANGED <<storeVars, worldVars>>
    BY <1>4 DEF ServeShared
  <2> QED BY <2>2, <2>3, <2>4 DEF CacheTypes, WindowTypes, WorldTypes
<1>5. ASSUME NEW t \in Tasks, RefuseProbe(t)
      PROVE  Types'
  <2>1. todo[t] # {} /\ addr[t] \in Addresses
    BY <1>5 DEF RefuseProbe, LockFree, TaskTypes
  <2>2. TaskTypes'
    BY <1>5, <2>1, ReturnType DEF RefuseProbe, Statuses
  <2>3. FlightTypes'
    BY <1>5, LeaveType DEF RefuseProbe
  <2>4. WindowTypes'
    BY <1>5, <2>1, AllowType DEF RefuseProbe, WorldTypes
  <2>5. CacheTypes'
    BY <1>5, <2>1, KeyType, PutType DEF RefuseProbe, WorldTypes, Statuses
  <2>6. UNCHANGED worldVars
    BY <1>5 DEF RefuseProbe
  <2> QED BY <2>2, <2>3, <2>4, <2>5, <2>6 DEF WorldTypes
<1>6. ASSUME NEW t \in Tasks, Send(t)
      PROVE  Types'
  <2>1. /\ pc[t] = "waiting" /\ AllowProbe(addr[t]) /\ cache' = Popped(Key(t))
        /\ holder' = [holder EXCEPT ![joined[t]] = t]
        /\ sentAt' = [sentAt EXCEPT ![t] = clock]
        /\ sends' = [sends EXCEPT ![addr[t]][clock] = @ + 1]
        /\ Suspend(t, "sent")
        /\ UNCHANGED <<joined, reply, flights, clock, goneAt, vouched>>
    BY <1>6 DEF Send, LockFree
  <2>2. todo[t] # {} /\ addr[t] \in Addresses /\ joined[t] \in Flights
    BY <2>1 DEF TaskTypes, Flying
  <2>3. TaskTypes'
    <3>1. sentAt' \in [Tasks -> 0..MaxTime]
      BY <2>1 DEF TaskTypes, WorldTypes
    <3> QED BY <2>1, <2>2, <3>1, SuspendType DEF TaskTypes
  <2>4. FlightTypes'
    BY <2>1 DEF FlightTypes
  <2>5. WindowTypes' /\ CacheTypes'
    BY <2>1, <2>2, AllowType, PoppedType DEF WorldTypes
  <2>6. WorldTypes'
    <3>1. clock \in 0..MaxTime /\ sends[addr[t]] \in [0..MaxTime -> Nat]
      BY <2>2 DEF WorldTypes
    <3>2. [sends[addr[t]] EXCEPT ![clock] = @ + 1] \in [0..MaxTime -> Nat]
      BY <3>1
    <3>3. sends' = [sends EXCEPT ![addr[t]] = [sends[addr[t]] EXCEPT ![clock] = @ + 1]]
      BY <2>1
    <3>4. sends' \in [Addresses -> [0..MaxTime -> Nat]]
      BY <2>2, <3>2, <3>3 DEF WorldTypes
    <3> QED BY <2>1, <3>4 DEF WorldTypes
  <2> QED BY <2>3, <2>4, <2>5, <2>6
<1>7. ASSUME NEW t \in Tasks, Answer(t)
      PROVE  Types'
  <2>1. todo[t] # {} /\ joined[t] \in Flights /\ pc[t] = "sent"
    BY <1>7 DEF Answer, TaskTypes, Flying
  <2>2. Current(t) \in Cookies
    BY <2>1, KeyType
  <2>3. \A r \in Answers(Current(t)) : r \in Replies
    BY <2>2, DownReply DEF Answers, Replies
  <2>4. reply' \in [Tasks -> Replies]
    BY <1>7, <2>3 DEF Answer, TaskTypes
  <2>5. Suspend(t, "answered") /\ UNCHANGED <<joined, sentAt, flightVars, storeVars, worldVars>>
    BY <1>7 DEF Answer
  <2>6. TaskTypes'
    BY <2>1, <2>4, <2>5, SuspendType DEF TaskTypes
  <2> QED BY <2>5, <2>6 DEF FlightTypes, CacheTypes, WindowTypes, WorldTypes
<1>8. ASSUME NEW t \in Tasks, Receive(t)
      PROVE  Types'
  <2>1. todo[t] # {}
    BY <1>8 DEF Receive, TaskTypes
  <2>2. reply[t] \in Replies
    BY DEF TaskTypes
  <2>3. StatusOf(reply[t]) \in Statuses /\ reply[t].refreshed \in Cookies \cup {None}
    BY <2>2 DEF StatusOf, Replies, Statuses
  <2>4. TaskTypes'
    BY <1>8, <2>1, <2>3, ReturnType DEF Receive
  <2>5. FlightTypes'
    BY <1>8, LeaveType DEF Receive
  <2>6. CacheTypes'
    BY <1>8, <2>1, <2>3, KeyType, PutType DEF Receive, WorldTypes
  <2>7. UNCHANGED <<windows, clock, goneAt, sends>>
    BY <1>8 DEF Receive
  <2>8. vouched' \in [Logins -> Vouches \cup {None}]
    <3>1. [asked |-> sentAt[t], heard |-> clock] \in Vouches
      BY DEF TaskTypes, WorldTypes, Vouches
    <3> QED BY <1>8, <3>1 DEF Receive, WorldTypes
  <2> QED BY <2>4, <2>5, <2>6, <2>7, <2>8 DEF WindowTypes, WorldTypes
<1>9. ASSUME NEW t \in Tasks, Cancel(t) \/ Finish(t)
      PROVE  Types'
  <2>1. /\ pc' \in [Tasks -> PcStates] /\ addr' = addr
        /\ todo' \in [Tasks -> SUBSET Cookies]
        /\ got' \in [Tasks -> SUBSET [cookie : Cookies, status : Statuses]]
        /\ joined' \in [Tasks -> Flights \cup {None}]
        /\ sentAt' \in [Tasks -> 0..MaxTime] /\ reply' \in [Tasks -> Replies]
        /\ began' \in [Tasks -> 0..MaxTime]
    <3>1. CASE Cancel(t)
      <4>1. /\ pc' = [pc EXCEPT ![t] = "idle"] /\ todo' = [todo EXCEPT ![t] = {}]
            /\ got' = [got EXCEPT ![t] = {}] /\ joined' = [joined EXCEPT ![t] = None]
            /\ sentAt' = [sentAt EXCEPT ![t] = 0] /\ reply' = [reply EXCEPT ![t] = Down]
            /\ addr' = addr
        BY <3>1 DEF Cancel
      <4>2. pc' \in [Tasks -> PcStates] /\ todo' \in [Tasks -> SUBSET Cookies]
        BY <4>1 DEF TaskTypes, PcStates
      <4>3. got' \in [Tasks -> SUBSET [cookie : Cookies, status : Statuses]]
        BY <4>1 DEF TaskTypes
      <4>4. /\ joined' \in [Tasks -> Flights \cup {None}]
            /\ sentAt' \in [Tasks -> 0..MaxTime] /\ reply' \in [Tasks -> Replies]
            /\ began' \in [Tasks -> 0..MaxTime]
        BY <1>9, <3>1, <4>1, DownReply DEF TaskTypes, Cancel
      <4> QED BY <4>1, <4>2, <4>3, <4>4
    <3>2. CASE Finish(t)
      BY <3>2 DEF Finish, TaskTypes, PcStates
    <3> QED BY <1>9, <3>1, <3>2
  <2>2. /\ pc'[t] = "idle"
        /\ \A s \in Tasks : s # t => pc'[s] = pc[s] /\ todo'[s] = todo[s] /\ joined'[s] = joined[s]
    BY <1>9 DEF Cancel, Finish, TaskTypes
  <2>3. TaskTypes'
    BY <2>1, <2>2 DEF TaskTypes, Flying
  <2>4. FlightTypes'
    BY <1>9, LeaveType DEF Cancel, Finish, FlightTypes
  <2>5. UNCHANGED <<storeVars, worldVars>>
    BY <1>9 DEF Cancel, Finish
  <2> QED BY <2>3, <2>4, <2>5 DEF CacheTypes, WindowTypes, WorldTypes
<1>10. CASE Tick \/ \E l \in Logins : Revoke(l)
  <2>1. WorldTypes'
    <3>1. CASE Tick
      BY <3>1 DEF Tick, WorldTypes
    <3>2. CASE \E l \in Logins : Revoke(l)
      BY <3>2 DEF Revoke, WorldTypes
    <3> QED BY <1>10, <3>1, <3>2
  <2>2. UNCHANGED <<taskVars, flightVars, storeVars>>
    BY <1>10 DEF Tick, Revoke
  <2> QED BY <2>1, <2>2 DEF TaskTypes, FlightTypes, CacheTypes, WindowTypes, Flying
<1> QED BY <1>1, <1>2, <1>3, <1>4, <1>5, <1>6, <1>7, <1>8, <1>9, <1>10
        DEF Next, Advance, Enter, Acquire

LEMMA TypesHold == Spec => []Types
<1>1. Init => Types
  <2> SUFFICES ASSUME Init PROVE Types
    OBVIOUS
  <2>1. TaskTypes
    BY DownReply, ProbeAssumption DEF Init, TaskTypes, PcStates, Flying
  <2>2. FlightTypes
    BY DEF Init, FlightTypes
  <2>3. CacheTypes /\ WindowTypes
    <3>1. DOMAIN cache = {} /\ DOMAIN windows = {}
      BY DEF Init
    <3> QED BY <3>1, FS_EmptySet, ProbeAssumption DEF CacheTypes, WindowTypes
  <2>4. WorldTypes
    BY ProbeAssumption DEF Init, WorldTypes
  <2> QED BY <2>1, <2>2, <2>3, <2>4 DEF Types
<1>2. Types /\ [Next]_vars => Types'
  <2>1. ASSUME Types, UNCHANGED vars
        PROVE  Types'
    BY <2>1 DEF vars, taskVars, flightVars, storeVars, worldVars, Types, TaskTypes,
       FlightTypes, CacheTypes, WindowTypes, WorldTypes, Flying
  <2> QED BY <2>1, TypesStep
<1> QED BY <1>1, <1>2, PTL DEF Spec

(* Every reachable state is well typed: the cache and the window table stay *)
(* within their size and a window never counts past the limit.             *)
THEOREM ProbeTypeCorrect == Spec => []TypeOK
BY TypesHold, TypesTypeOK, PTL
-----------------------------------------------------------------------------
(* Flights.                                                                *)

(* No flight is under two keys, and whoever probes holds its lock. *)
FlightsApart ==
    \A k, l \in Keys : flights[k] = flights[l] /\ flights[k] # None => k = l

Inside == \A t \in Tasks : Probing(t) => holder[joined[t]] = t

FlightInv == FlightsApart /\ FlightsInUse /\ Inside

(* Neither the users of a flight nor their keys change with a task that     *)
(* stays out of flights.                                                   *)
LEMMA OthersFly ==
    ASSUME NEW t \in Tasks, Others(t), NEW s \in Tasks, s # t
    PROVE  /\ Flying(s)' = Flying(s) /\ Probing(s)' = Probing(s)
           /\ Key(s)' = Key(s) /\ joined'[s] = joined[s]
<1>1. pc'[s] = pc[s] /\ todo'[s] = todo[s] /\ addr'[s] = addr[s] /\ joined'[s] = joined[s]
  BY DEF Others
<1> QED BY <1>1, SameKey DEF Flying, Probing

LEMMA NotFlying ==
    ASSUME FlightInv, NEW t \in Tasks, ~Flying(t), Others(t), ~Flying(t)',
           UNCHANGED flightVars
    PROVE  FlightInv'
<1>1. FlightsApart'
  BY DEF FlightInv, FlightsApart, flightVars
<1>2. ASSUME NEW k \in Keys, flights'[k] # None
      PROVE  UsersOf(flights[k])' # {}
  <2>1. PICK s \in Tasks : Flying(s) /\ joined[s] = flights[k]
    BY <1>2 DEF FlightInv, FlightsInUse, UsersOf, flightVars
  <2>2. s # t
    BY <2>1
  <2>3. Flying(s)' /\ joined'[s] = flights'[k]
    BY <2>1, <2>2, OthersFly DEF flightVars
  <2> QED BY <2>3 DEF UsersOf
<1>3. ASSUME NEW s \in Tasks, Flying(s)'
      PROVE  (flights[Key(s)] = joined[s])'
  <2>1. s # t
    BY <1>3
  <2>2. Flying(s) /\ Key(s)' = Key(s) /\ joined'[s] = joined[s]
    BY <1>3, <2>1, OthersFly
  <2>3. flights[Key(s)] = joined[s]
    BY <2>2 DEF FlightInv, FlightsInUse
  <2>4. flights' = flights
    BY DEF flightVars
  <2> QED BY <2>2, <2>3, <2>4
<1>4. ASSUME NEW s \in Tasks, Probing(s)'
      PROVE  holder'[joined'[s]] = s
  <2>1. s # t
    BY <1>4 DEF Probing, Flying
  <2>2. Probing(s) /\ joined'[s] = joined[s]
    BY <1>4, <2>1, OthersFly
  <2> QED BY <2>2 DEF FlightInv, Inside, flightVars
<1> QED BY <1>1, <1>2, <1>3, <1>4 DEF FlightInv, FlightsInUse, Inside

(* Completion, refusal and cancellation alike. *)
LEMMA LeaveStep ==
    ASSUME TaskTypes, FlightTypes, FlightInv, NEW t \in Tasks, Flying(t), Leave(t),
           Others(t), ~Flying(t)'
    PROVE  FlightInv'
<1> USE ProbeAssumption
<1> DEFINE K == Key(t)
           f == joined[t]
<1>1. K \in Keys /\ f \in Flights /\ flights[K] = f /\ f # None
  <2>1. todo[t] # {}
    BY DEF TaskTypes, Flying
  <2>2. joined[t] \in Flights
    BY DEF TaskTypes
  <2> QED BY <2>1, <2>2, KeyType DEF FlightInv, FlightsInUse
<1>2. /\ holder' = [holder EXCEPT ![f] = IF @ = t THEN None ELSE @]
      /\ flights' = [flights EXCEPT ![K] = IF UsersOf(f) = {t} /\ @ = f THEN None ELSE @]
  BY DEF Leave
<1> HIDE DEF K
<1>3. \A k \in Keys : flights'[k] = flights[k] \/ flights'[k] = None
  BY <1>2 DEF FlightTypes
<1>4. FlightsApart'
  BY <1>3 DEF FlightInv, FlightsApart
<1>5. ASSUME NEW k \in Keys, flights'[k] # None
      PROVE  UsersOf(flights[k])' # {}
  <2>1. flights'[k] = flights[k] /\ flights[k] # None
    BY <1>3, <1>5
  <2>2. PICK s \in Tasks : Flying(s) /\ joined[s] = flights[k] /\ s # t
    <3>1. CASE k = K
      <4>1. UsersOf(f) # {t}
        BY <1>1, <1>2, <1>5, <3>1 DEF FlightTypes
      <4>2. t \in UsersOf(f)
        BY DEF UsersOf
      <4>3. PICK s \in UsersOf(f) : s # t
        BY <4>1, <4>2
      <4> QED BY <1>1, <3>1, <4>3 DEF UsersOf
    <3>2. CASE k # K
      <4>1. PICK s \in Tasks : Flying(s) /\ joined[s] = flights[k]
        BY <2>1 DEF FlightInv, FlightsInUse, UsersOf
      <4>2. flights[k] # f
        BY <1>1, <2>1, <3>2 DEF FlightInv, FlightsApart
      <4> QED BY <4>1, <4>2
    <3> QED BY <3>1, <3>2
  <2>3. Flying(s)' /\ joined'[s] = flights'[k]
    BY <2>1, <2>2, OthersFly
  <2> QED BY <2>3 DEF UsersOf
<1>6. ASSUME NEW s \in Tasks, Flying(s)'
      PROVE  (flights[Key(s)] = joined[s])'
  <2>1. s # t
    BY <1>6
  <2>2. Flying(s) /\ Key(s)' = Key(s) /\ joined'[s] = joined[s]
    BY <1>6, <2>1, OthersFly
  <2>3. flights[Key(s)] = joined[s]
    BY <2>2 DEF FlightInv, FlightsInUse
  <2>4. Key(s) \in Keys
    BY <2>2, KeyType DEF TaskTypes, Flying
  <2>5. flights'[Key(s)] = flights[Key(s)]
    <3>1. CASE Key(s) # K
      BY <1>2, <2>4, <3>1 DEF FlightTypes
    <3>2. CASE Key(s) = K
      <4>1. s \in UsersOf(f)
        BY <1>1, <2>2, <2>3, <3>2 DEF UsersOf
      <4>2. UsersOf(f) # {t}
        BY <2>1, <4>1
      <4> QED BY <1>1, <1>2, <3>2, <4>2 DEF FlightTypes
    <3> QED BY <3>1, <3>2
  <2> QED BY <2>2, <2>3, <2>5
<1>7. ASSUME NEW s \in Tasks, Probing(s)'
      PROVE  holder'[joined'[s]] = s
  <2>1. s # t
    BY <1>7 DEF Probing, Flying
  <2>2. Probing(s) /\ joined'[s] = joined[s]
    BY <1>7, <2>1, OthersFly
  <2>3. holder[joined[s]] = s /\ joined[s] \in Flights
    BY <2>2 DEF FlightInv, Inside, TaskTypes, Flying, Probing
  <2> QED BY <1>2, <2>1, <2>2, <2>3 DEF FlightTypes
<1> QED BY <1>4, <1>5, <1>6, <1>7 DEF FlightInv, FlightsInUse, Inside

LEMMA JoinStep ==
    ASSUME TaskTypes, FlightTypes, FlightInv, NEW t \in Tasks, Join(t)
    PROVE  FlightInv'
<1> USE ProbeAssumption
<1> DEFINE K == Key(t)
<1>1. pc[t] = "probe" /\ todo[t] # {} /\ K \in Keys
  BY KeyType DEF Join, TaskTypes
<1>2. PICK f \in Flights :
        /\ \/ flights[K] = None /\ UnusedFlight(f) /\ flights' = [flights EXCEPT ![K] = f]
           \/ flights[K] # None /\ f = flights[K] /\ flights' = flights
        /\ joined' = [joined EXCEPT ![t] = f]
  BY DEF Join, NewFlight
<1>3. Suspend(t, "waiting") /\ UNCHANGED <<sentAt, reply, holder>>
  BY DEF Join
<1>4. joined' \in [Tasks -> Flights \cup {None}] /\ joined'[t] = f
      /\ \A s \in Tasks : s # t => joined'[s] = joined[s]
  BY <1>2 DEF TaskTypes
<1>5. Others(t) /\ Key(t)' = K /\ pc'[t] = "waiting"
  <2>1. sentAt' \in [Tasks -> 0..MaxTime] /\ reply' \in [Tasks -> Replies]
    BY <1>3 DEF TaskTypes
  <2> QED BY <1>1, <1>3, <1>4, <2>1, SuspendType
<1> HIDE DEF K
<1>6. flights'[K] = f /\ \A k \in Keys : k # K => flights'[k] = flights[k] /\ flights[k] # f
  <2>1. CASE flights[K] = None
    BY <1>1, <1>2, <2>1 DEF FlightTypes, UnusedFlight
  <2>2. CASE flights[K] # None
    BY <1>1, <1>2, <2>2 DEF FlightInv, FlightsApart
  <2> QED BY <2>1, <2>2
<1>7. FlightsApart'
  BY <1>6 DEF FlightInv, FlightsApart
<1>8. Flying(t)' /\ ~Probing(t)' /\ ~Flying(t)
  BY <1>1, <1>5 DEF Flying, Probing
<1>9. ASSUME NEW k \in Keys, flights'[k] # None
      PROVE  UsersOf(flights[k])' # {}
  <2>1. CASE k = K
    BY <1>4, <1>6, <1>8, <2>1 DEF UsersOf
  <2>2. CASE k # K
    <3>1. PICK s \in Tasks : Flying(s) /\ joined[s] = flights[k]
      BY <1>6, <1>9, <2>2 DEF FlightInv, FlightsInUse, UsersOf
    <3>2. Flying(s)' /\ joined'[s] = flights'[k]
      BY <1>5, <1>6, <1>8, <2>2, <3>1, OthersFly
    <3> QED BY <3>2 DEF UsersOf
  <2> QED BY <2>1, <2>2
<1>10. ASSUME NEW s \in Tasks, Flying(s)'
       PROVE  (flights[Key(s)] = joined[s])'
  <2>1. CASE s = t
    <3>1. flights'[Key(t)'] = joined'[t]
      BY <1>4, <1>5, <1>6
    <3> QED BY <2>1, <3>1
  <2>2. CASE s # t
    <3>1. Flying(s) /\ Key(s)' = Key(s) /\ joined'[s] = joined[s]
      BY <1>5, <1>10, <2>2, OthersFly
    <3>2. flights[Key(s)] = joined[s] /\ joined[s] \in Flights
      BY <3>1 DEF FlightInv, FlightsInUse, TaskTypes
    <3>3. Key(s) \in Keys
      BY <3>1, KeyType DEF TaskTypes, Flying
    <3>4. flights'[Key(s)] = flights[Key(s)]
      BY <1>2, <1>6, <3>2, <3>3
    <3> QED BY <3>1, <3>2, <3>4
  <2> QED BY <2>1, <2>2
<1>11. ASSUME NEW s \in Tasks, Probing(s)'
       PROVE  holder'[joined'[s]] = s
  <2>1. s # t
    BY <1>8, <1>11
  <2>2. Probing(s) /\ joined'[s] = joined[s]
    BY <1>5, <1>11, <2>1, OthersFly
  <2> QED BY <1>3, <2>2 DEF FlightInv, Inside
<1> QED BY <1>7, <1>9, <1>10, <1>11 DEF FlightInv, FlightsInUse, Inside

(* Send and Answer: t goes on inside its flight. *)
LEMMA InsideStep ==
    ASSUME FlightInv, FlightTypes, NEW t \in Tasks, Flying(t), Flying(t)', Others(t),
           Key(t)' = Key(t), joined' = joined, flights' = flights,
           joined[t] \in Flights, holder'[joined[t]] = t,
           holder[joined[t]] \in {None, t},
           \A g \in Flights : g # joined[t] => holder'[g] = holder[g],
           \A s \in Tasks : Flying(s) => joined[s] \in Flights
    PROVE  FlightInv'
<1> USE ProbeAssumption
<1>1. ASSUME NEW s \in Tasks
      PROVE  (Flying(s)' <=> Flying(s)) /\ Key(s)' = Key(s)
  <2>1. CASE s = t
    BY <2>1
  <2>2. CASE s # t
    BY <2>2, OthersFly
  <2> QED BY <2>1, <2>2
<1>2. FlightsApart'
  BY DEF FlightInv, FlightsApart
<1>3. FlightsInUse'
  <2>1. \A g : UsersOf(g)' = UsersOf(g)
    BY <1>1 DEF UsersOf
  <2>2. ASSUME NEW s \in Tasks, Flying(s)'
        PROVE  (flights[Key(s)] = joined[s])'
    <3>1. flights[Key(s)] = joined[s] /\ Key(s)' = Key(s)
      BY <1>1, <2>2 DEF FlightInv, FlightsInUse
    <3> QED BY <3>1
  <2>3. ASSUME NEW k \in Keys, flights'[k] # None
        PROVE  UsersOf(flights[k])' # {}
    BY <1>1, <2>3 DEF FlightInv, FlightsInUse, UsersOf
  <2> QED BY <2>2, <2>3 DEF FlightsInUse
<1>4. ASSUME NEW s \in Tasks, Probing(s)'
      PROVE  holder'[joined'[s]] = s
  <2>1. CASE s = t
    BY <2>1
  <2>2. CASE s # t
    <3>1. Probing(s)
      BY <1>4, <2>2, OthersFly
    <3>2. holder[joined[s]] = s /\ joined[s] \in Flights
      BY <3>1 DEF FlightInv, Inside, Probing, Flying
    <3>3. joined[s] # joined[t]
      BY <2>2, <3>2
    <3> QED BY <3>2, <3>3
  <2> QED BY <2>1, <2>2
<1> QED BY <1>2, <1>3, <1>4 DEF FlightInv, Inside

LEMMA FlightStep ==
    ASSUME Types, FlightInv, Next
    PROVE  FlightInv'
<1> USE ProbeAssumption DEF Types
<1>1. ASSUME NEW t \in Tasks, NEW jar \in Jars[t], NEW a \in Addresses, Authenticate(t, jar, a)
      PROVE  FlightInv'
  BY <1>1, NotFlying DEF Authenticate, Others, TaskTypes, Flying, flightVars
<1>2. ASSUME NEW t \in Tasks, RefuseOversize(t) \/ ServeCached(t)
      PROVE  FlightInv'
  <2>1. todo[t] # {} /\ ~Flying(t) /\ UNCHANGED flightVars
    BY <1>2 DEF RefuseOversize, ServeCached, TaskTypes, Flying
  <2>2. PICK status \in Statuses : Return(t, status)
    BY <1>2, ServedStatus DEF RefuseOversize, ServeCached, Statuses
  <2>3. Others(t) /\ ~Flying(t)'
    BY <2>1, <2>2, ReturnType
  <2> QED BY <2>1, <2>3, NotFlying
<1>3. ASSUME NEW t \in Tasks, Join(t)
      PROVE  FlightInv'
  BY <1>3, JoinStep
<1>4. ASSUME NEW t \in Tasks, ServeShared(t) \/ RefuseProbe(t) \/ Receive(t)
      PROVE  FlightInv'
  <2>1. todo[t] # {} /\ Flying(t) /\ Leave(t)
    BY <1>4 DEF ServeShared, RefuseProbe, Receive, LockFree, TaskTypes, Flying
  <2>2. reply[t].kind \in {"yes", "no", "down"}
    BY DEF TaskTypes, Replies
  <2>3. PICK status \in Statuses : Return(t, status)
    BY <1>4, <2>2, ServedStatus DEF ServeShared, RefuseProbe, Receive, Statuses, StatusOf
  <2>4. Others(t) /\ ~Flying(t)'
    BY <2>1, <2>3, ReturnType
  <2> QED BY <2>1, <2>4, LeaveStep
<1>5. ASSUME NEW t \in Tasks, Send(t)
      PROVE  FlightInv'
  <2>1. /\ pc[t] = "waiting" /\ holder[joined[t]] = None
        /\ holder' = [holder EXCEPT ![joined[t]] = t]
        /\ sentAt' = [sentAt EXCEPT ![t] = clock]
        /\ Suspend(t, "sent")
        /\ UNCHANGED <<joined, reply, flights>>
    BY <1>5 DEF Send, LockFree
  <2>2. todo[t] # {} /\ joined[t] \in Flights
    BY <2>1 DEF TaskTypes, Flying
  <2>3. sentAt' \in [Tasks -> 0..MaxTime]
    BY <2>1 DEF TaskTypes, WorldTypes
  <2>4. Others(t) /\ Key(t)' = Key(t) /\ pc'[t] = "sent"
    BY <2>1, <2>2, <2>3, SuspendType DEF TaskTypes
  <2>5. Flying(t) /\ Flying(t)'
    BY <2>1, <2>4 DEF Flying
  <2> QED BY <2>1, <2>2, <2>4, <2>5, InsideStep DEF FlightTypes, TaskTypes
<1>6. ASSUME NEW t \in Tasks, Answer(t)
      PROVE  FlightInv'
  <2>1. pc[t] = "sent" /\ Suspend(t, "answered") /\ UNCHANGED <<joined, sentAt, flightVars>>
    BY <1>6 DEF Answer
  <2>2. todo[t] # {} /\ joined[t] \in Flights /\ holder[joined[t]] = t
    BY <2>1 DEF TaskTypes, Flying, FlightInv, Inside, Probing
  <2>3. reply' \in [Tasks -> Replies]
    BY <1>6, TypesStep DEF TaskTypes
  <2>4. Others(t) /\ Key(t)' = Key(t) /\ pc'[t] = "answered"
    BY <2>1, <2>2, <2>3, SuspendType DEF TaskTypes
  <2>5. Flying(t) /\ Flying(t)'
    BY <2>1, <2>4 DEF Flying
  <2> QED BY <2>1, <2>2, <2>4, <2>5, InsideStep DEF FlightTypes, TaskTypes, flightVars
<1>7. ASSUME NEW t \in Tasks, Cancel(t)
      PROVE  FlightInv'
  <2>1. Others(t) /\ pc'[t] = "idle"
    BY <1>7 DEF Cancel, Others, TaskTypes
  <2>2. ~Flying(t)'
    BY <2>1 DEF Flying
  <2> QED BY <1>7, <2>1, <2>2, LeaveStep DEF Cancel
<1>8. ASSUME NEW t \in Tasks, Finish(t)
      PROVE  FlightInv'
  BY <1>8, NotFlying DEF Finish, Others, TaskTypes, Flying
<1>9. CASE Tick \/ \E l \in Logins : Revoke(l)
  <2>1. UNCHANGED <<taskVars, flightVars>>
    BY <1>9 DEF Tick, Revoke
  <2>2. \A t : Flying(t)' = Flying(t) /\ Probing(t)' = Probing(t) /\ Key(t)' = Key(t)
    BY <2>1, SameKey DEF taskVars, Flying, Probing
  <2>3. \A f : UsersOf(f)' = UsersOf(f)
    BY <2>1, <2>2 DEF taskVars, UsersOf
  <2> QED BY <2>1, <2>2, <2>3 DEF taskVars, flightVars, FlightInv, FlightsApart,
             FlightsInUse, Inside
<1> QED BY <1>1, <1>2, <1>3, <1>4, <1>5, <1>6, <1>7, <1>8, <1>9
        DEF Next, Advance, Enter, Acquire

LEMMA FlightsHold == Spec => []FlightInv
<1>1. Init => FlightInv
  BY DEF Init, FlightInv, FlightsApart, FlightsInUse, Inside, Flying, Probing
<1>2. Types /\ FlightInv /\ [Next]_vars => FlightInv'
  <2>1. ASSUME FlightInv, UNCHANGED vars
        PROVE  FlightInv'
    BY <2>1 DEF vars, taskVars, flightVars, FlightInv, FlightsApart, FlightsInUse, Inside,
       UsersOf, Flying, Probing, Key, Current
  <2> QED BY <2>1, FlightStep
<1> QED BY <1>1, <1>2, TypesHold, PTL DEF Spec

(* However requests arrive, wait, fail and are cancelled, no two of them    *)
(* ask CMS about one cookie from one address at the same time.             *)
THEOREM OneProbeAtATime == Spec => []SingleFlight
<1>1. FlightInv => SingleFlight
  <2> SUFFICES ASSUME FlightInv, NEW s \in Tasks, NEW t \in Tasks, Probing(s), Probing(t),
                      Key(s) = Key(t)
               PROVE  s = t
    BY DEF SingleFlight
  <2>1. joined[s] = joined[t]
    BY DEF FlightInv, FlightsInUse, Flying, Probing
  <2> QED BY <2>1 DEF FlightInv, Inside
<1> QED BY <1>1, FlightsHold, PTL

(* A flight is in the table exactly while somebody uses it: none leaks, and *)
(* nobody waits on one that newcomers cannot find.                         *)
THEOREM FlightsAreInUse == Spec => []FlightsInUse
<1>1. FlightInv => FlightsInUse
  BY DEF FlightInv
<1> QED BY <1>1, FlightsHold, PTL
-----------------------------------------------------------------------------
(* Fresh verdicts.                                                         *)

Accepted(t) == pc[t] = "answered" /\ reply[t].kind = "yes"

(* Requests came, probes were sent and answers were heard in the past. *)
TimesPassed ==
    /\ \A t \in Tasks : began[t] <= clock /\ sentAt[t] <= clock
    /\ \A l \in Logins : vouched[l] \in Vouches =>
          vouched[l].asked <= clock /\ vouched[l].heard <= clock

(* CMS accepts no login that was gone when it was asked about it, and       *)
(* replaces a cookie only by another one of the same login.                *)
AcceptedInTime ==
    \A t \in Tasks : Accepted(t) =>
        /\ reply[t].refreshed \in Refreshes[Current(t)] \cup {None}
        /\ Gone(Login[Current(t)]) => sentAt[t] <= goneAt[Login[Current(t)]]

VouchedInTime ==
    \A l \in Logins : vouched[l] \in Vouches /\ Gone(l) => vouched[l].asked <= goneAt[l]

(* So no login is in the cache for longer than a verdict lives after it was *)
(* heard, and no request has a verdict that was too old when it came.      *)
CachedInTime ==
    \A k \in DOMAIN cache : cache[k].status = "authenticated" =>
        /\ vouched[Login[k[1]]] \in Vouches
        /\ cache[k].expires <= vouched[Login[k[1]]].heard + PositiveTtl

Heard(t, l) ==
    /\ vouched[l] \in Vouches
    /\ \/ began[t] < vouched[l].heard + PositiveTtl
       \/ began[t] <= vouched[l].heard

GotInTime ==
    \A t \in Tasks : \A v \in Accepting(t) : Heard(t, Login[v.cookie])

FreshInv == TimesPassed /\ AcceptedInTime /\ VouchedInTime /\ CachedInTime /\ GotInTime

LEMMA LoginOfKey ==
    ASSUME NEW k \in Keys
    PROVE  k[1] \in Cookies /\ Login[k[1]] \in Logins
BY DEF Keys, Logins

(* What was vouched for stays so, or is vouched for anew. *)
Later(l) ==
    vouched[l] \in Vouches =>
        vouched'[l] \in Vouches /\ vouched[l].heard <= vouched'[l].heard

LEMMA SameVouched ==
    ASSUME NEW l, vouched'[l] = vouched[l]
    PROVE  Later(l)
<1>1. vouched[l] \in Vouches => vouched[l].heard <= vouched[l].heard
  BY ProbeAssumption DEF Vouches
<1> QED BY <1>1 DEF Later

(* Entries that only go are as fresh as they were. *)
LEMMA KeptFresh ==
    ASSUME CacheTypes, CachedInTime, \A l \in Logins : Later(l),
           NEW k \in DOMAIN cache, cache'[k] = cache[k], cache'[k].status = "authenticated"
    PROVE  /\ vouched'[Login[k[1]]] \in Vouches
           /\ cache'[k].expires <= vouched'[Login[k[1]]].heard + PositiveTtl
<1>1. Login[k[1]] \in Logins
  BY LoginOfKey DEF CacheTypes
<1>2. /\ vouched[Login[k[1]]] \in Vouches
      /\ cache[k].expires <= vouched[Login[k[1]]].heard + PositiveTtl
  BY DEF CachedInTime
<1>3. /\ vouched'[Login[k[1]]] \in Vouches
      /\ vouched[Login[k[1]]].heard <= vouched'[Login[k[1]]].heard
  BY <1>1, <1>2 DEF Later
<1>4. /\ vouched[Login[k[1]]].heard \in Nat /\ vouched'[Login[k[1]]].heard \in Nat
      /\ cache[k].expires \in Nat /\ PositiveTtl \in Nat
  BY <1>2, <1>3, ProbeAssumption DEF Vouches, CacheTypes, Entries
<1> QED BY <1>2, <1>3, <1>4

LEMMA FewerFresh ==
    ASSUME CacheTypes, CachedInTime, \A l \in Logins : Later(l),
           \/ cache' = cache
           \/ \E k : cache' = Popped(k)
    PROVE  CachedInTime'
<1>1. \A k \in DOMAIN cache' : k \in DOMAIN cache /\ cache'[k] = cache[k]
  BY DEF Popped
<1> QED BY <1>1, KeptFresh DEF CachedInTime

(* A verdict put in the cache is as fresh as the answer it comes from, under *)
(* the cookie CMS was asked about and under the one it was replaced by.    *)
LEMMA PutFresh ==
    ASSUME CacheTypes, clock \in 0..MaxTime, CachedInTime, \A l \in Logins : Later(l),
           NEW k \in Keys, NEW status, NEW refreshed \in Cookies \cup {None},
           CachePut(k, status, refreshed),
           status = "authenticated" =>
              /\ refreshed # None => Login[refreshed] = Login[k[1]]
              /\ vouched'[Login[k[1]]] \in Vouches /\ vouched'[Login[k[1]]].heard = clock
    PROVE  CachedInTime'
<1>1. CASE Ttl(status) = 0
  BY <1>1, FewerFresh DEF CachePut
<1>2. CASE Ttl(status) # 0
  <2> DEFINE last == IF refreshed = None THEN k ELSE <<refreshed, k[2]>>
             live == {j \in DOMAIN cache : cache[j].expires > clock}
             entry == [status |-> status, expires |-> clock + Ttl(status)]
  <2>1. PICK kept \in Shrunk(live \cup {k, last}, last) :
            cache' = [j \in kept |-> IF j \in {k, last} THEN entry ELSE cache[j]]
    BY <1>2 DEF CachePut
  <2>2. kept \subseteq live \cup {k, last}
    BY ShrunkSize
  <2> SUFFICES ASSUME NEW j \in DOMAIN cache', cache'[j].status = "authenticated"
               PROVE  /\ vouched'[Login[j[1]]] \in Vouches
                      /\ cache'[j].expires <= vouched'[Login[j[1]]].heard + PositiveTtl
    BY DEF CachedInTime
  <2>3. j \in kept
    BY <2>1
  <2>4. CASE j \in {k, last}
    <3>1. cache'[j] = entry
      BY <2>1, <2>3, <2>4
    <3>2. status = "authenticated" /\ cache'[j].expires = clock + PositiveTtl
      BY <3>1 DEF Ttl
    <3>3. Login[j[1]] = Login[k[1]]
      BY <2>4, <3>2
    <3>4. clock + PositiveTtl \in Nat
      BY ProbeAssumption
    <3> QED BY <3>2, <3>3, <3>4
  <2>5. CASE j \notin {k, last}
    <3>1. cache'[j] = cache[j] /\ j \in DOMAIN cache
      BY <2>1, <2>2, <2>3, <2>5
    <3> QED BY <3>1, KeptFresh
  <2> QED BY <2>4, <2>5
<1> QED BY <1>1, <1>2

(* What an accepting answer vouches for: the login asked about, now. *)
LEMMA Vouching ==
    ASSUME Types, FreshInv, NEW t \in Tasks, Receive(t)
    PROVE  /\ Current(t) \in Cookies /\ Login[Current(t)] \in Logins
           /\ Accepted(t) =>
                 /\ vouched'[Login[Current(t)]] = [asked |-> sentAt[t], heard |-> clock]
                 /\ vouched'[Login[Current(t)]] \in Vouches
                 /\ vouched'[Login[Current(t)]].heard = clock
           /\ ~Accepted(t) => vouched' = vouched
           /\ \A l \in Logins \ {Login[Current(t)]} : vouched'[l] = vouched[l]
           /\ Accepted(t) <=> StatusOf(reply[t]) = "authenticated"
<1>1. pc[t] = "answered" /\ todo[t] # {} /\ reply[t] \in Replies
  BY DEF Receive, Types, TaskTypes
<1>2. Current(t) \in Cookies
  BY <1>1, KeyType DEF Types
<1>3. [asked |-> sentAt[t], heard |-> clock] \in Vouches
  BY DEF Types, TaskTypes, WorldTypes, Vouches
<1>4. Accepted(t) <=> StatusOf(reply[t]) = "authenticated"
  BY <1>1 DEF Accepted, StatusOf, Replies
<1>5. Login[Current(t)] \in Logins /\ vouched \in [Logins -> Vouches \cup {None}]
  BY <1>2 DEF Logins, Types, WorldTypes
<1>6. vouched' = IF Accepted(t)
                 THEN [vouched EXCEPT ![Login[Current(t)]] =
                          [asked |-> sentAt[t], heard |-> clock]]
                 ELSE vouched
  BY <1>1 DEF Receive, Accepted
<1>7. /\ Accepted(t) => vouched'[Login[Current(t)]] = [asked |-> sentAt[t], heard |-> clock]
      /\ \A l \in Logins \ {Login[Current(t)]} : vouched'[l] = vouched[l]
      /\ ~Accepted(t) => vouched' = vouched
  BY <1>5, <1>6
<1>8. [asked |-> sentAt[t], heard |-> clock].heard = clock
  OBVIOUS
<1> QED BY <1>2, <1>3, <1>4, <1>5, <1>7, <1>8

LEMMA VouchedStep ==
    ASSUME Types, FreshInv, Next
    PROVE  \A l \in Logins : Later(l)
<1>1. ASSUME NEW t \in Tasks, Receive(t)
      PROVE  \A l \in Logins : Later(l)
  <2> SUFFICES ASSUME NEW l \in Logins, vouched[l] \in Vouches, vouched'[l] # vouched[l]
               PROVE  vouched'[l] \in Vouches /\ vouched[l].heard <= vouched'[l].heard
    BY SameVouched DEF Later
  <2>1. Accepted(t) /\ l = Login[Current(t)]
    BY <1>1, Vouching
  <2>2. vouched'[l] \in Vouches /\ vouched'[l].heard = clock
    BY <1>1, <2>1, Vouching
  <2> QED BY <2>2 DEF FreshInv, TimesPassed
<1>2. CASE vouched' = vouched
  BY <1>2, SameVouched
<1>3. (\E t \in Tasks : Receive(t)) \/ vouched' = vouched
  BY DEF Next, Advance, Enter, Acquire, Authenticate, RefuseOversize, ServeCached, Join,
         ServeShared, RefuseProbe, Send, Answer, Cancel, Finish, Revoke, Tick, worldVars
<1> QED BY <1>1, <1>2, <1>3

(* Steps of other tasks leave a task alone; its own steps that are not      *)
(* named here end its probe or its request.                                *)
LEMMA OwnSteps ==
    ASSUME Types, Next, NEW t \in Tasks
    PROVE  \/ UNCHANGED <<pc[t], todo[t], sentAt[t], began[t], reply[t]>>
           \/ \E jar \in Jars[t], a \in Addresses : Authenticate(t, jar, a)
           \/ \E status : Return(t, status)
           \/ Join(t) \/ Send(t) \/ Answer(t) \/ Cancel(t) \/ Finish(t)
<1> USE DEF Types, TaskTypes
<1> DEFINE Same == UNCHANGED <<pc[t], todo[t], sentAt[t], began[t], reply[t]>>
<1>1. ASSUME NEW s \in Tasks, s # t, NEW status, Return(s, status)
      PROVE  Same
  BY <1>1 DEF Return
<1>2. ASSUME NEW s \in Tasks, s # t, Join(s) \/ Send(s) \/ Answer(s) \/ Cancel(s) \/ Finish(s)
      PROVE  Same
  BY <1>2 DEF Join, Send, Answer, Cancel, Finish, Suspend
<1>3. ASSUME NEW s \in Tasks, s # t, NEW jar \in Jars[s], NEW a \in Addresses,
             Authenticate(s, jar, a)
      PROVE  Same
  BY <1>3 DEF Authenticate
<1>4. CASE Tick \/ \E l \in Logins : Revoke(l)
  BY <1>4 DEF Tick, Revoke, taskVars
<1>5. ASSUME NEW s \in Tasks,
             \/ RefuseOversize(s) \/ ServeCached(s) \/ ServeShared(s)
             \/ RefuseProbe(s) \/ Receive(s)
      PROVE  \E status : Return(s, status)
  BY <1>5 DEF RefuseOversize, ServeCached, ServeShared, RefuseProbe, Receive
<1> HIDE DEF Same, Types
<1> QED BY <1>1, <1>2, <1>3, <1>4, <1>5 DEF Next, Advance, Enter, Acquire, Same

LEMMA OwnTimes ==
    ASSUME Types, Next, NEW t \in Tasks
    PROVE  began'[t] \in {began[t], 0, clock} /\ sentAt'[t] \in {sentAt[t], 0, clock}
<1> USE DEF Types, TaskTypes
<1>1. CASE \E jar \in Jars[t], a \in Addresses : Authenticate(t, jar, a)
  BY <1>1 DEF Authenticate
<1>2. CASE \E status : Return(t, status)
  BY <1>2 DEF Return
<1>3. CASE Join(t) \/ Send(t) \/ Answer(t)
  BY <1>3 DEF Join, Send, Answer, Suspend
<1>4. CASE Cancel(t) \/ Finish(t)
  BY <1>4 DEF Cancel, Finish
<1> QED BY <1>1, <1>2, <1>3, <1>4, OwnSteps

LEMMA TimesStep ==
    ASSUME Types, FreshInv, Next
    PROVE  TimesPassed'
<1> USE ProbeAssumption
<1>1. clock \in Nat /\ clock' \in Nat /\ clock <= clock' /\ 0 <= clock
  <2>1. clock' = clock \/ clock' = clock + 1
    BY DEF Next, Advance, Enter, Acquire, Authenticate, RefuseOversize, ServeCached, Join,
           ServeShared, RefuseProbe, Send, Answer, Receive, Cancel, Finish, Revoke, Tick,
           worldVars
  <2>2. clock \in Nat
    BY DEF Types, WorldTypes
  <2> QED BY <2>1, <2>2
<1>2. ASSUME NEW t \in Tasks
      PROVE  began'[t] \in {began[t], 0, clock} /\ sentAt'[t] \in {sentAt[t], 0, clock}
  BY OwnTimes
<1>3. ASSUME NEW t \in Tasks
      PROVE  began'[t] <= clock' /\ sentAt'[t] <= clock'
  <2>1. began[t] <= clock /\ sentAt[t] <= clock /\ began[t] \in Nat /\ sentAt[t] \in Nat
    BY DEF FreshInv, TimesPassed, Types, TaskTypes
  <2> QED BY <1>1, <1>2, <2>1
<1>4. ASSUME NEW l \in Logins, vouched'[l] \in Vouches
      PROVE  vouched'[l].asked <= clock' /\ vouched'[l].heard <= clock'
  <2>1. CASE vouched'[l] = vouched[l]
    <3>1. vouched[l].asked <= clock /\ vouched[l].heard <= clock
      BY <1>4, <2>1 DEF FreshInv, TimesPassed
    <3>2. vouched[l].asked \in Nat /\ vouched[l].heard \in Nat
      BY <1>4, <2>1 DEF Vouches
    <3> QED BY <1>1, <2>1, <3>1, <3>2
  <2>2. CASE vouched'[l] # vouched[l]
    <3>1. PICK t \in Tasks : Receive(t)
      BY <2>2 DEF Next, Advance, Enter, Acquire, Authenticate, RefuseOversize, ServeCached,
         Join, ServeShared, RefuseProbe, Send, Answer, Cancel, Finish, Revoke, Tick, worldVars
    <3>2. vouched'[l] = [asked |-> sentAt[t], heard |-> clock]
      BY <2>2, <3>1, Vouching
    <3>3. sentAt[t] <= clock /\ sentAt[t] \in Nat
      BY DEF FreshInv, TimesPassed, Types, TaskTypes
    <3> QED BY <1>1, <3>2, <3>3
  <2> QED BY <2>1, <2>2
<1> QED BY <1>3, <1>4 DEF TimesPassed

(* Revoke is the only step that changes when a login is gone: from never to *)
(* now.                                                                    *)
LEMMA GoneStep ==
    ASSUME Types, Next, NEW l \in Logins, Gone(l)'
    PROVE  \/ Gone(l) /\ goneAt'[l] = goneAt[l]
           \/ goneAt'[l] = clock
BY DEF Next, Advance, Enter, Acquire, Authenticate, RefuseOversize, ServeCached, Join,
       ServeShared, RefuseProbe, Send, Answer, Receive, Cancel, Finish, Revoke, Tick,
       worldVars, Gone, Types, WorldTypes

LEMMA VouchedInTimeStep ==
    ASSUME Types, FreshInv, Next
    PROVE  VouchedInTime'
<1> SUFFICES ASSUME NEW l \in Logins, vouched'[l] \in Vouches, Gone(l)'
             PROVE  vouched'[l].asked <= goneAt'[l]
  BY DEF VouchedInTime
<1>1. CASE vouched'[l] = vouched[l]
  <2>1. vouched[l].asked <= clock
    BY <1>1 DEF FreshInv, TimesPassed
  <2>2. Gone(l) => vouched[l].asked <= goneAt[l]
    BY <1>1 DEF FreshInv, VouchedInTime
  <2> QED BY <1>1, <2>1, <2>2, GoneStep
<1>2. CASE vouched'[l] # vouched[l]
  <2>1. PICK t \in Tasks : Receive(t)
    BY <1>2 DEF Next, Advance, Enter, Acquire, Authenticate, RefuseOversize, ServeCached,
       Join, ServeShared, RefuseProbe, Send, Answer, Cancel, Finish, Revoke, Tick, worldVars
  <2>2. /\ vouched'[l] = [asked |-> sentAt[t], heard |-> clock]
        /\ Accepted(t) /\ l = Login[Current(t)]
    BY <1>2, <2>1, Vouching
  <2>3. goneAt' = goneAt
    BY <2>1 DEF Receive
  <2>4. sentAt[t] <= goneAt[l]
    BY <2>2, <2>3 DEF FreshInv, AcceptedInTime, Gone
  <2> QED BY <2>2, <2>3, <2>4
<1> QED BY <1>1, <1>2

(* A probe that CMS has answered was answered before, or is now. *)
LEMMA AcceptedBefore ==
    ASSUME Types, Next, NEW t \in Tasks, Accepted(t)'
    PROVE  /\ sentAt'[t] = sentAt[t] /\ todo'[t] = todo[t]
           /\ \/ Accepted(t) /\ reply'[t] = reply[t]
              \/ reply'[t] \in Answers(Current(t)) /\ goneAt' = goneAt
<1> USE DEF Types, TaskTypes
<1>1. pc'[t] = "answered"
  BY DEF Accepted
<1>2. CASE UNCHANGED <<pc[t], todo[t], sentAt[t], began[t], reply[t]>>
  BY <1>2 DEF Accepted
<1>3. CASE Answer(t)
  BY <1>3 DEF Answer, Suspend, worldVars
<1>4. CASE \E jar \in Jars[t], a \in Addresses : Authenticate(t, jar, a)
  BY <1>1, <1>4 DEF Authenticate
<1>5. CASE \E status : Return(t, status)
  BY <1>1, <1>5 DEF Return
<1>6. CASE Join(t) \/ Send(t) \/ Cancel(t) \/ Finish(t)
  BY <1>1, <1>6 DEF Join, Send, Cancel, Finish, Suspend
<1> QED BY <1>2, <1>3, <1>4, <1>5, <1>6, OwnSteps

LEMMA AcceptedInTimeStep ==
    ASSUME Types, FreshInv, Next
    PROVE  AcceptedInTime'
<1> SUFFICES ASSUME NEW t \in Tasks, Accepted(t)'
             PROVE  (/\ reply[t].refreshed \in Refreshes[Current(t)] \cup {None}
                     /\ Gone(Login[Current(t)]) => sentAt[t] <= goneAt[Login[Current(t)]])'
  BY DEF AcceptedInTime
<1>1. sentAt'[t] = sentAt[t] /\ todo'[t] = todo[t] /\ Current(t)' = Current(t)
  BY AcceptedBefore DEF Current
<1>2. Current(t) \in Cookies /\ Login[Current(t)] \in Logins
  <2>1. todo'[t] # {}
    BY TypesStep DEF Accepted, Types, TaskTypes
  <2>2. Current(t) \in Cookies
    BY <1>1, <2>1, KeyType DEF Types
  <2> QED BY <2>2 DEF Logins
<1>3. CASE Accepted(t) /\ reply'[t] = reply[t]
  <2>1. /\ reply[t].refreshed \in Refreshes[Current(t)] \cup {None}
        /\ Gone(Login[Current(t)]) => sentAt[t] <= goneAt[Login[Current(t)]]
        /\ sentAt[t] <= clock
    BY <1>3 DEF FreshInv, AcceptedInTime, TimesPassed
  <2>2. Gone(Login[Current(t)])' =>
           \/ Gone(Login[Current(t)]) /\ goneAt'[Login[Current(t)]] = goneAt[Login[Current(t)]]
           \/ goneAt'[Login[Current(t)]] = clock
    BY <1>1, <1>2, GoneStep DEF Gone
  <2> QED BY <1>1, <1>3, <2>1, <2>2
<1>4. CASE reply'[t] \in Answers(Current(t)) /\ goneAt' = goneAt
  <2>1. reply'[t].kind = "yes"
    BY DEF Accepted
  <2>2. /\ ~Gone(Login[Current(t)])
        /\ reply'[t].refreshed \in Refreshes[Current(t)] \cup {None}
    BY <1>4, <2>1 DEF Answers, Down
  <2> QED BY <1>1, <1>4, <2>2 DEF Gone
<1> QED BY <1>3, <1>4, AcceptedBefore

LEMMA CachedStep ==
    ASSUME Types, FreshInv, Next
    PROVE  CachedInTime'
<1> USE DEF Types
<1>1. \A l \in Logins : Later(l)
  BY VouchedStep
<1>2. ASSUME NEW t \in Tasks, RefuseProbe(t)
      PROVE  CachedInTime'
  <2>1. todo[t] # {} /\ CachePut(Key(t), "unavailable", None)
    BY <1>2 DEF RefuseProbe, LockFree, TaskTypes
  <2> QED BY <1>1, <2>1, KeyType, PutFresh DEF FreshInv, WorldTypes
<1>3. ASSUME NEW t \in Tasks, Receive(t)
      PROVE  CachedInTime'
  <2>1. /\ pc[t] = "answered" /\ todo[t] # {} /\ reply[t] \in Replies
        /\ CachePut(Key(t), StatusOf(reply[t]), reply[t].refreshed)
    BY <1>3 DEF Receive, TaskTypes
  <2>2. reply[t].refreshed \in Cookies \cup {None}
    BY <2>1 DEF Replies
  <2>3. Key(t) \in Keys /\ Key(t)[1] = Current(t)
    BY <2>1, KeyType DEF Key
  <2>4. ASSUME StatusOf(reply[t]) = "authenticated"
        PROVE  /\ reply[t].refreshed # None => Login[reply[t].refreshed] = Login[Current(t)]
               /\ vouched'[Login[Current(t)]] \in Vouches
               /\ vouched'[Login[Current(t)]].heard = clock
    <3>1. /\ Accepted(t) /\ Current(t) \in Cookies
          /\ vouched'[Login[Current(t)]] = [asked |-> sentAt[t], heard |-> clock]
          /\ vouched'[Login[Current(t)]] \in Vouches
      BY <1>3, <2>4, Vouching
    <3>2. reply[t].refreshed \in Refreshes[Current(t)] \cup {None}
      BY <3>1 DEF FreshInv, AcceptedInTime
    <3> QED BY <3>1, <3>2, ProbeAssumption
  <2> QED BY <1>1, <2>1, <2>2, <2>3, <2>4, PutFresh DEF FreshInv, WorldTypes
<1>4. CASE cache' = cache \/ \E k : cache' = Popped(k)
  BY <1>1, <1>4, FewerFresh DEF FreshInv
<1>5. ASSUME NEW t \in Tasks, Join(t) \/ Send(t)
      PROVE  \E k : cache' = Popped(k)
  BY <1>5 DEF Join, Send
<1>6. \/ \E t \in Tasks : RefuseProbe(t) \/ Receive(t) \/ Join(t) \/ Send(t)
      \/ cache' = cache
  BY DEF Next, Advance, Enter, Acquire, Authenticate, RefuseOversize, ServeCached,
         ServeShared, Answer, Cancel, Finish, Revoke, Tick, storeVars
<1> QED BY <1>2, <1>3, <1>4, <1>5, <1>6

(* Where a verdict comes from: from the cache, while the entry is served,  *)
(* or from the answer that has just come back.                             *)
LEMMA VerdictSource ==
    ASSUME Types, Next, NEW t \in Tasks, NEW v \in got'[t]
    PROVE  /\ began'[t] = began[t]
           /\ v \notin got[t] /\ v.status = "authenticated" =>
                 /\ todo[t] # {} /\ v.cookie = Current(t)
                 /\ \/ Servable(Key(t)) /\ cache[Key(t)].status = "authenticated"
                    \/ Receive(t) /\ Accepted(t)
<1> USE DEF Types
<1>1. ASSUME NEW s \in Tasks, NEW status, Return(s, status)
      PROVE  /\ began'[t] = began[t]
             /\ v \notin got[t] => s = t /\ v = [cookie |-> Current(t), status |-> status]
  BY <1>1 DEF Return, TaskTypes
<1>2. ASSUME NEW s \in Tasks, NEW jar \in Jars[s], NEW a \in Addresses, Authenticate(s, jar, a)
      PROVE  began'[t] = began[t] /\ v \in got[t]
  BY <1>2 DEF Authenticate, TaskTypes
<1>3. ASSUME NEW s \in Tasks, RefuseOversize(s) \/ RefuseProbe(s)
      PROVE  began'[t] = began[t] /\ (v \notin got[t] => v.status # "authenticated")
  BY <1>1, <1>3 DEF RefuseOversize, RefuseProbe
<1>4. ASSUME NEW s \in Tasks, ServeCached(s) \/ ServeShared(s)
      PROVE  /\ began'[t] = began[t]
             /\ v \notin got[t] /\ v.status = "authenticated" =>
                   /\ todo[t] # {} /\ v.cookie = Current(t)
                   /\ Servable(Key(t)) /\ cache[Key(t)].status = "authenticated"
  <2>1. /\ pc[s] \in {"probe", "waiting"} /\ Servable(Key(s))
        /\ Return(s, cache[Key(s)].status)
    BY <1>4 DEF ServeCached, ServeShared, LockFree
  <2>2. /\ began'[t] = began[t]
        /\ v \notin got[t] =>
              s = t /\ v = [cookie |-> Current(t), status |-> cache[Key(s)].status]
    BY <1>1, <2>1
  <2> QED BY <2>1, <2>2 DEF TaskTypes
<1>5. ASSUME NEW s \in Tasks, Receive(s)
      PROVE  /\ began'[t] = began[t]
             /\ v \notin got[t] /\ v.status = "authenticated" =>
                   todo[t] # {} /\ v.cookie = Current(t) /\ Receive(t) /\ Accepted(t)
  <2>1. pc[s] = "answered" /\ Return(s, StatusOf(reply[s]))
    BY <1>5 DEF Receive
  <2>2. /\ began'[t] = began[t]
        /\ v \notin got[t] =>
              s = t /\ v = [cookie |-> Current(t), status |-> StatusOf(reply[s])]
    BY <1>1, <2>1
  <2>3. reply[t].kind \in {"yes", "no", "down"}
    BY DEF TaskTypes, Replies
  <2> QED BY <1>5, <2>1, <2>2, <2>3 DEF Accepted, StatusOf, TaskTypes
<1>6. ASSUME NEW s \in Tasks, Join(s) \/ Send(s) \/ Answer(s) \/ Cancel(s) \/ Finish(s)
      PROVE  began'[t] = began[t] /\ v \in got[t]
  BY <1>6 DEF Join, Send, Answer, Cancel, Finish, Suspend, TaskTypes
<1>7. CASE Tick \/ \E l \in Logins : Revoke(l)
  BY <1>7 DEF Tick, Revoke, taskVars
<1> QED BY <1>2, <1>3, <1>4, <1>5, <1>6, <1>7 DEF Next, Advance, Enter, Acquire

LEMMA GotStep ==
    ASSUME Types, FreshInv, Next
    PROVE  GotInTime'
<1> USE ProbeAssumption DEF Types
<1> SUFFICES ASSUME NEW t \in Tasks, NEW v \in got'[t], v.status = "authenticated"
             PROVE  Heard(t, Login[v.cookie])'
  BY DEF GotInTime, Accepting
<1> DEFINE l == Login[v.cookie]
<1>1. began'[t] = began[t] /\ began[t] \in Nat /\ began[t] <= clock /\ clock \in Nat
  <2>1. began'[t] = began[t]
    BY VerdictSource
  <2> QED BY <2>1 DEF FreshInv, TimesPassed, TaskTypes, WorldTypes
<1>2. ASSUME Heard(t, l), l \in Logins
      PROVE  Heard(t, l)'
  <2>1. vouched'[l] \in Vouches /\ vouched[l].heard <= vouched'[l].heard
    BY <1>2, VouchedStep DEF Heard, Later
  <2>2. vouched[l].heard \in Nat /\ vouched'[l].heard \in Nat
    BY <1>2, <2>1 DEF Heard, Vouches
  <2> QED BY <1>1, <1>2, <2>1, <2>2 DEF Heard
<1>3. CASE v \in got[t]
  <2>1. v.cookie \in Cookies
    BY <1>3 DEF TaskTypes
  <2>2. l \in Logins
    BY <2>1 DEF Logins
  <2>3. Heard(t, l)
    BY <1>3 DEF FreshInv, GotInTime, Accepting
  <2> QED BY <1>2, <2>2, <2>3
<1>4. CASE v \notin got[t]
  <2>1. /\ todo[t] # {} /\ v.cookie = Current(t)
        /\ \/ Servable(Key(t)) /\ cache[Key(t)].status = "authenticated"
           \/ Receive(t) /\ Accepted(t)
    BY <1>4, VerdictSource
  <2>2. Current(t) \in Cookies /\ Key(t) \in Keys /\ Key(t)[1] = Current(t)
    BY <2>1, KeyType DEF Key
  <2>3. l \in Logins
    BY <2>1, <2>2 DEF Logins
  <2>4. CASE Servable(Key(t)) /\ cache[Key(t)].status = "authenticated"
    <3>1. /\ Key(t) \in DOMAIN cache /\ cache[Key(t)].expires > clock
          /\ cache[Key(t)].expires \in Nat
      BY <2>4 DEF Servable, CacheTypes, Entries
    <3>2. vouched[l] \in Vouches /\ cache[Key(t)].expires <= vouched[l].heard + PositiveTtl
      BY <2>1, <2>2, <2>4, <3>1 DEF FreshInv, CachedInTime
    <3>3. vouched[l].heard \in Nat
      BY <3>2 DEF Vouches
    <3>4. Heard(t, l)
      BY <1>1, <3>1, <3>2, <3>3 DEF Heard
    <3> QED BY <1>2, <2>3, <3>4
  <2>5. CASE Receive(t) /\ Accepted(t)
    <3>1. vouched'[l] \in Vouches /\ vouched'[l].heard = clock
      BY <2>1, <2>5, Vouching
    <3> QED BY <1>1, <3>1 DEF Heard
  <2> QED BY <2>1, <2>4, <2>5
<1> QED BY <1>3, <1>4

LEMMA FreshHolds == Spec => []FreshInv
<1>1. Init => FreshInv
  <2> SUFFICES ASSUME Init PROVE FreshInv
    OBVIOUS
  <2>1. None \notin Vouches
    BY ProbeAssumption
  <2>2. TimesPassed /\ VouchedInTime
    BY <2>1 DEF Init, TimesPassed, VouchedInTime
  <2>3. AcceptedInTime /\ GotInTime
    BY DEF Init, AcceptedInTime, Accepted, GotInTime, Accepting
  <2>4. CachedInTime
    BY DEF Init, CachedInTime
  <2> QED BY <2>2, <2>3, <2>4 DEF FreshInv
<1>2. Types /\ FreshInv /\ [Next]_vars => FreshInv'
  <2>1. ASSUME FreshInv, UNCHANGED vars
        PROVE  FreshInv'
    BY <2>1 DEF vars, taskVars, flightVars, storeVars, worldVars, FreshInv, TimesPassed,
       AcceptedInTime, VouchedInTime, CachedInTime, GotInTime, Heard, Accepting, Accepted,
       Gone, Current
  <2>2. ASSUME Types, FreshInv, Next
        PROVE  FreshInv'
    BY <2>2, TimesStep, AcceptedInTimeStep, VouchedInTimeStep, CachedStep, GotStep DEF FreshInv
  <2> QED BY <2>1, <2>2
<1> QED BY <1>1, <1>2, TypesHold, PTL DEF Spec

(* Whoever authenticate lets pass was accepted by CMS, in each contest it   *)
(* counts for him, in an answer heard no longer than the life of a cached   *)
(* verdict before his request came, to a probe sent before CMS turned him   *)
(* away: for any number of contests, any times to live, and however long a  *)
(* send takes.  Neither a shared flight, nor the cache asked again under    *)
(* the lock, nor a refreshed cookie, nor waiting for later contests adds to *)
(* the age of a verdict at the time the request came.                      *)
THEOREM VerdictsAreFresh == Spec => []FreshVerdicts
<1>1. Types /\ FreshInv => FreshVerdicts
  <2> SUFFICES ASSUME Types, FreshInv, NEW t \in Tasks, NEW v \in Accepting(t)
               PROVE  Fresh(t, Login[v.cookie])
    BY DEF FreshVerdicts
  <2>1. Heard(t, Login[v.cookie])
    BY DEF FreshInv, GotInTime
  <2>2. Login[v.cookie] \in Logins
    BY DEF Accepting, Types, TaskTypes, Logins
  <2>3. Gone(Login[v.cookie]) => vouched[Login[v.cookie]].asked <= goneAt[Login[v.cookie]]
    BY <2>1, <2>2 DEF Heard, FreshInv, VouchedInTime
  <2> QED BY <2>1, <2>3 DEF Heard, Fresh
<1> QED BY <1>1, TypesHold, FreshHolds, PTL
-----------------------------------------------------------------------------
(* The budget of an address.                                               *)

EveryoneHasAWindow == IsFiniteSet(Addresses) /\ Cardinality(Addresses) <= MaxEntries

(* What SentIn counts, at any of the given times. *)
Sent(a, times) ==
    {p \in times \X (1..(2 * ProbeLimit + 1)) : p[1] <= MaxTime /\ p[2] <= sends[a][p[1]]}

Stretch(from) == from..(from + ProbeWindow - 1)
Before(start) == {time \in 0..MaxTime : time < start /\ start <= time + ProbeWindow}

(* A window accounts for what was sent since it began, which is nothing    *)
(* once it is over.  What a window's length before it saw belongs to one   *)
(* window at most, and any stretch that ended before it to two.            *)
AccountsFor(w, a) ==
    /\ w.start <= clock
    /\ \A time \in 0..MaxTime : time >= w.start + ProbeWindow => sends[a][time] = 0
    /\ Cardinality(Sent(a, w.start..MaxTime)) <= w.count
    /\ Cardinality(Sent(a, Before(w.start))) <= ProbeLimit
    /\ \A from \in 0..MaxTime : from + ProbeWindow <= w.start =>
          Cardinality(Sent(a, Stretch(from))) <= 2 * ProbeLimit

BudgetOf(a) ==
    /\ \A time \in 0..MaxTime : time > clock => sends[a][time] = 0
    /\ IF a \in DOMAIN windows THEN AccountsFor(windows[a], a)
       ELSE \A time \in 0..MaxTime : sends[a][time] = 0

BudgetInv == EveryoneHasAWindow => \A a \in Addresses : BudgetOf(a)

LEMMA Times ==
    /\ ProbeLimit \in Nat /\ ProbeLimit > 0 /\ ProbeWindow \in Nat /\ ProbeWindow > 0
    /\ MaxTime \in Nat /\ MaxEntries \in Nat
BY ProbeAssumption

LEMMA SentPairs ==
    ASSUME NEW a, NEW times, NEW p
    PROVE  p \in Sent(a, times) <=>
              \E time \in times, n \in 1..(2 * ProbeLimit + 1) :
                  p = <<time, n>> /\ time <= MaxTime /\ n <= sends[a][time]
<1>1. ASSUME p \in Sent(a, times)
      PROVE  \E time \in times, n \in 1..(2 * ProbeLimit + 1) :
                 p = <<time, n>> /\ time <= MaxTime /\ n <= sends[a][time]
  <2>1. PICK time \in times, n \in 1..(2 * ProbeLimit + 1) : p = <<time, n>>
    BY <1>1 DEF Sent
  <2>2. p[1] = time /\ p[2] = n
    BY <2>1
  <2> QED BY <1>1, <2>1, <2>2 DEF Sent
<1>2. ASSUME NEW time \in times, NEW n \in 1..(2 * ProbeLimit + 1),
             p = <<time, n>>, time <= MaxTime, n <= sends[a][time]
      PROVE  p \in Sent(a, times)
  <2>1. p[1] = time /\ p[2] = n /\ p \in times \X (1..(2 * ProbeLimit + 1))
    BY <1>2
  <2> QED BY <1>2, <2>1 DEF Sent
<1> QED BY <1>1, <1>2

LEMMA SentFinite ==
    ASSUME NEW a, NEW times, IsFiniteSet(times)
    PROVE  IsFiniteSet(Sent(a, times)) /\ Cardinality(Sent(a, times)) \in Nat
<1>1. IsFiniteSet(1..(2 * ProbeLimit + 1))
  BY Times, FS_Interval
<1>2. IsFiniteSet(times \X (1..(2 * ProbeLimit + 1)))
  BY <1>1, FS_Product
<1>3. Sent(a, times) \subseteq times \X (1..(2 * ProbeLimit + 1))
  BY DEF Sent
<1>4. IsFiniteSet(Sent(a, times))
  BY <1>2, <1>3, FS_Subset
<1> QED BY <1>4, FS_CardinalityType

LEMMA SentFewer ==
    ASSUME NEW a, NEW few, NEW times, few \cap (0..MaxTime) \subseteq times,
           few \subseteq Nat, IsFiniteSet(times)
    PROVE  Cardinality(Sent(a, few)) <= Cardinality(Sent(a, times))
<1>1. \A time \in few : time <= MaxTime => time \in times
  BY Times
<1>2. Sent(a, few) \subseteq Sent(a, times)
  BY <1>1, SentPairs
<1> QED BY <1>2, SentFinite, FS_Subset

LEMMA SentApart ==
    ASSUME NEW a, NEW times, NEW S, NEW T, times \cap (0..MaxTime) \subseteq S \cup T,
           times \subseteq Nat, IsFiniteSet(S), IsFiniteSet(T)
    PROVE  Cardinality(Sent(a, times)) <= Cardinality(Sent(a, S)) + Cardinality(Sent(a, T))
<1> DEFINE A == Sent(a, S)
           B == Sent(a, T)
<1>1. IsFiniteSet(A) /\ IsFiniteSet(B) /\ Cardinality(A) \in Nat /\ Cardinality(B) \in Nat
  BY SentFinite
<1>2. Sent(a, times) \subseteq A \cup B
  <2>1. \A time \in times : time <= MaxTime => time \in S \cup T
    BY Times
  <2> SUFFICES ASSUME NEW p \in Sent(a, times)
               PROVE  p \in A \cup B
    OBVIOUS
  <2>2. PICK time \in times, n \in 1..(2 * ProbeLimit + 1) :
            p = <<time, n>> /\ time <= MaxTime /\ n <= sends[a][time]
    BY SentPairs
  <2>3. CASE time \in S
    BY <2>2, <2>3, SentPairs
  <2>4. CASE time \in T
    BY <2>2, <2>4, SentPairs
  <2> QED BY <2>1, <2>2, <2>3, <2>4
<1> HIDE DEF A, B
<1>3. /\ IsFiniteSet(A \cup B)
      /\ Cardinality(A \cup B) = Cardinality(A) + Cardinality(B) - Cardinality(A \cap B)
  BY <1>1, FS_Union
<1>4. IsFiniteSet(A \cap B) /\ Cardinality(A \cap B) \in Nat
  BY <1>1, FS_Subset, FS_CardinalityType
<1>5. Cardinality(Sent(a, times)) <= Cardinality(A \cup B)
  BY <1>2, <1>3, FS_Subset
<1>6. Cardinality(Sent(a, times)) \in Nat
  BY <1>2, <1>3, FS_Subset, FS_CardinalityType
<1>7. Cardinality(Sent(a, times)) <= Cardinality(A) + Cardinality(B)
  BY <1>1, <1>3, <1>4, <1>5, <1>6
<1> QED BY <1>7 DEF A, B

LEMMA NothingSent ==
    ASSUME WorldTypes, NEW a \in Addresses, NEW times, times \subseteq Nat,
           \A time \in times : time <= MaxTime => sends[a][time] = 0
    PROVE  Cardinality(Sent(a, times)) = 0
<1>1. ASSUME NEW p \in Sent(a, times)
      PROVE  FALSE
  <2>1. PICK time \in times, n \in 1..(2 * ProbeLimit + 1) :
            time <= MaxTime /\ n <= sends[a][time]
    BY SentPairs
  <2>2. n \in Nat /\ n >= 1
    BY Times
  <2>3. sends[a][time] = 0
    BY <2>1
  <2> QED BY <2>1, <2>2, <2>3
<1>2. Sent(a, times) = {}
  BY <1>1
<1> QED BY <1>2, FS_EmptySet

LEMMA SpansFinite ==
    ASSUME NEW n \in Nat
    PROVE  /\ IsFiniteSet(Stretch(n)) /\ Stretch(n) \subseteq Nat
           /\ IsFiniteSet(n..MaxTime) /\ n..MaxTime \subseteq Nat
           /\ IsFiniteSet(Before(n)) /\ Before(n) \subseteq Nat
<1>1. IsFiniteSet(n..(n + ProbeWindow - 1)) /\ IsFiniteSet(n..MaxTime) /\ IsFiniteSet(0..MaxTime)
  BY Times, FS_Interval
<1>2. IsFiniteSet(Before(n))
  BY <1>1, FS_Subset DEF Before
<1> QED BY <1>1, <1>2, Times DEF Stretch, Before

(* A stretch that reaches into the window began less than a window's length *)
(* before it: it sees what the window counts and what was sent just before. *)
LEMMA WithinBudget ==
    ASSUME WorldTypes, NEW a \in Addresses, NEW w \in WindowStates, AccountsFor(w, a),
           NEW from \in 0..MaxTime
    PROVE  Cardinality(Sent(a, Stretch(from))) <= 2 * ProbeLimit
<1>1. w.start \in Nat /\ w.count \in 0..ProbeLimit /\ from \in Nat
  BY DEF WindowStates
<1>2. CASE from + ProbeWindow <= w.start
  BY <1>2 DEF AccountsFor
<1>3. CASE from + ProbeWindow > w.start
  <2> DEFINE before == Sent(a, Before(w.start))
             since == Sent(a, w.start..MaxTime)
  <2>1. Stretch(from) \cap (0..MaxTime) \subseteq Before(w.start) \cup (w.start..MaxTime)
    BY <1>1, <1>3, Times DEF Stretch, Before
  <2>2. Cardinality(Sent(a, Stretch(from))) <= Cardinality(before) + Cardinality(since)
    BY <1>1, <2>1, SpansFinite, SentApart
  <2>3. /\ Cardinality(before) \in Nat /\ Cardinality(since) \in Nat
        /\ Cardinality(Sent(a, Stretch(from))) \in Nat
    BY <1>1, SpansFinite, SentFinite
  <2>4. Cardinality(before) <= ProbeLimit /\ Cardinality(since) <= w.count
    BY DEF AccountsFor
  <2> HIDE DEF before, since
  <2> QED BY <1>1, <2>2, <2>3, <2>4, Times
<1> QED BY <1>1, <1>2, <1>3, Times

(* The window a probe is counted in, be it the old one or a new one. *)
LEMMA CurrentWindow ==
    ASSUME WorldTypes, WindowTypes, NEW a \in Addresses, BudgetOf(a)
    PROVE  /\ Window(a) \in WindowStates /\ AccountsFor(Window(a), a)
           /\ clock < Window(a).start + ProbeWindow
<1>1. clock \in 0..MaxTime
  BY DEF WorldTypes
<1> DEFINE new == [start |-> clock, count |-> 0]
<1>2. new \in WindowStates
  BY <1>1, Times DEF WindowStates
<1>3. CASE a \in DOMAIN windows /\ clock < windows[a].start + ProbeWindow
  BY <1>3 DEF Window, BudgetOf, WindowTypes
<1>4. CASE a \in DOMAIN windows /\ ~(clock < windows[a].start + ProbeWindow)
  <2>1. PICK w \in WindowStates : w = windows[a]
    BY <1>4 DEF WindowTypes
  <2>2. AccountsFor(w, a) /\ w.start \in Nat /\ w.count \in 0..ProbeLimit
    BY <1>4, <2>1 DEF BudgetOf, WindowStates
  <2>3. w.start + ProbeWindow <= clock
    BY <1>1, <1>4, <2>1, <2>2, Times
  <2>4. \A time \in 0..MaxTime : time >= clock => sends[a][time] = 0
    BY <1>1, <2>2, <2>3, Times DEF AccountsFor
  <2>5. Cardinality(Sent(a, clock..MaxTime)) = 0
    <3>1. \A time \in clock..MaxTime : sends[a][time] = 0
      BY <1>1, <2>4, Times
    <3>2. clock..MaxTime \subseteq Nat
      BY <1>1
    <3> QED BY <3>1, <3>2, NothingSent
  <2>6. Cardinality(Sent(a, Before(clock))) <= ProbeLimit
    <3>1. Before(clock) \subseteq w.start..MaxTime
      BY <1>1, <2>2, <2>3, Times DEF Before
    <3>2. Cardinality(Sent(a, Before(clock))) <= Cardinality(Sent(a, w.start..MaxTime))
      BY <1>1, <2>2, <3>1, SpansFinite, SentFewer
    <3>3. Cardinality(Sent(a, w.start..MaxTime)) <= w.count
      BY <2>2 DEF AccountsFor
    <3>4. Cardinality(Sent(a, Before(clock))) \in Nat /\ Cardinality(Sent(a, w.start..MaxTime)) \in Nat
      BY <1>1, <2>2, SpansFinite, SentFinite
    <3> QED BY <2>2, <3>2, <3>3, <3>4, Times
  <2>7. AccountsFor(new, a)
    <3>1. \A from \in 0..MaxTime : Cardinality(Sent(a, Stretch(from))) <= 2 * ProbeLimit
      BY <2>2, WithinBudget
    <3>2. \A time \in 0..MaxTime : time >= clock + ProbeWindow => sends[a][time] = 0
      BY <1>1, <2>4, Times
    <3>3. new.start = clock /\ new.count = 0
      OBVIOUS
    <3> HIDE DEF new
    <3> QED BY <1>1, <2>5, <2>6, <3>1, <3>2, <3>3 DEF AccountsFor
  <2>8. Window(a) = new
    BY <1>4 DEF Window
  <2> QED BY <1>1, <1>2, <2>7, <2>8, Times
<1>5. CASE a \notin DOMAIN windows
  <2>1. \A time \in 0..MaxTime : sends[a][time] = 0
    BY <1>5 DEF BudgetOf
  <2>2. ASSUME NEW times, times \subseteq Nat
        PROVE  Cardinality(Sent(a, times)) = 0
    <3>1. ASSUME NEW time \in times, time <= MaxTime
          PROVE  sends[a][time] = 0
      <4>1. time \in Nat /\ MaxTime \in Nat
        BY <2>2, Times
      <4> QED BY <2>1, <3>1, <4>1
    <3> QED BY <2>2, <3>1, NothingSent
  <2>3. AccountsFor(new, a)
    BY <1>1, <2>1, <2>2, SpansFinite, Times DEF AccountsFor
  <2>4. Window(a) = new
    BY <1>5 DEF Window
  <2> QED BY <1>1, <1>2, <2>3, <2>4, Times
<1> QED BY <1>3, <1>4, <1>5

(* A table with room for every address loses none of its windows. *)
LEMMA AllWindowsKept ==
    ASSUME EveryoneHasAWindow, WindowTypes, NEW a \in Addresses, AllowProbe(a)
    PROVE  /\ DOMAIN windows' = DOMAIN windows \cup {a}
           /\ windows'[a] = Counted(Window(a), Allowed(a))
           /\ \A b \in DOMAIN windows : b # a => windows'[b] = windows[b]
<1> DEFINE all == DOMAIN windows \cup {a}
<1>1. PICK kept \in Shrunk(all, a) :
        windows' = [b \in kept |-> IF b = a THEN Counted(Window(a), Allowed(a))
                                   ELSE windows[b]]
  BY DEF AllowProbe
<1>2. all \subseteq Addresses
  BY DEF WindowTypes
<1>3. IsFiniteSet(all) /\ Cardinality(all) <= Cardinality(Addresses)
  BY <1>2, FS_Subset DEF EveryoneHasAWindow
<1>4. Cardinality(all) \in Nat /\ Cardinality(Addresses) \in Nat
  BY <1>3, FS_CardinalityType DEF EveryoneHasAWindow
<1>5. Cardinality(all) <= MaxEntries
  BY <1>3, <1>4, Times DEF EveryoneHasAWindow
<1>6. kept \in SUBSET all /\ Cardinality(kept) = Cardinality(all)
  BY <1>5 DEF Shrunk
<1>7. kept = all
  BY <1>3, <1>6, FS_Subset
<1> QED BY <1>1, <1>7

(* One more probe now: the window it is counted in sees one more, and what *)
(* came before the window sees none.                                       *)
LEMMA OneMoreSent ==
    ASSUME WorldTypes, NEW a \in Addresses, NEW w \in WindowStates, AccountsFor(w, a),
           clock < w.start + ProbeWindow, clock' = clock,
           sends'[a] = [sends[a] EXCEPT ![clock] = @ + 1]
    PROVE  AccountsFor([w EXCEPT !.count = @ + 1], a)'
<1>1. clock \in 0..MaxTime /\ sends[a] \in [0..MaxTime -> Nat]
  BY DEF WorldTypes
<1>2. w.start \in Nat /\ w.count \in Nat /\ w.start <= clock
  BY DEF WindowStates, AccountsFor
<1> DEFINE v == [w EXCEPT !.count = @ + 1]
<1>3. v.start = w.start /\ v.count = w.count + 1
  BY DEF WindowStates
<1>4. sends'[a][clock] = sends[a][clock] + 1
      /\ \A time \in 0..MaxTime : time # clock => sends'[a][time] = sends[a][time]
  BY <1>1
<1>5. ASSUME NEW times, times \subseteq Nat, clock \notin times
      PROVE  Sent(a, times)' = Sent(a, times)
  BY <1>4, <1>5, Times DEF Sent
<1>6. Cardinality(Sent(a, w.start..MaxTime)') <= w.count + 1
  <2> DEFINE since == Sent(a, w.start..MaxTime)
             new == <<clock, sends[a][clock] + 1>>
  <2>1. IsFiniteSet(since) /\ Cardinality(since) \in Nat /\ Cardinality(since) <= w.count
    BY <1>2, SpansFinite, SentFinite DEF AccountsFor
  <2>2. Sent(a, w.start..MaxTime)' \subseteq since \cup {new}
    <3> SUFFICES ASSUME NEW p \in Sent(a, w.start..MaxTime)', p # new
                 PROVE  p \in since
      OBVIOUS
    <3>1. /\ p \in (w.start..MaxTime) \X (1..(2 * ProbeLimit + 1))
          /\ p[2] <= sends'[a][p[1]] /\ p[1] \in 0..MaxTime
      BY <1>2, Times DEF Sent
    <3>2. p[2] <= sends[a][p[1]]
      <4>1. CASE p[1] # clock
        BY <1>4, <3>1, <4>1
      <4>2. CASE p[1] = clock
        <5>1. p[2] # sends[a][clock] + 1
          BY <3>1, <4>2
        <5> QED BY <1>1, <1>4, <3>1, <4>2, <5>1
      <4> QED BY <4>1, <4>2
    <3> QED BY <3>1, <3>2 DEF Sent
  <2> HIDE DEF since, new
  <2>3. IsFiniteSet(since \cup {new}) /\ Cardinality(since \cup {new}) <= Cardinality(since) + 1
    <3>1. /\ IsFiniteSet(since \cup {new})
          /\ Cardinality(since \cup {new}) =
                IF new \in since THEN Cardinality(since) ELSE Cardinality(since) + 1
      BY <2>1, FS_AddElement
    <3> QED BY <2>1, <3>1
  <2>4. /\ Cardinality(Sent(a, w.start..MaxTime)') <= Cardinality(since \cup {new})
        /\ IsFiniteSet(Sent(a, w.start..MaxTime)')
    BY <2>2, <2>3, FS_Subset
  <2>5. Cardinality(Sent(a, w.start..MaxTime)') \in Nat /\ Cardinality(since \cup {new}) \in Nat
    BY <2>3, <2>4, FS_CardinalityType
  <2> QED BY <1>2, <2>1, <2>3, <2>4, <2>5
<1>7. Cardinality(Sent(a, Before(w.start))') <= ProbeLimit
  <2>1. clock \notin Before(w.start)
    BY <1>1, <1>2 DEF Before
  <2>2. Sent(a, Before(w.start))' = Sent(a, Before(w.start))
    BY <1>2, <1>5, <2>1, SpansFinite
  <2> QED BY <2>2 DEF AccountsFor
<1>8. ASSUME NEW from \in 0..MaxTime, from + ProbeWindow <= w.start
      PROVE  Cardinality(Sent(a, Stretch(from))') <= 2 * ProbeLimit
  <2>1. clock \notin Stretch(from)
    BY <1>1, <1>2, <1>8, Times DEF Stretch
  <2>2. Sent(a, Stretch(from))' = Sent(a, Stretch(from))
    BY <1>5, <2>1, SpansFinite
  <2> QED BY <1>8, <2>2 DEF AccountsFor
<1>9. \A time \in 0..MaxTime : time >= w.start + ProbeWindow => sends'[a][time] = 0
  BY <1>1, <1>2, <1>4, Times DEF AccountsFor
<1> HIDE DEF v
<1>10. AccountsFor(v, a)'
  BY <1>2, <1>3, <1>6, <1>7, <1>8, <1>9 DEF AccountsFor
<1> QED BY <1>10 DEF v

(* An address nothing is sent for and whose window stays. *)
LEMMA SameBudget ==
    ASSUME WorldTypes, WindowTypes, NEW b \in Addresses, BudgetOf(b), sends'[b] = sends[b],
           clock' \in 0..MaxTime, clock <= clock',
           b \in DOMAIN windows' <=> b \in DOMAIN windows,
           b \in DOMAIN windows => windows'[b] = windows[b]
    PROVE  BudgetOf(b)'
<1>1. clock \in 0..MaxTime
  BY DEF WorldTypes
<1>2. \A times : Sent(b, times)' = Sent(b, times)
  BY DEF Sent
<1>3. ASSUME NEW w \in WindowStates, AccountsFor(w, b)
      PROVE  AccountsFor(w, b)'
  BY <1>1, <1>2, <1>3 DEF AccountsFor, WindowStates
<1>4. \A time \in 0..MaxTime : time > clock' => sends'[b][time] = 0
  BY <1>1 DEF BudgetOf
<1>5. CASE b \in DOMAIN windows
  <2>1. PICK w \in WindowStates : w = windows[b]
    BY <1>5 DEF WindowTypes
  <2>2. AccountsFor(w, b)'
    BY <1>3, <1>5, <2>1 DEF BudgetOf
  <2>3. windows'[b] = w /\ b \in DOMAIN windows'
    BY <1>5, <2>1
  <2> QED BY <1>4, <2>2, <2>3 DEF BudgetOf
<1>6. CASE b \notin DOMAIN windows
  BY <1>4, <1>6 DEF BudgetOf
<1> QED BY <1>5, <1>6

LEMMA BudgetStep ==
    ASSUME Types, BudgetInv, Next
    PROVE  BudgetInv'
<1> SUFFICES ASSUME EveryoneHasAWindow
             PROVE  \A a \in Addresses : BudgetOf(a)'
  BY DEF BudgetInv, EveryoneHasAWindow
<1> USE DEF Types
<1>1. \A a \in Addresses : BudgetOf(a)
  BY DEF BudgetInv
<1>2. clock \in 0..MaxTime
  BY DEF WorldTypes
<1>3. ASSUME NEW t \in Tasks, Send(t)
      PROVE  \A a \in Addresses : BudgetOf(a)'
  <2>1. /\ AllowProbe(addr[t]) /\ Allowed(addr[t]) /\ clock' = clock
        /\ sends' = [sends EXCEPT ![addr[t]][clock] = @ + 1]
    BY <1>3 DEF Send
  <2>2. PICK a \in Addresses : a = addr[t]
    BY DEF TaskTypes
  <2>3. /\ sends'[a] = [sends[a] EXCEPT ![clock] = @ + 1]
        /\ \A b \in Addresses : b # a => sends'[b] = sends[b]
    BY <2>1, <2>2 DEF WorldTypes
  <2>4. /\ DOMAIN windows' = DOMAIN windows \cup {a}
        /\ windows'[a] = Counted(Window(a), Allowed(a))
        /\ \A b \in DOMAIN windows : b # a => windows'[b] = windows[b]
    BY <2>1, <2>2, AllWindowsKept
  <2>5. PICK w \in WindowStates : w = Window(a)
    BY <1>1, CurrentWindow
  <2>6. AccountsFor(w, a) /\ clock < w.start + ProbeWindow
    BY <1>1, <2>5, CurrentWindow
  <2>7. AccountsFor([w EXCEPT !.count = @ + 1], a)'
    BY <2>1, <2>3, <2>6, OneMoreSent
  <2>8. windows'[a] = [w EXCEPT !.count = @ + 1]
    BY <2>1, <2>2, <2>4, <2>5 DEF Counted
  <2>9. \A time \in 0..MaxTime : time > clock' => sends'[a][time] = 0
    BY <1>1, <1>2, <2>1, <2>3 DEF BudgetOf, WorldTypes
  <2>10. BudgetOf(a)'
    <3> DEFINE v == [w EXCEPT !.count = @ + 1]
    <3>1. AccountsFor(v, a)' /\ windows'[a] = v /\ a \in DOMAIN windows'
      BY <2>4, <2>7, <2>8
    <3> HIDE DEF v
    <3> QED BY <2>9, <3>1 DEF BudgetOf
  <2>11. ASSUME NEW b \in Addresses, b # a
         PROVE  BudgetOf(b)'
    BY <1>1, <1>2, <2>1, <2>3, <2>4, <2>11, SameBudget
  <2> QED BY <2>10, <2>11
<1>4. ASSUME NEW t \in Tasks, RefuseProbe(t)
      PROVE  \A a \in Addresses : BudgetOf(a)'
  <2>1. /\ AllowProbe(addr[t]) /\ ~Allowed(addr[t]) /\ clock' = clock /\ sends' = sends
    BY <1>4 DEF RefuseProbe, worldVars
  <2>2. PICK a \in Addresses : a = addr[t]
    BY DEF TaskTypes
  <2>3. a \in DOMAIN windows /\ Window(a) = windows[a]
    BY <2>1, <2>2, Times DEF Allowed, Window
  <2>4. /\ DOMAIN windows' = DOMAIN windows
        /\ \A b \in DOMAIN windows : windows'[b] = windows[b]
    BY <2>1, <2>2, <2>3, AllWindowsKept DEF Counted
  <2> QED BY <1>1, <1>2, <2>1, <2>4, SameBudget
<1>5. ASSUME UNCHANGED <<windows, sends>>, clock' \in {clock, clock + 1}, clock' \in 0..MaxTime
      PROVE  \A a \in Addresses : BudgetOf(a)'
  BY <1>1, <1>2, <1>5, SameBudget
<1>6. ASSUME NEW t \in Tasks, NEW jar \in Jars[t], NEW a \in Addresses, Authenticate(t, jar, a)
      PROVE  UNCHANGED <<windows, sends, clock>>
  BY <1>6 DEF Authenticate, storeVars, worldVars
<1>7. ASSUME NEW t \in Tasks,
             \/ RefuseOversize(t) \/ ServeCached(t) \/ Join(t) \/ ServeShared(t)
             \/ Answer(t) \/ Receive(t) \/ Cancel(t) \/ Finish(t)
      PROVE  UNCHANGED <<windows, sends, clock>>
  BY <1>7 DEF RefuseOversize, ServeCached, Join, ServeShared, Answer, Receive, Cancel, Finish,
              storeVars, worldVars
<1>8. CASE Tick
  <2>1. /\ UNCHANGED <<windows, sends>> /\ clock' \in {clock, clock + 1}
        /\ clock' \in 0..MaxTime
    BY <1>2, <1>8, Times DEF Tick, storeVars
  <2> QED BY <1>5, <2>1
<1>9. CASE \E l \in Logins : Revoke(l)
  <2>1. UNCHANGED <<windows, sends, clock>>
    BY <1>9 DEF Revoke, storeVars
  <2> QED BY <1>2, <1>5, <2>1
<1> QED BY <1>2, <1>3, <1>4, <1>5, <1>6, <1>7, <1>8, <1>9 DEF Next, Advance, Enter, Acquire

(* No stretch of time as long as a window sees more than two windows' worth *)
(* of probes from one address, for any limit, any length of the window and *)
(* any number of addresses the table has room for.                         *)
THEOREM ProbesAreBudgeted == Spec => []ProbeBudget
<1>1. Init => BudgetInv
  <2> SUFFICES ASSUME Init PROVE \A a \in Addresses : BudgetOf(a)
    BY DEF BudgetInv
  <2>1. DOMAIN windows = {} /\ sends = [a \in Addresses |-> [time \in 0..MaxTime |-> 0]]
    BY DEF Init
  <2> QED BY <2>1 DEF BudgetOf
<1>2. Types /\ BudgetInv /\ [Next]_vars => BudgetInv'
  <2>1. ASSUME BudgetInv, UNCHANGED vars
        PROVE  BudgetInv'
    BY <2>1 DEF vars, storeVars, worldVars, BudgetInv, EveryoneHasAWindow, BudgetOf,
       AccountsFor, Sent
  <2> QED BY <2>1, BudgetStep
<1>3. Types /\ BudgetInv => ProbeBudget
  <2> SUFFICES ASSUME Types, BudgetInv, EveryoneHasAWindow, NEW a \in Addresses,
                      NEW from \in 0..MaxTime
               PROVE  Cardinality(Sent(a, Stretch(from))) <= 2 * ProbeLimit
    BY DEF ProbeBudget, SentIn, EveryoneHasAWindow, Sent, Stretch
  <2>1. Window(a) \in WindowStates /\ AccountsFor(Window(a), a)
    BY CurrentWindow DEF Types, BudgetInv
  <2> QED BY <2>1, WithinBudget DEF Types
<1> QED BY <1>1, <1>2, <1>3, TypesHold, PTL DEF Spec
=============================================================================
