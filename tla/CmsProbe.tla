----------------------------- MODULE CmsProbe -----------------------------
(***************************************************************************)
(* CMSAuthenticator of src/cms_auth.py: every request of a contestant is   *)
(* authenticated by asking CMS about each login cookie the browser sent,   *)
(* behind a verdict cache, a probe budget per client address and one       *)
(* flight per (contest, cookie, address).                                  *)
(*                                                                         *)
(* The authenticator runs on one event loop, so its state changes only     *)
(* between two awaits: waiting for the lock of a flight and waiting for    *)
(* the answer of CMS.  The actions stop at those two places and at the     *)
(* start of each probe as well, which allows more interleavings than the   *)
(* event loop does and loses none.                                         *)
(***************************************************************************)
EXTENDS Naturals, FiniteSets

CONSTANTS
    Tasks,        \* requests and sockets being authenticated at once
    Cookies,      \* values of CMS login cookies
    Contest,      \* the contest a cookie is for, as its rank in sorted order
    User,         \* the contestant CMS issued it to
    Login,        \* what CMS accepts or turns away as one: the user's part in
                  \* a contest, or in all of them
    Oversize,     \* cookies of more than MAX_CMS_COOKIE_BYTES
    Refreshes,    \* the cookies CMS may set when it accepts a cookie
    Jars,         \* the sets of cookies the browser behind each task may send
    Addresses,    \* normalised client addresses
    Flights,      \* identities of _Flight objects
    PositiveTtl,  \* settings.cms_positive_cache_seconds
    NegativeTtl,  \* settings.cms_negative_cache_seconds
    ProbeLimit,   \* settings.cms_probe_rate_limit_count
    ProbeWindow,  \* settings.cms_probe_rate_limit_window_seconds
    MaxEntries,   \* settings.cms_cache_max_entries
    MaxTime,      \* BOUND: last reading of the monotonic clock
    None          \* no cookie, no flight, no task

(* When CMS was asked about a login it accepted, and heard. *)
Vouches == [asked : 0..MaxTime, heard : 0..MaxTime]

ASSUME ProbeAssumption ==
    /\ Contest \in [Cookies -> Nat] /\ Oversize \subseteq Cookies
    /\ Refreshes \in [Cookies -> SUBSET Cookies]
    /\ \A c \in Cookies : \A d \in Refreshes[c] :
          Contest[d] = Contest[c] /\ User[d] = User[c] /\ Login[d] = Login[c]
    /\ \A t \in Tasks : \A jar \in Jars[t] :
          jar \subseteq Cookies /\ jar # {} /\ \A c, d \in jar : Contest[c] = Contest[d] => c = d
    /\ IsFiniteSet(Tasks) /\ IsFiniteSet(Flights)
    /\ Cardinality(Flights) >= Cardinality(Tasks)
    /\ {PositiveTtl, NegativeTtl, MaxTime} \subseteq Nat
    /\ {ProbeLimit, ProbeWindow, MaxEntries} \subseteq Nat \ {0}
    /\ Addresses # {}
    /\ None \notin Tasks \cup Cookies \cup Flights /\ None \notin Vouches

VARIABLES
    pc,       \* where the coroutine of each task is suspended
    addr,     \* its client address
    todo,     \* the cookies it has not asked about yet
    got,      \* the verdicts it has, by cookie
    joined,   \* the flight it is a user of
    sentAt,   \* when it called send
    began,    \* when authenticate was called
    reply,    \* what CMS answered
    flights,  \* _flights: the flight of each key
    holder,   \* the task inside each flight's lock
    cache,    \* _cache: verdict and expiry of the keys that have an entry
    windows,  \* _probe_windows: start and count of the addresses seen
    clock,    \* _clock(): time.monotonic
    goneAt,   \* when CMS stopped accepting the cookies of a login
    sends,    \* history: how many probes each address sent at each time
    vouched   \* history: when CMS was asked, and heard, to accept a login last

taskVars == <<pc, addr, todo, got, joined, sentAt, began, reply>>
flightVars == <<flights, holder>>
storeVars == <<cache, windows>>
worldVars == <<clock, goneAt, sends, vouched>>
vars == <<taskVars, flightVars, storeVars, worldVars>>

Keys == Cookies \X Addresses
Users == {User[c] : c \in Cookies}
Logins == {Login[c] : c \in Cookies}
Statuses == {"authenticated", "unauthenticated", "unavailable"}
Replies == [kind : {"yes", "no", "down"}, refreshed : Cookies \cup {None}]
Down == [kind |-> "down", refreshed |-> None]

-----------------------------------------------------------------------------
(* The probe a task is at: sorted(credentialed_contests). *)

Current(t) == CHOOSE c \in todo[t] : \A d \in todo[t] : Contest[c] <= Contest[d]
Key(t) == <<Current(t), addr[t]>>

(* _cache_get: an entry is served until its expiry and popped after it. *)
\* Mutant: served one tick too long.
ServableMut(k) == k \in DOMAIN cache /\ cache[k].expires >= clock
Servable(k) == k \in DOMAIN cache /\ cache[k].expires > clock

Popped(k) == [j \in DOMAIN cache \ {k} |-> cache[j]]

(* An OrderedDict that has to shrink loses its oldest entries; which ones   *)
(* those are is left open, but never the one just put.                     *)
Shrunk(all, last) ==
    {kept \in SUBSET all :
        /\ last \in kept
        /\ Cardinality(kept) =
              IF Cardinality(all) <= MaxEntries THEN Cardinality(all) ELSE MaxEntries}

Ttl(status) == IF status = "authenticated" THEN PositiveTtl ELSE NegativeTtl

(* _cache_put, under the probed cookie and the one CMS replaced it by. *)
CachePut(k, status, refreshed) ==
    IF Ttl(status) = 0 THEN UNCHANGED cache
    ELSE LET last == IF refreshed = None THEN k ELSE <<refreshed, k[2]>>
             live == {j \in DOMAIN cache : cache[j].expires > clock}
             entry == [status |-> status, expires |-> clock + Ttl(status)]
         IN \E kept \in Shrunk(live \cup {k, last}, last) :
               cache' = [j \in kept |-> IF j \in {k, last} THEN entry ELSE cache[j]]

(* _allow_probe: the window of the address, begun anew when it is over. *)
Window(a) ==
    IF a \in DOMAIN windows /\ clock < windows[a].start + ProbeWindow
    THEN windows[a] ELSE [start |-> clock, count |-> 0]

\* Mutant: one probe more than the limit.
AllowedMut(a) == Window(a).count <= ProbeLimit
Allowed(a) == Window(a).count < ProbeLimit

Counted(w, allowed) == IF allowed THEN [w EXCEPT !.count = @ + 1] ELSE w

AllowProbe(a) ==
    \E kept \in Shrunk(DOMAIN windows \cup {a}, a) :
        windows' = [b \in kept |-> IF b = a THEN Counted(Window(a), Allowed(a))
                                   ELSE windows[b]]

-----------------------------------------------------------------------------
(* Flights. *)

Flying(t) == pc[t] \in {"waiting", "sent", "answered"}
Probing(t) == pc[t] \in {"sent", "answered"}
UsersOf(f) == {t \in Tasks : Flying(t) /\ joined[t] = f}
UnusedFlight(f) == UsersOf(f) = {} /\ \A k \in Keys : flights[k] # f

(* Any unused one will do: a flight is only told apart from the others. *)
NewFlight(f) == UnusedFlight(f) /\ f = CHOOSE g \in Flights : UnusedFlight(g)

(* The finally clause: the lock is released, and the last user of a flight *)
(* takes it out of the table.                                              *)
\* Mutant: whoever leaves first takes the flight out of the table.
LeaveMut(t) ==
    /\ holder' = [holder EXCEPT ![joined[t]] = IF @ = t THEN None ELSE @]
    /\ flights' = [flights EXCEPT ![Key(t)] = IF @ = joined[t] THEN None ELSE @]
\* Mutant: nobody does.
LeaveMutKeep(t) ==
    /\ holder' = [holder EXCEPT ![joined[t]] = IF @ = t THEN None ELSE @]
    /\ UNCHANGED flights
\* Mutant: the lock of a flight others wait for is not released.
LeaveMutHold(t) ==
    /\ holder' = [holder EXCEPT ![joined[t]] =
          IF @ = t /\ UsersOf(joined[t]) = {t} THEN None ELSE @]
    /\ flights' = [flights EXCEPT ![Key(t)] =
          IF UsersOf(joined[t]) = {t} /\ @ = joined[t] THEN None ELSE @]
Leave(t) ==
    /\ holder' = [holder EXCEPT ![joined[t]] = IF @ = t THEN None ELSE @]
    /\ flights' = [flights EXCEPT ![Key(t)] =
          IF UsersOf(joined[t]) = {t} /\ @ = joined[t] THEN None ELSE @]

(* A probe returns its verdict and the next contest is asked. *)
Return(t, status) ==
    /\ got' = [got EXCEPT ![t] = @ \cup {[cookie |-> Current(t), status |-> status]}]
    /\ todo' = [todo EXCEPT ![t] = @ \ {Current(t)}]
    /\ pc' = [pc EXCEPT ![t] = IF todo[t] = {Current(t)} THEN "done" ELSE "probe"]
    /\ joined' = [joined EXCEPT ![t] = None]
    /\ sentAt' = [sentAt EXCEPT ![t] = 0]
    /\ reply' = [reply EXCEPT ![t] = Down]
    /\ UNCHANGED <<addr, began>>

Suspend(t, where) ==
    /\ pc' = [pc EXCEPT ![t] = where]
    /\ UNCHANGED <<addr, todo, got, began>>

-----------------------------------------------------------------------------
(* authenticate *)

Authenticate(t, jar, a) ==
    /\ pc[t] = "idle"
    /\ pc' = [pc EXCEPT ![t] = "probe"]
    /\ todo' = [todo EXCEPT ![t] = jar]
    /\ addr' = [addr EXCEPT ![t] = a]
    /\ got' = [got EXCEPT ![t] = {}]
    /\ began' = [began EXCEPT ![t] = clock]
    /\ UNCHANGED <<joined, sentAt, reply, flightVars, storeVars, worldVars>>

RefuseOversize(t) ==
    /\ pc[t] = "probe"
    /\ Current(t) \in Oversize
    /\ Return(t, "unauthenticated")
    /\ UNCHANGED <<flightVars, storeVars, worldVars>>

ServeCached(t) ==
    /\ pc[t] = "probe"
    /\ Current(t) \notin Oversize
    /\ Servable(Key(t))
    /\ Return(t, cache[Key(t)].status)
    /\ UNCHANGED <<flightVars, storeVars, worldVars>>

(* No servable entry: become a user of the key's flight, a new one if there *)
(* is none, and wait for its lock.                                         *)
Join(t) ==
    /\ pc[t] = "probe"
    /\ Current(t) \notin Oversize
    /\ ~Servable(Key(t))
    /\ cache' = Popped(Key(t))
    /\ \E f \in Flights :
        /\ IF flights[Key(t)] = None
           THEN NewFlight(f) /\ flights' = [flights EXCEPT ![Key(t)] = f]
           ELSE f = flights[Key(t)] /\ UNCHANGED flights
        /\ joined' = [joined EXCEPT ![t] = f]
    /\ Suspend(t, "waiting")
    /\ UNCHANGED <<sentAt, reply, holder, windows, worldVars>>

LockFree(t) == pc[t] = "waiting" /\ holder[joined[t]] = None

(* Inside the lock the cache is asked again: the task that held the lock   *)
(* before may have filled it.                                              *)
ServeShared(t) ==
    /\ LockFree(t)
    /\ Servable(Key(t))
    /\ Return(t, cache[Key(t)].status)
    /\ Leave(t)
    /\ UNCHANGED <<storeVars, worldVars>>

RefuseProbe(t) ==
    /\ LockFree(t)
    /\ ~Servable(Key(t))
    /\ ~Allowed(addr[t])
    /\ AllowProbe(addr[t])
    /\ CachePut(Key(t), "unavailable", None)
    /\ Return(t, "unavailable")
    /\ Leave(t)
    /\ UNCHANGED worldVars

Send(t) ==
    /\ LockFree(t)
    /\ ~Servable(Key(t))
    /\ Allowed(addr[t])
    /\ AllowProbe(addr[t])
    /\ cache' = Popped(Key(t))
    /\ holder' = [holder EXCEPT ![joined[t]] = t]
    /\ sentAt' = [sentAt EXCEPT ![t] = clock]
    /\ sends' = [sends EXCEPT ![addr[t]][clock] = @ + 1]
    /\ Suspend(t, "sent")
    /\ UNCHANGED <<joined, reply, flights, clock, goneAt, vouched>>

(* The answer of CMS, or the error, comes back: classified, cached under   *)
(* the cookie and under its replacement, and returned.                     *)
StatusOf(r) ==
    CASE r.kind = "yes" -> "authenticated"
      [] r.kind = "no" -> "unauthenticated"
      [] r.kind = "down" -> "unavailable"

Receive(t) ==
    /\ pc[t] = "answered"
    /\ CachePut(Key(t), StatusOf(reply[t]), reply[t].refreshed)
    /\ Return(t, StatusOf(reply[t]))
    /\ Leave(t)
    /\ vouched' = IF reply[t].kind = "yes"
                  THEN [vouched EXCEPT ![Login[Current(t)]] =
                           [asked |-> sentAt[t], heard |-> clock]]
                  ELSE vouched
    /\ UNCHANGED <<windows, clock, goneAt, sends>>

(* The coroutine is cancelled where it is suspended. *)
Cancel(t) ==
    /\ Flying(t)
    /\ Leave(t)
    /\ pc' = [pc EXCEPT ![t] = "idle"]
    /\ todo' = [todo EXCEPT ![t] = {}]
    /\ got' = [got EXCEPT ![t] = {}]
    /\ joined' = [joined EXCEPT ![t] = None]
    /\ sentAt' = [sentAt EXCEPT ![t] = 0]
    /\ began' = [began EXCEPT ![t] = 0]
    /\ reply' = [reply EXCEPT ![t] = Down]
    /\ UNCHANGED <<addr, storeVars, worldVars>>

(* authenticate has every verdict and concludes from them: he is u when     *)
(* every contest answered, some accepted him and all that did call him so. *)
Accepting(t) == {v \in got[t] : v.status = "authenticated"}

Passes(t, u) ==
    /\ pc[t] = "done"
    /\ \A v \in got[t] : v.status # "unavailable"
    /\ {User[v.cookie] : v \in Accepting(t)} = {u}

Finish(t) ==
    /\ pc[t] = "done"
    /\ pc' = [pc EXCEPT ![t] = "idle"]
    /\ got' = [got EXCEPT ![t] = {}]
    /\ began' = [began EXCEPT ![t] = 0]
    /\ UNCHANGED <<addr, todo, joined, sentAt, reply, flightVars, storeVars, worldVars>>

-----------------------------------------------------------------------------
(* CMS and the clock. *)

Gone(l) == goneAt[l] <= MaxTime

Answers(c) ==
    {Down} \cup
    IF Gone(Login[c]) THEN {[kind |-> "no", refreshed |-> None]}
    ELSE {[kind |-> "yes", refreshed |-> d] : d \in Refreshes[c] \cup {None}}

(* send returns, or one of its phases times out, and however late: the      *)
(* client's timeout (cms_timeout_seconds) is one of httpx's, for each of   *)
(* waiting for a connection, connecting, writing and every single read, so *)
(* nothing bounds a send as a whole.                                       *)
Answer(t) ==
    /\ pc[t] = "sent"
    /\ \E r \in Answers(Current(t)) : reply' = [reply EXCEPT ![t] = r]
    /\ Suspend(t, "answered")
    /\ UNCHANGED <<joined, sentAt, flightVars, storeVars, worldVars>>

(* The contestant logs out, is hidden, or the login expires. *)
Revoke(l) ==
    /\ ~Gone(l)
    /\ goneAt' = [goneAt EXCEPT ![l] = clock]
    /\ UNCHANGED <<taskVars, flightVars, storeVars, clock, sends, vouched>>

Tick ==
    /\ clock < MaxTime
    /\ clock' = clock + 1
    /\ UNCHANGED <<taskVars, flightVars, storeVars, goneAt, sends, vouched>>

-----------------------------------------------------------------------------
Init ==
    /\ pc = [t \in Tasks |-> "idle"]
    /\ addr \in [Tasks -> {CHOOSE a \in Addresses : TRUE}]
    /\ todo = [t \in Tasks |-> {}]
    /\ got = [t \in Tasks |-> {}]
    /\ joined = [t \in Tasks |-> None]
    /\ sentAt = [t \in Tasks |-> 0]
    /\ began = [t \in Tasks |-> 0]
    /\ reply = [t \in Tasks |-> Down]
    /\ flights = [k \in Keys |-> None]
    /\ holder = [f \in Flights |-> None]
    /\ cache = [k \in {} |-> None]
    /\ windows = [a \in {} |-> None]
    /\ clock = 0
    /\ goneAt = [l \in Logins |-> MaxTime + 1]
    /\ sends = [a \in Addresses |-> [time \in 0..MaxTime |-> 0]]
    /\ vouched = [l \in Logins |-> None]

(* What the event loop runs by itself once a request is in. *)
Enter(t) == RefuseOversize(t) \/ ServeCached(t) \/ Join(t)
Acquire(t) == ServeShared(t) \/ RefuseProbe(t) \/ Send(t)
Advance(t) == Enter(t) \/ Acquire(t) \/ Answer(t) \/ Receive(t)

Next ==
    \/ \E t \in Tasks :
          \/ \E jar \in Jars[t], a \in Addresses : Authenticate(t, jar, a)
          \/ Advance(t) \/ Cancel(t) \/ Finish(t)
    \/ \E l \in Logins : Revoke(l)
    \/ Tick

Spec == Init /\ [][Next]_vars

(* Suspended coroutines are resumed, asyncio.Lock admits its waiters in    *)
(* the order they came, and a send ends: each of its phases is bounded by  *)
(* the timeout, and CMS does not go on with one reply for ever.            *)
FairSpec == Spec /\ \A t \in Tasks : SF_vars(Advance(t))

-----------------------------------------------------------------------------
(* What is promised.                                                       *)

Entries == [status : Statuses, expires : 0..(MaxTime + PositiveTtl + NegativeTtl)]
WindowStates == [start : 0..MaxTime, count : 0..ProbeLimit]

(* Every value is of its kind; the tables stay within their size and a     *)
(* window never counts past the limit, however often it is refused.        *)
TypeOK ==
    /\ pc \in [Tasks -> {"idle", "probe", "waiting", "sent", "answered", "done"}]
    /\ addr \in [Tasks -> Addresses]
    /\ todo \in [Tasks -> SUBSET Cookies]
    /\ got \in [Tasks -> SUBSET [cookie : Cookies, status : Statuses]]
    /\ joined \in [Tasks -> Flights \cup {None}]
    /\ sentAt \in [Tasks -> 0..MaxTime]
    /\ began \in [Tasks -> 0..MaxTime]
    /\ reply \in [Tasks -> Replies]
    /\ flights \in [Keys -> Flights \cup {None}]
    /\ holder \in [Flights -> Tasks \cup {None}]
    /\ DOMAIN cache \subseteq Keys /\ Cardinality(DOMAIN cache) <= MaxEntries
    /\ \A k \in DOMAIN cache : cache[k] \in Entries
    /\ DOMAIN windows \subseteq Addresses /\ Cardinality(DOMAIN windows) <= MaxEntries
    /\ \A a \in DOMAIN windows : windows[a] \in WindowStates
    /\ clock \in 0..MaxTime
    /\ goneAt \in [Logins -> 0..(MaxTime + 1)]
    /\ sends \in [Addresses -> [0..MaxTime -> Nat]]
    /\ vouched \in [Logins -> Vouches \cup {None}]

(* However requests arrive, wait, fail and are cancelled, no two of them   *)
(* ask CMS about one cookie from one address at the same time: what the    *)
(* flights of _probe are for.                                              *)
SingleFlight ==
    \A s, t \in Tasks : Probing(s) /\ Probing(t) /\ Key(s) = Key(t) => s = t

(* A flight is in the table exactly while somebody uses it: no completion, *)
(* refusal or cancellation leaks one, and nobody is left waiting on a      *)
(* flight that newcomers cannot find any more.                             *)
FlightsInUse ==
    /\ \A k \in Keys : flights[k] # None => UsersOf(flights[k]) # {}
    /\ \A t \in Tasks : Flying(t) => flights[Key(t)] = joined[t]

(* Whoever authenticate lets pass was accepted by CMS, in each contest it  *)
(* counts for him, in an answer heard no longer than the life of a cached  *)
(* verdict before his request came, to a probe sent before CMS turned him  *)
(* away: no flight shared, cache read again, refreshed cookie or wait for  *)
(* the contests probed later lets a verdict serve a request that came      *)
(* later.  A slow send makes the answer late; it is not assumed short.     *)
Fresh(t, l) ==
    /\ vouched[l] \in Vouches
    /\ \/ began[t] < vouched[l].heard + PositiveTtl
       \/ began[t] <= vouched[l].heard
    /\ Gone(l) => vouched[l].asked <= goneAt[l]

FreshVerdicts ==
    \A t \in Tasks, u \in Users :
        Passes(t, u) => \A v \in Accepting(t) : Fresh(t, Login[v.cookie])

(* While the window table holds every address, no stretch of time as long  *)
(* as a window sees more than two windows' worth of probes from one        *)
(* address, whatever the cache and the flights let through.                *)
SentIn(a, from) ==
    {p \in (from..(from + ProbeWindow - 1)) \X (1..(2 * ProbeLimit + 1)) :
        p[1] <= MaxTime /\ p[2] <= sends[a][p[1]]}

ProbeBudget ==
    IsFiniteSet(Addresses) /\ Cardinality(Addresses) <= MaxEntries =>
        \A a \in Addresses, from \in 0..MaxTime :
            Cardinality(SentIn(a, from)) <= 2 * ProbeLimit

(* Every request gets its verdicts, or its coroutine is cancelled, again   *)
(* and again: nobody waits forever behind a lock whose holder was          *)
(* cancelled.                                                              *)
EveryoneAnswered ==
    \A t \in Tasks : []<>(pc[t] \in {"done", "idle"})

=============================================================================
