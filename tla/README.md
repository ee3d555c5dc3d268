# Formal model of the toilet service

TLA+ modules, TLC configurations and TLAPS proofs for the toilet service in
`src/`: contestants ask for a toilet break, the service routes each request to
the toilets of the contestant's class, admits requests in order as places come
free, and keeps staff informed through alerts and live pages.

Line numbers refer to the sources in `src/`. Run everything inside this directory:

    tlc -workers 2 -config queue.cfg MCToiletQueue      # or another run below
    tlapm ToiletQueueProofs.tla                         # or another *Proofs module

## Inventory of the system

The service is one process: FastAPI handlers on one event loop, a SQLite
database, and `MutationService` (service.py), which runs every write under a
process-wide lock and one `BEGIN IMMEDIATE` transaction (`_run`, 280-295).

| Component | State it keeps | Operations | What makes it correct | Modelled in |
|---|---|---|---|---|
| Request queue (service.py 1726-2003) | `requests` | create, cancel, return, resolve support | one open request of a kind per student; visits left alone | `ToiletQueue` |
| Routing and alerts (1413-1660, 2910-2947) | `request_toilet_locks`, `routing_mode`, `operational_alerts` | `_rebuild_route`, `_ensure_alert`, `resolve_alert` | a route is safe under the present mapping; alerts tell the truth | `ToiletQueue` |
| Scheduler (1662-1722) | none of its own | `_schedule` | capacity, seniority, nobody overlooked | `Scheduler`, `SchedulerLoop` |
| Toilet configuration (2014-2243, 2813-2906) | `toilets`, `classes` | create, capacity, mapping, delete (rename changes a name only) | mappings live; deletion the only thing that ends a visit early | `ToiletQueue` |
| Rate limiting (372-490) | `rate_limit_buckets` | consume per window | count stays in range, first rejection told apart | `ToiletQueue` (student bucket) |
| Operators and sessions (service.py 721-1158, main.py 712-771, 1278-1356) | `operator_accounts`, `sessions`, `Hub.staff` | upsert, delete, login, issue, revoke, purge, staff sockets | an administrator remains; no session or socket outlives its authority | `StaffAccess` |
| Roster synchronisation (service.py 548-694, main.py 507-548, control_client.py) | `users`, a failure flag, an asyncio lock | start, call by an administrator, failure, refusal | a roster is one edition of the list, never an older one | `Roster` |
| CMS authentication (cms_auth.py) | verdict cache, flights, probe windows | authenticate, probe, coalesce, cancel | nobody passes on an answer too old for his request; one probe per cookie; budget per address | `CmsProbe` |
| Contestant access (auth.py, main.py 666-912, service.py 927-1158) | companion sessions, the browser's cookies and page | identify, match or issue a session, act, log out | a request acts for whom its page greets; a logout holds | `ContestantAccess` |
| Live updates (ws.py, main.py 281-306, 494-504, 1278-1356, the pages' scripts) | hub, sockets, broadcast tasks | notify, broadcast, connect, drop, poll | a socket misses no change; pages converge | `LiveUpdates` |
| Schema migration (migrations.py) | the schema, its version, all tables | upgrade in several transactions at every start | every interruption can be continued to the same result | `SchemaUpgrade` |
| Legacy class keys (service.py 2245-2811) | rows, snapshots, routes, scopes, sessions that name a generated key | `reconcile_legacy_class_mapping_keys` | no toilet is lost, one pass is enough | `LegacyKeys`, `StaffAccess` |
| Assignment normalisation, Olimp-control client (1188-1403, control_client.py) | none beyond a lookup | fetch, refuse, normalise | the snapshot says what the answer says; no toilet is forgotten | `Assignment` |
| HTTP pages, settings, passwords, deployment | none or none of interest | | | no |

Interactions. Handlers await Olimp-control (assignment, catalogue) before they
call `MutationService` in a thread; the operation reads mapping and queue
afresh, so what a handler read before the await is data it passes in. A
successful mutation returns hints that `_notify` turns into a broadcast task,
which reads the database again. A contestant's request is authenticated by
`CMSAuthenticator` and looked up in the roster; an operator's by a session row
that copies the account. Every start upgrades the schema, makes the
environment's administrator, purges expired sessions, synchronises the roster and
reconciles legacy class keys, in this order, and then serves. Nothing in the
database is shared with other writers.

What is hard here:

* every operation that frees, adds or removes a place, or changes a route, must
  end with a pass of `_schedule`, over state it has just changed in the same
  session (which does not flush by itself);
* requests need *sets* of toilets, so first-come-first-served means barring
  everybody who overlaps with somebody further up;
* deletion of a toilet takes lock rows, mappings and visits away at once and
  turns active requests into pending ones, with their old seniority;
* the wall clock orders the queue and is not monotone;
* alerts are derived from routes, and can also be closed by hand in between;
* a contestant's identity is in two sorts of cookies that any answer may replace, and
  in the page, while requests that read them earlier are under way;
* authority is copied from account to login to session to handler and to socket,
  and can be taken away between any two copies;
* coroutines that share a cache, a flight and a lock are cancelled where they
  are suspended;
* a broadcast reads, awaits and sends, while others commit, connect and leave;
* the schema upgrade is durable in many pieces, and what it converts is read by
  later pieces and by the next attempt.

`PROJECT.json` lists each hazard at its line with the property that watches it,
or says why none does.

## Modules

| Module | What it is | Composes |
|---|---|---|
| `Scheduler` | The admission rule of `_schedule` as a condition `IsSchedule` on the set it activates. | |
| `SchedulerLoop` | `_schedule` as the loop of the code, a round a step over the sorted queue with `free` and `barred`, from any queue, compared with `IsSchedule`. | `Scheduler` |
| `ToiletAccess` | The abstract promise: who holds which toilets, no more than there is room. | |
| `ToiletQueue` | The operations of `MutationService` on requests, routes, alerts, toilets, mappings and the student's bucket. | `Scheduler`, `Routing`; implements `ToiletAccess` |
| `Routing` | What `_rebuild_route` makes of a snapshot and a mapping, as operators. | |
| `Assignment` | One lookup at Olimp-control: what the client refuses and how the service normalises the rest. | `Routing` |
| `LegacyKeys` | The queue on an upgraded database, with the reconciliation of class keys as a further operation. | `ToiletQueue` |
| `StaffAccess` | Accounts, logins, sessions, admitted handlers and staff sockets. | |
| `Roster` | Synchronisations of several callers, the list they read and the process they run in. | |
| `CmsProbe` | `authenticate` and `_probe` as coroutines, CMS and the clock. | |
| `ContestantAccess` | A browser with its cookies and page, its requests under way, companion sessions, and answers in any order. | |
| `LiveUpdates` | Changes, broadcast tasks, sockets and the polling of pages. | |
| `SchemaUpgrade` | `upgrade_schema` as the sequence of what becomes durable, with crashes. | |
| `MC...` | Values of the constants for TLC, symmetry and views. | |
| `...Proofs` | Theorems about the module they are named after; `SchedulerProofs` also about `SchedulerLoop`, `ToiletQueueProofs` about `LegacyKeys`, and `ControlProofs` about the two modules on Olimp-control, `Roster` and `Assignment`. | |

### How ToiletQueue corresponds to the code

State. `capacity[t]` is the row of toilet `t` (0: no such row; the database has
`CHECK capacity > 0`), `retired` the deleted ids that AUTOINCREMENT never
reuses. `mapping[c]` is the `classes` row of `c`: `NoRow`, `NoToilet` (a row
whose `toilet_id` is NULL) or a toilet. `status`, `owner`, `kind`, `assigned`,
`created`, `activated`, `mode`, `blocked` are columns of `requests`, by id;
status `"none"` means not inserted. `locks[r]` are the rows of
`request_toilet_locks`, `alerts[r]` the codes of the alerts of `r` that are not
resolved, `spent[s]` the count of the student's current window and `now` the
reading of the injectable clock.

Actions. One action is one operation under `_run`, hence atomic. Its guards are
the checks of the code in order, the last thing it does is what the code does
last: `Reroute` is `_rebuild_route` for a set of requests (each is rebuilt from
its own snapshot, so the order does not matter), `Schedule` is the final pass,
`NoPass` says the operation has none. An operation rejected before it changed
anything is a disabled action. One rejected after spending the budget
(`_CommitRejection`) is a `Refuse...` action that keeps the spent attempt. A
rejected bucket counts one past the limit, which is how the code audits the first
rejection only.

`Schedule` does not run the loop; it takes *the* set that satisfies
`IsSchedule`. That the loop computes that set and that there is no other is
`LoopIsTheSchedule`, checked by run `loop` and proved for every queue
(`LoopComputesTheSchedule`).

`AssignClassToilet` uses `Visible(c)` instead of the new mapping: sessions are
made with `autoflush=False` (database.py 50-56), so the query in
`_rebuild_route` does not return a `classes` row the operation has just added.
See *Findings*.

Abstracted: names, wording, locales, audit rows, the broadcast hints, the exact
`completed_at` (any value between activation and now is accepted, so a return is
possible exactly when `activated[r] <= now`), timestamps of alerts. A bucket's
window is ended by `NewWindow` for all students at once. Snapshots are the
outcomes `_normalize_assignment` produces, chosen freely at each request; that
covers a student who moved between the lookup and the operation. Toilets get any
unused id rather than the next one, which symmetry makes the same.

### How Assignment corresponds to the code

`Acceptable` is every check of `student_assignment` that relates parts of an answer to
each other; a check of one field's type is left out, as such an answer is refused in the
same way. `stage` and `at` are where the lookup is, `sources`, `malformed` and `codes`
the locals of `_normalize_assignment`. `Unreachable` is any other `ControlAPIError`,
after which the endpoint passes `None` (main.py 877-882). `TakeComputer` and `TakeClass`
are the rounds of the two loops of `_normalize_assignment`, which share `add_class` and
its `class_sources` (`sources`). Of the codes the snapshot keeps those `_rebuild_route`
reads. What comes out is what `QueueAssumption` requires of the snapshots `ToiletQueue`
is given (`AsDescribed` says so), so the two modules fit together, and
`ComputersCovered` routes the snapshot by the operators the queue uses.

### How LegacyKeys corresponds to the code

`Reconcile(cat, neutral)` is `reconcile_legacy_class_mapping_keys` for the
catalogue `cat`: `Resolved` are the legacy rows with one exact live namesake and
no rival among the unmatched rows, `MappingAfter` the rows after merging and
deleting, `Rekeyed` the snapshots, and the requests that wait are rebuilt and the
queue scheduled, in the same transaction. Whether the name of an unmatched row of
a real class is its own key (and so matches nothing) depends on who wrote it; that
choice is `neutral`. `LegacyInit` is a database the upgrade left, one of
`Databases`. The part about operators' scopes is `StaffAccess!Rescope`, because it
shares no state with this one. A request opened later may name a legacy key
again, which the application does not do and which only adds behaviours.

`RouteCovers` is not promised here. A live class may get its first toilet from a
legacy row, and only requests that named the legacy key are rebuilt
(service.py 2387); one that named the live class stays on the all-toilets fallback until
its next rebuild, and that fallback may be older than the toilet. `RouteExact` is what
holds: whoever is not on the fallback waits for exactly the toilets of the classes.

### How StaffAccess corresponds to the code

`accounts[o]` is the row of `operator_accounts`, `sessions[k]` that of `sessions`
with the authority copied into it and what is `left` of its time to live.
`logins[h]` is what `operator_login` keeps between `authenticate_operator` and
`issue_session`; `acting` are the handlers that passed `require_admin` and have
yet to call the service; `sockets[w]` is a socket of `Hub.staff` with the session
it was opened with, and whether its deadline has been set (`held`). `Change` is
the common part of an upsert and a deletion: the account, the revocation of its
sessions, and nothing for logins and sockets. `Restart` is the lifespan
(main.py 616-639) with an `admin_username` set: the upsert of that account if the
name is free, and the purge of expired sessions. Times are kept as remainders, so behaviours are not bounded. `overtaken` and
`lapsed` are history.

A login that is overtaken by a change of its account issues a session with the
old authority, and even for an account that is gone; it ends with its time to
live. `SessionsCurrent` leaves out exactly those sessions. No document of the
repository says they cannot exist, so they are named here and not as a finding.

### How Roster corresponds to the code

`line` is the asyncio lock (its holder first), `step` and `answer` where each call
is and what it was told, `failure` is `app.state.student_sync_failure`. A list is a
set of entries (id, userid as spelled). `Ask` holds what `students()` accepts,
`Install` what `sync_students` does in one transaction, `Refuse` the `ServiceError`
it raises and which nothing catches, `Fail` the handled `ControlAPIError`. The
process is `"starting"` until the lifespan's call is over. `installed` and
`renewed` are history.

### How CmsProbe corresponds to the code

The state is that of `CMSAuthenticator`: `_cache`, `_flights` with the lock of each,
`_probe_windows`. A task is suspended before a probe, while it waits for the lock
of its flight, or while CMS answers; each action runs from one such place to the
next. `Cancel` is the cancellation of the coroutine at a suspension, with the
`finally` clause. The tables are `OrderedDict`s that are cut to their maximal size;
which of the other entries goes is left open. `Jars` are the sets of cookies each
browser may send, one cookie per contest, which are probed in turn. `Passes` is the
conclusion `authenticate` draws once it has every verdict (cms_auth.py 423-449), which
may be long after the first of them, since later contests wait for their own locks and
answers. (`ContestantAccess!Identify` is the same conclusion in one step, for the
properties that depend on whom it names.)

`Answer` comes at any time: `httpx.Timeout(cms_timeout_seconds)` (173) limits each phase
of a send, that is waiting for a connection, connecting, writing and each read, and not
the send as a whole. `goneAt`, `sends` and `vouched` are what the properties need to know
of the world: when CMS stopped accepting a login, what was sent, and when the last probe
that accepted a login was sent and answered. A `Login` is what CMS turns away as one,
which may be a contestant's part in one contest or in all of them.

### How ContestantAccess corresponds to the code

`logins` and `cookie` are the cookies of one browser, `page` the contestant its page
greets and the token in its forms (templates/index.html 6-9, 182-203), `sessions` the
rows that can still be read: an expired row is like none to `get_session`, so `Expire`
removes it. A request takes the cookies along when it is sent. What CMS concludes from
the logins depends on nothing else in the model, so `Identify` settles it at once;
`requests[r].user` and `.contest` are the identity. Then one action looks the roster
up, compares the session and admits, issues or refuses: the roster's answer commutes with
everything up to the comparison, and a session that does not match cannot begin to.
`verify_csrf` (`Genuine`) comes after the session, so a refused form may still set a
cookie. An answer, also a refusal, sets what `auth_cookie_relay` appends (`Arrive`), in
any order, or is lost. `logout` is `PressLogout`, `Revoke` or `RefuseLogout`, and the
answer that deletes all cookies. The socket of a page is let in as a poll is. An
operator's login at the same browser overwrites the session cookie; to a contestant's
request it is no session.

When the bucket of `issue_session` is full is left open (`RefuseIssue`); it is the code
`ToiletQueue` models for the student bucket.

### How LiveUpdates corresponds to the code

What a state contains is the number of changes it has seen. A change is committed,
its handler reads the hints of the result (`Notify`), and the task goes over the
students' and then the staff's sockets, reading (`ReadState`) before it awaits the
send (`Send`, or `Drop` when either raised). A handler registers its socket
before it reads the first state (`OpenSocket`) and sends that later (`Greet`). A
page polls every 15 seconds, and fetches may overtake each other. A page that
reloads its socket gets another object, so that messages of the old one are
lost.

### How SchemaUpgrade corresponds to the code

`Program` lists the parts of `upgrade_schema` in order; which of them an attempt
executes depends on what it found (`Due`), and each is one transaction, except
`Alter` and `Create`, whose statements are durable one by one. The database is
reduced to the tables, columns and indexes the upgrade asks for (`schema`) and to
the data it converts. `Crash` ends an attempt before any step. `LooksLegacy` is what the
next attempt sees, and whether it recognises a half-upgraded prototype is what
`RoutesConverted` and `Upgraded` are about. The refusal of a newer version and
columns that hold only timestamps or formatting are left out.

## Runs

| cfg | Instance | Properties | What it shows |
|---|---|---|---|
| `queue` | 2 toilets, and either 2 requests with the four kinds of answer Olimp-control gives a student, 2 classes, a proctor of one class and one of all, alerts about the mapping dismissed by hand; or 3 requests of 3 students of one class, some routed by the fallback because the lookup failed, with a clock that steps forth and back; or 3 requests and toilets of up to two places | `WithinCapacity`, `NobodyOverlooked`, `VisitsAreSomewhere`, `RouteCovers`, `AlertsTruthful`, `ImplementsAccess`, `NoOvertaking`, `VisitsUndisturbed` | Places are counted right, seniority and visits survive a clock that is not monotone, routes and alerts stay right in every order of configuration changes and demotions, and the queue implements `ToiletAccess` |
| `served` | 3 requests of one class as in `queue`, toilets of one place, a steady clock, fairness | `Served` | A request with toilets to wait for is admitted or stops waiting for them |
| `loop` | up to 4 requests, waiting or visiting, 3 toilets of up to two places, all routes, two orders of creation | `LoopIsTheSchedule` | The condition and the loop agree |
| `keys` | 2 requests, of one student or of two, support requests on, rate limit 1, 2 toilets, a legacy class and two live ones of its name, every row and open request the upgrade may leave | `TypeOK`, `OneOpenPerStudent`, `RouteExact`, `ToiletsKept`, `Settled`, `RoutesFollowKeys` | Reconciling, between any operations of the queue, loses no toilet, is done in one pass, reroutes at once what it moves and leaves nobody on toilets of other classes |
| `staff` | 2 operators, a legacy and a live scope, one login, two handlers, one token, one socket; a session of 4 ticks, a socket of 1, an opening of 2 | `AdministratorRemains`, `SessionsCurrent`, `SocketsFollow`, `SocketsEnd` | Authority taken away between two copies of it does no lasting harm |
| `students` | 3 callers, the lifespan's among them, 2 contestants, one of whom is also spelled with a blank, 6 lists of which two are refused, 3 editions | `RosterIsOneEdition`, `FreshOrFlagged`, `NeverOlder`, `SyncsEnd` | No interleaving, failure or crash mixes editions, goes back, or hides that the list was not read |
| `probe` | 2 browsers of one contestant, with cookies of two contests, one of which CMS may replace by the other browser's, or with an oversize one; one address; verdicts live 1 tick, one probe per 2 ticks, sends of any length | `SingleFlight`, `FlightsInUse`, `ProbeBudget`, `FreshVerdicts`, `EveryoneAnswered` | Sharing, caching, refusing and cancelling keep their promises together, up to the conclusion from both contests |
| `live` | the page of a proctor, 3 changes, 2 fetches at a time | `NoUpdateMissed`, `PagesConverge` | What a socket misses before its first state is in that state; pages converge in the end |
| `upgrade` | the empty file, prototypes with every combination of choices, homes, names and open requests, versions 1 to 5 with every source of routes; two crashes | `RoutesConverted`, `AuditComplete`, `CredentialsCarried`, `SourcesUntilPublished`, `Upgraded` | Interrupted anywhere, the upgrade ends as if it had not been |
| `assignment` | all answers of up to two computers (with and without a class, off the grid, of another student) and two classes with four descriptions, every mapping to two toilets | `AsDescribed`, `ComputersCovered` | The two sets of rules for an answer leave no gap between them |
| `access` | two contestants, three tokens, and either one contest with two requests at a time or two contests with one | `LogoutHolds`, `ActsForItsUser` | However cookies change under a request, it acts for the contestant CMS vouched for, and a form for the one its page greets; logging out holds in all contests |
| `firstmap` | 2 requests, otherwise as the first instance of `queue` | `FallbackJustified` (violated) | The finding below |

Deadlock is checked in every run but `assignment` and `loop`, where a behaviour is
one lookup or one pass, and `upgrade`, which ends when the application runs and no
crash is left.

### Bounds, and why they are enough

* Queue. A class with one toilet and the fallback that requires both overlap
  without being equal, which is what overtaking needs; two toilets are the fewest
  for that, three requests the fewest for one that bars a third while a second
  holds the place. The loop itself is checked with four requests and three
  toilets, where longer chains of barring exist.
* `queue` is the union of three instances, which its `CONSTRAINT` (`Instances` of
  `MCToiletQueue`) describes by the state alone: mixed answers, a stepping clock and
  toilets of two places are each combined with everything the queue does, and not
  with each other. A state outside is checked and not continued.
* `MaxCapacity` 1 makes toilets scarce; 2 (`queue`, `loop`) lets capacity grow
  and shrink while in use and admit two in one pass.
* `Times` has one reading or two. Two suffice for ties, the order against the
  ids, and a return before its activation.
* `RequestIds` bounds the requests ever made in a behaviour: the queue is used
  up, the configuration goes on. `Served` is therefore about three competing
  requests, and an endless stream of younger ones is not in it; that none of
  them could pass an older one is `NoOvertaking`, proved for any number.
  `DismissedCodes` bounds which alerts are closed by hand, `Assignments` the
  answers of Olimp-control.
* `keys`: one legacy class suffices, because rivals are made by the unmatched
  `twin`, which is live in one catalogue and not in another; an ambiguous, a
  missing and a conflicting target all occur. `Instances` of `MCLegacyKeys` is the
  union of two instances: one student, whose attempts are counted and refused, with
  requests for a toilet and for support; and two students with requests for a toilet, of
  whom one at a time has made an attempt, so that a request which is not moved waits
  beside one that is.
* `staff`: two operators are the fewest of whom one can lose the last
  administrator's place; two handlers the fewest that act on an authority the
  other took away. The socket's life is shorter than the session's and the
  opening longer than the socket's, so that all three deadlines are reached in
  different orders. Nothing is bounded in time.
* `students`: `MaxEditions` 3 lets a list be replaced while two calls wait, and the
  ids 1 and 2 be exchanged between contestants.
* `probe`: `MaxTime` 2 is a window and the beginning of the next, which is also the
  least in which both contests are really probed under a limit of one; by then the
  verdict on the first has outlived its entry in the cache, and CMS may have turned the
  contestant away, which is what `FreshVerdicts` has to allow for and to limit. One
  login stands for both contests in the run; the theorem does not. `MaxEntries` 2
  makes the cache evict when a refreshed cookie is cached beside others. Two tasks
  share, wait for, and are cancelled out of one flight; the same with any number
  is proved.
* `live`: `MaxVersion` 3 gives three overlapping broadcasts, `MaxPolls` 2 fetches
  that overtake each other. One page suffices for the run, as sockets meet only in
  the order in which a loop comes to them; any number is proved.
* `upgrade`: `CrashLimit` 2 interrupts the attempt that recovers from the first
  interruption. An attempt starts from what is durable and from nothing else; with
  three crashes the run still passes, over half as many states again. The invariants
  are proved for any number.
* `access`: two requests are the fewest whose answers overtake each other, three tokens
  are the page's, the cookie's and a new one; a token is used again when the browser has
  it nowhere any more. The run is the union of two instances (`Instances` of
  `MCContestantAccess`): with logins of two contests there is one request at a time,
  because the changes of cookies come from the logins. `VIEW LiveView` puts tokens
  whose rows are gone with `None` and leaves out rows whose tokens the browser does not
  have: no comparison tells the first from `None`, and nothing reads the second.
* `VIEW OpenRowsView` leaves out the route, snapshot and owner of closed
  requests. No guard, update or property reads them: every quantifier over
  requests in them is limited to open ones or to alerts, and alerts are in the
  view. Two states with the same view have the same successors up to the view,
  so the view is sound for the invariants, the action properties and `Served`.
* Toilets and students are interchangeable in the queue (`Symmetric`), requests of
  administrators in `staff`: nothing in the specification or the properties names
  one. Runs with a liveness property use no symmetry.

### Fairness

* `served`: a visit that could be marked as returned all the time is eventually
  marked, by somebody whose scope covers every class. It is an assumption about
  people: a visitor comes back and a proctor presses the button. Nothing is
  assumed of creation, cancellation or configuration, and the scheduler needs no
  fairness because a pass is part of the operations. The clock stands still, since
  a clock that keeps stepping back before each activation makes the code reject
  every return (service.py 1924).
* `students`: a call that holds the lock goes on. Its await is bounded by the
  client's `control_timeout_seconds`, the rest is code. Crashes, edits and new calls
  are not assumed; that the waiters come in order is the queue of `asyncio.Lock`,
  modelled by `line`.
* `probe`: a resumed coroutine runs on, a send ends, and a waiter that could take its
  lock again and again takes it (`SF`), because `asyncio.Lock` serves its waiters in
  order. That a send ends is the timeout of each of its phases and the assumption that
  CMS does not go on with one reply for ever, which nothing in the code rules out.
* `live`: the page's timer fires and what is on the network arrives. Broadcasts get
  no fairness: `send_json` may hang, and the pages' own polling is what convergence
  rests on.
* `upgrade`: a running process executes its statements and a dead one is started
  again (`restart: unless-stopped` in docker-compose.yml). Crashes are bounded, not
  unfair.

## Findings

`assign_class_toilet` adds the row of a class that has none (service.py 2166-2174) and
then rebuilds the routes of the class's pending requests (2188-2191). The
session does not autoflush and there is no flush in between, so the query of
`_rebuild_route` (1519-1527) does not see the row. A request that waits on the
all-toilets fallback because its class was unmapped stays there, requires every
toilet, bars everybody behind it and keeps its `class_without_toilet` alert,
although its class has a toilet now. The class documentation says "Class-to-toilet
changes rebuild pending routes but preserve active ones" (service.py 241). Run
`firstmap` shows it in six states: create a toilet, open a request of an
unmapped class, map the class. The second mapping change of the class repairs
it. The tests insert the row with `sync_class_catalog` first. `RouteCovers` and
`AlertsTruthful` are stated so that they hold nonetheless: a fallback covers the
mapped toilets, it only covers too much.

That a request blocked for want of any toilet stays blocked when one is created
is documented (service.py 240) and tested, so it is modelled and not reported.

The documents also say that a payload with several computers is handled "by the same
conservative fallback and staff alert" (CONCERNS.md 35-37; README.md 27-29). The code
never counts computers (service.py 1534), and a test fixes that
(tests/test_service.py 250-261): the classes of the computers, not their number, decide.
`ComputersCovered` is what the code promises, and holds; the text seems out of date.

## Proofs

Checked by TLAPS for every value of the constants that satisfies the assumptions
of the module, each of which a passing run evaluates. They give the domains of the
settings and say that `None` and its like are not ids or times. Beyond that,
`IdsAssumption` says that there are finitely many request ids; `LoopAssumption` that
the dates of a queue are numbers; `QueueAssumption` what `Assignment` says of the
snapshots the queue is given; `KeysAssumption` that the database an upgrade leaves
obeys its foreign keys and its index of open requests, and that rewriting the keys of
a snapshot gives a snapshot; `AnswersAssumption` that the lists of an answer are
finite; `ProbeAssumption` that CMS replaces a cookie by one of the same contestant, login and
contest, that a browser sends one cookie per contest, and that there are no fewer `Flights` than tasks, for an object can always
be made; `AccessAssumption` that contests are numbered; and `UpgradeAssumption` that
a file is empty, a prototype's, or one of a version, as `SchemaUpgrade` describes
them. `StaffAssumption`, `RosterAssumption` and `LiveAssumption` give domains only.

`SchedulerProofs`, about `IsSchedule`:

* `ScheduleFits`: a pass does not overfill a toilet that was not. The youngest
  request admitted to a toilet has counted the holders and all the others
  admitted. That a youngest exists is `YoungestExists`, from the well-foundedness of
  strict inclusion on the sets of younger requests.
* `ScheduleIsIdle`: after a pass, the empty set is a schedule.
* `ScheduleUnique`: at most one set is a schedule, by the oldest request on
  which two would differ.
* `LoopComputesTheSchedule`, about `LoopSpec`. The invariant `LoopInv` says that what
  has been admitted is the schedule of the part of the queue that has been seen, and
  expresses `free` and `barred` by who was seen and admitted. A round extends that
  part by its youngest, which changes nothing for the others (`JuniorsDoNotMatter`,
  `ScheduleGrows`). When nothing is left the part is the queue, and `ScheduleUnique`
  excludes any other set.

`ToiletQueueProofs`, about `Spec`:

* `TypeCorrect`: `TypeOK` is inductive.
* `QueueInvariant`: the inductive invariant `Queue` is `TypeOK`, `Rows` and
  `WithinCapacity`. `Rows` is the strengthening: an inserted row is dated
  (otherwise seniority is not an order and the counting argument fails), and
  an open toilet request requires existing toilets only (otherwise creating a
  toilet, which ends without a pass, would give room to somebody who waits). Each operation
  is shown to be a `ScheduledStep` (it prepares a state in which the visits that
  go on are old ones with their toilets, and ends with a pass) or a `QuietStep`
  (queue and visits unchanged, no more room). The rest is argued once for the two
  kinds.
* From it: `CapacityRespected`, `QueueIsScheduled`, `VisitsHavePlaces`, and the
  action properties `SeniorityRespected` and `VisitsLeftAlone`.
* `OneOpenRequest`: only `CreateRequest` opens a request, and a demotion makes
  pending what was open; `MappingFollowsToilets`: deletion clears the mapping.
* `RoutesCovered` and `AlertsTellTheTruth` from `Routed` (and `Covers`), which says of each request
  (`Right`) that its route and its alerts fit the mapping and that a closed or support
  request has no alert. It needs both parts at once: alerts are judged by the route.
  Each operation is shown to do one of four things to a request (`Handled`): leave it
  and the mapping of its classes alone, rebuild its route under a mapping that agrees
  with the new one on its classes or makes it a fallback (this is where the row that
  `AssignClassToilet` does not see is harmless), make it a visit, or end it. That any of
  the four keeps `Right` is argued once (`HandledIsRight`).
* `QueueImplementsAccess`: every step of the queue is a step of `ToiletAccess` under
  `Held`, or is not seen there. `VisitGoesOn` says that only a return ends a visit,
  `VisitsStep` that what goes on keeps its toilets, and capacity (`Fits`) is
  `WithinCapacity`.

`ToiletQueueProofs`, about `LegacySpec`. `RowsOK` (domains of the rows, and a class
points at existing toilets) is inductive; the databases the upgrade leaves are
assumed to satisfy it.

* `ReconciliationKeepsToilets`: a class that keeps its key keeps its toilet, since
  a donor is compatible with it; the toilet of one that is moved becomes its
  target's, since no two rows give to the same class (`OneDonor`, from the
  uniqueness of names among unmatched rows).
* `RoutesAreRekeyed`: `Reroute` reads the mapping of the same step, and no other
  operation changes the snapshot of a waiting request.
* `OnePassIsEnough`: what a pass leaves, it would leave again (`PassSettles`). A class
  unmatched after it was unmatched and unmoved before (`StillUnmatched`), and every
  rival it had is still there, as no pass opens, closes or newly names anything
  (`AnchorsStay`).
* `LegacyTypeCorrect` and `LegacyOneOpenRequest`, without further hypotheses.
* A reconciliation is, like the other operations, a `ScheduledStep` or a `QuietStep`
  (`ReconcileStep`), so that what is proved about `Spec` from these two kinds holds of
  `LegacySpec` too: `LegacyCapacityRespected`, `LegacySeniorityRespected`,
  `LegacyVisitsLeftAlone`, `LegacyQueueIsScheduled`, `LegacyVisitsHavePlaces`, and, step by
  step, `LegacyStepsImplementAccess`. The prototype neither counted places nor barred
  anybody as this code does, and nothing looks at its queue at the start. So these
  theorems say what follows *if* the visits found fit (`WithinCapacity`), have toilets
  (`VisitsAreSomewhere`), or nobody admissible waits (`NobodyOverlooked`).
* `LegacyRoutesExact` and `LegacyAlertsTellTheTruth`, if they are so to begin with, which
  is what `RoutesConverted` of `SchemaUpgrade` says of the routes and alerts an upgrade
  makes. A request the pass does not rebuild keeps its route, and a class
  of it that gets another mapping had none before, so that the request is on the
  fallback (`Stranded`); `Covers`, the part of `RouteCovers` that does not survive, is
  kept apart from `Routed` for this reason.

`StaffAccessProofs`: `TypeCorrect`; `AdministratorStays` (the guard of each change
looks at the others, and the startup account is an administrator's);
`SessionsFollowAccounts` from `Copies`, which says the same of logins under way as
of sessions, since the first become the second; `SocketsFollowAccounts` and
`SocketsEndWithSessions` from `SocketsTimed`, which relates a socket's remaining
time, before and after its deadline is set, to that of its session and to the time
since its account was changed.

`ControlProofs`, about `Roster`: `RosterTypeCorrect`, and `OneEdition`,
`FreshOrFlaggedAlways`, `NeverOlderThanBefore` from `Locked`: only the head of the line
is past waiting, and what it was answered is an edition no older than the one
installed. About `Assignment`: `SnapshotIsAsDescribed` and `ComputersAreCovered` from
`LookupInv`, which relates `sources`, `malformed` and `codes` to the part of the answer
the loops have gone over. The step is `OneMore`: the one entry `setdefault` keeps per
class is enough to compare a later description with all the earlier ones.

`CmsProbeProofs`: `ProbeTypeCorrect`;

* `OneProbeAtATime` and `FlightsAreInUse` from `FlightInv`: a task that probes holds the
  lock of its flight, and a task that flies is on the flight its key has in the table,
  which no other key has.
* `VerdictsAreFresh` from `FreshInv`, which follows a verdict from CMS to the conclusion:
  an answer that accepts was asked for before its login was gone (`AcceptedInTime`), and
  so was the last accepting answer on record (`VouchedInTime`); an accepting entry of the
  cache, also under a refreshed cookie, expires within a verdict's life of that record
  (`CachedInTime`); and what a task has of verdicts was, when its request came, on record
  for less than that life or came later (`GotInTime`). The record only gets younger, so
  what a task holds stays fresh for it while it waits for other contests. Nothing is
  assumed of how long a send takes.
* `ProbesAreBudgeted` from `BudgetInv`, which relates `sends`, the history, to the
  window of an address (`AccountsFor`): the window counts what was sent since it began,
  the window before it sent no more than its limit, and any stretch of a window's
  length touches at most two windows. The code evicts windows when there are more
  addresses than entries and with them forgets counts, hence the antecedent
  `Cardinality(Addresses) <= MaxEntries` of `ProbeBudget`.

`ContestantAccessProofs`: `AccessTypeCorrect`, where the form of a request depends on
its stage and a form is posted from a page (`PostedFromPage`);

* `LogoutStays` from `Out`: once the contestant is out no login is left, and nothing is
  under way that is identified or could bring one.
* `ActsForWhomItShould` from `Bound`: wherever a page is kept, on the screen, with a
  request or in an answer, its token opens a session of the contestant it greets or
  none, because a new token is on no page there is.

`LiveUpdatesProofs`: `LiveTypeCorrect`, and `UpdatesReachSockets` from `LiveInv`: for
every change a registered socket has not carried, its task is yet to come to it,
is sending it a state that has it, or its greeting has read one.

`SchemaUpgradeProofs`, for any number of crashes: `SourcesRemain`, by the steps;
`OneEventAtMost` from `EventInv`: once the event is written the version is published
and no retired column is left, so that no later attempt, which decides by these two, is
due to finalize. `UpgradeTypeCorrect`, and the other three, from `AttemptInv`, which
relates the position in the program, what the attempt found and the version, so that a
step is known to be behind (`Past`) or published:

* `CredentialsAreCarried` from `SessionInv` and `OperatorInv`: the lasting sessions are the
  original ones throughout, the others are gone once the purge is behind; an account has
  the password it had or does not exist yet.
* `RoutesAreConverted` from `RouteInv`: whatever crashes there were, requests, routes,
  snapshots, alerts and mappings are as found, converted (or unlocked, from version 1)
  or routed, and nothing in between. Each of the steps is shown to lead from one of
  these to the next or to keep it when it is made again (`ConvertAgain`,
  `PopulateRoutes`, `UnlockRoutes`, `RepairRoutesV1`).
* `AuditIsComplete` from `EventTells`: at the final step what the event is composed
  from is what the original file held (`RouteInv` for the requests, `AttemptInv` for the
  retired columns and tables), and `EventInv` says that it is the first.

Model-checked only: the liveness properties `Served`, `SyncsEnd`, `EveryoneAnswered`,
`PagesConverge` and `Upgraded`, which are beyond the prover. Every other property of a
passing run is stated by a theorem. The type invariants of `Roster`, `CmsProbe`,
`StaffAccess`, `LiveUpdates`, `ContestantAccess` and `SchemaUpgrade` are proved and not
run.

## Not modelled

* HTTP: parsing, status codes, templates; settings and their
  environment; bcrypt; the Docker and nginx files. No state and no order of steps.
* `ensure_student`, `sync_class_catalog` and `reconcile_user_routing`: only tests
  call them.
* The rate-limit buckets of session issuance, assignment lookups and operator logins: the
  code of the student bucket under other keys, in front of operations whose effect
  does not depend on them.
* `classes()` and `class_layout()` of the Olimp-control client: they check their answers
  as `student_assignment` does, and nothing is kept.
* Locales, and the record of ambiguous identities (auth.py 275-304).
* Audit rows, except the one of the upgrade, whose content is a promise.

* That requests of an undisturbed browser stop issuing sessions, and that the rows of
  sessions stay few between purges: neither is stated.

## Further work

That a reconciled database satisfies the hypotheses of the `Legacy...` theorems whenever
the upgraded file did, by composing `SchemaUpgrade` with `LegacyKeys` instead of saying so
in prose; which requests `RouteCovers` fails for after a reconciliation, and that their
next rebuild ends it; the hazards of `PROJECT.json` that no property covers
(ws.py 73, main.py 680, migrations.py 777).
