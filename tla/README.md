# Hopin: a verification development

Hopin's code is the vertical slice under `slice/`: a NestJS API process in
which passengers request taxi rides, drivers are offered them one at a time,
and PostgreSQL, Redis and Socket.IO carry the state and the news. This directory
holds TLA+ models of that code, TLC runs that check them on small instances, and
TLAPS proofs that hold for every size.

Sections: [the system](#1-the-system), [the models](#2-the-models),
[the runs](#3-the-runs), [the proofs](#4-the-proofs),
[what the work found](#5-what-the-work-found),
[what is not modelled](#6-what-is-not-modelled), [the plan](#7-the-plan),
[running it](#8-running-it).

## 1. The system

Paths are relative to `slice/src/`.

| Component | State it keeps | Operations | Made correct by |
|---|---|---|---|
| Matching (`matching/matching.service.ts`) | `pending` Map of live offers, one Node.js timer per offer, `inflight` dispatches; in Redis the keys `drivers:<t>` (geo set), `busy:<t>`, `assign:<t>:<d>` | `recordLocation`, `dispatch`, `accept`, the private `offerNext` with its timer callback, `onModuleDestroy` | one custodian per ride, offers and timers in step, a match only for the driver last asked, no ride forgotten while nothing fails |
| Ride lifecycle (`rides/rides.service.ts`, `domain/ride-state.ts`) | tables `rides`, `ride_events`, `outbox` | `requestRide`, `acceptRide`, `markNoDriver`, `getRide`, `eventsFor` | rows, events and outbox entries agree; no illegal transition; each call atomic |
| Transactions and tenant scope (`db/tx.ts`, `db/migrate.ts`) | the pg pool, the `app.tenant_id` setting, row-level security policies | `withTransaction`, `withTenant`, `migrate` | all or nothing, connections come back, a tenant sees its own rows only |
| Outbox relay (`outbox/outbox.relay.ts`) | interval, the tick in progress | `safeTick`, `tickOnce`, `publish`, `onModuleDestroy` | at least once to the adapter, once if nothing fails, every committed entry in the end |
| Ride requests over HTTP (`rides/rides.controller.ts`) | none | `POST /v1/rides` (commit, then dispatch without awaiting it), `GET /v1/rides/:id` | every committed request is dispatched |
| Realtime gateways and bus (`realtime/*.ts`) | Socket.IO rooms and socket identities | `location`, `offer.accept`, `ride.watch`, `toDriver`, `toRide` | only the ride's passenger joins its room; nothing told that is not so |
| Socket.IO Redis adapter (`realtime/redis-io.adapter.ts`) | two Redis connections | `createIOServer`, `dispose` | closed after everybody who publishes |
| ETA ranking (`domain/eta.ts`, `domain/geo.ts`) | none | `rankByEta`, distance | the nearest free drivers are asked, the nearest first |
| Dispute assistant (`assist/dispute-assist.service.ts`, `assist/case-file.ts`) | none | `draft`: read ride, read events, ask a model, validate | a draft cites only events of its ride and promises no payment; only roles leave the system |
| Model gateway (`assist/model-gateway.ts`) | the bound client | region check at start-up, plane check at each draft, `submitDraft` | case files go to the data plane in an EU region only |
| Application module (`app.module.ts`, `app.ts`, `main.ts`) | pool and Redis client | start, shutdown hooks | what is shut down is not used afterwards |
| Evaluation, load test, documentation scripts | none | batch scripts | - |

How they interact. The controller and the gateways call the services directly,
in one process and on one event loop: code runs without interruption from one
`await` to the next, and everything else can happen at an `await`. `acceptRide`
writes its `ride.matched` entry into the outbox table, and the relay, by polling,
sends it to the ride's room; NO_DRIVER goes to the room directly. Offers exist
in memory only; Redis tells matching who is near and who is busy, and tells the
driver gateway to which ride's room a position goes.

What is hard here, each at its line in `PROJECT.json` under `hazards`:

* the offer timer, the driver's accept and the awaited transaction race for one
  ride, and no lock or state check in matching keeps them apart
  (`matching.service.ts:76-86, 113-124`);
* a failure between the steps of one operation: transaction rolled back, COMMIT
  done but its answer lost, Redis command failed after the commit, process gone;
* two transactions on one row at READ COMMITTED (`rides.service.ts:62-66`), and
  three statements that must be one change;
* the relay hands over before it commits, several relays share the table, and
  entries commit in another order than that of their ids;
* two tenants may use the same driver id, and the `pending` Map is keyed by ride
  id only;
* data read before an `await` and used after it: the ranked list is up to 75 s
  old when its last driver is asked, and COUNT cuts it before the busy drivers are
  known (`matching.service.ts:103`);
* connections go from one tenant's call to the next and to the relay's, however the
  last call ended (`db/tx.ts:5-33`);
* a draft reads the ride and its events in two transactions, and the ride may be
  matched in between (`dispute-assist.service.ts:27-29`);
* the process may restart between any two steps, with sockets, offers and timers
  gone and the tables still there.

## 2. The models

```
RideStates --- RideLedger ---+--- Matching ---- implements OfferLoop
               one atomic    |    event loop, Redis, faults
               step per      |        |
               transaction   |      Hopin ----- implements Realtime
                             |    Matching, relay, rooms and clients in one
                             +--- Realtime      sockets, rooms, what a client knows
                             +--- RideStore     statements, row locks, pool;
                             |                  implements RideLedger
                             +--- DisputeAssist --- CaseFile
                                  drafts beside the moving rides
OutboxRelay         the outbox table and the relays that empty it
TenantScope         withTransaction, withTenant and the pool
CandidateSelection  which drivers a ride is offered to
Shutdown            app.close(): the hooks of matching, relay, adapter and pool
```

### RideStates and RideLedger

`RideStates` is the enumeration and transition table of `domain/ride-state.ts`.
No service calls `canTransition`; the SQL names the states itself. So the table
guards nothing in the model, and that every step obeys it is a property
(`LegalTransitions`).

`RideLedger` has one action per method of `RidesService`, each what a committed
`withTenant(...)` call does: `requestRide`, `acceptRide`, `markNoDriver`.
`Updatable` is the WHERE clause of the two UPDATEs under the row-level security
policy (`Visible`). When it does not hold, the transaction commits and changes
nothing, and the method resolves to `false`. `rideEvents[r]` is the `ride_events`
of one ride in id order, `outbox` the entries in commit order. Coordinates and
timestamps are left out.

### RideStore

The same service statement by statement. `tx[k]` is the transaction open on
pool connection `k`: which statement is next and what it has written. `FindRide`
evaluates the WHERE clause on what has committed; `UpdateRide` waits for the row
lock (`Locked`) and evaluates it again on the row as it has become, which is what
PostgreSQL does at READ COMMITTED; `Commit` makes everything visible, or its
answer is lost (`CommitUnanswered`), or any step fails and `Rollback` gives the
connection back. (A connection that dies takes the process with it, see `TenantScope`;
the tables are then those of a lost answer or of a rollback.) `resolved` records what
callers were told. The service's callers
are unconstrained: any two calls, for any ride, at the same time.

### Matching

`MatchingService` in one process, together with `RideLedger`'s tables, the Redis
keys and its callers. An action is the code between two awaits. An awaited call is
a record in `calls` that carries what its continuation captured; the action that
answers it reads or writes the table or key and runs the continuation to the next
await. `timers` are the armed `setTimeout`s with their captured remainder of the
ranked list, `pending` the Map. `offered` and `announced` record what was sent to
rooms.

| Code | Actions |
|---|---|
| `POST /v1/rides`, `dispatch` | `Request`, `RequestUnanswered` |
| `nearbyFreeDrivers` | `SearchNearby`, `FilterBusy` |
| `rankByEta(...).slice(0, MAX_OFFERS)`, `offerNext` | `OfferRanked` (operator `offerNext`) |
| timer callback | `TimerFires` |
| `accept` up to its await, after it, after Redis | `Accept`, `CommitAccept`, `AssignDriver` |
| `markNoDriver` and the NO_DRIVER message | `CommitNoDriver`, `AnnounceNoDriver` |
| `recordLocation` | `recordLocation` |
| every `catch` above these | `CallRejects`, `CommitUnanswered` |
| restart of Redis, of the process | `RedisRestarts`, `ProcessRestarts` |

Geography is abstracted: a search returns any set of at most `MAX_CANDIDATES`
stored drivers, and a ranking is any order of them. That includes every outcome
the distance formula could produce.

### OfferLoop

The abstract specification of what matching promises about a ride: drivers are
asked one at a time, none twice, at most `MAX_OFFERS` of them, none after the
outcome; then the ride goes to the driver asked last or is given up. `Matching`
implements it under `asked <- offered`, `outcome <- ` the state and driver columns.

### OutboxRelay

The table as the relay sees it: ids are given at INSERT, rows become visible at
COMMIT in any order or never, and several relays run ticks. A tick is three
actions, one per await: `Select` (ORDER BY id LIMIT, FOR UPDATE SKIP LOCKED),
`HandOff` (the batch goes to the adapter without an await in between) and
`Publish` (UPDATE, COMMIT). `TickFails` is `safeTick`'s catch; `Crash` leaves the
dead session's row locks in `orphans` until `SessionEnds`. How often an entry was
handed over is counted as never, once, again: enough for the property, and finite.

### Realtime

How a passenger learns the outcome. The rides move by `RideLedger`'s transactions,
called by anybody. MATCHED goes from an outbox entry to the ride's room, perhaps
more than once (`Relay`); NO_DRIVER goes there once, after its commit (`GiveUp`,
`TellNoDriver`). `ride.watch` is three steps, one per await: `OnWatch`, `CheckRide`
(what `getRide` returned is checked, and kept in `watch`; it may also reject), `JoinRoom`. `toRide` reaches
the sockets that are in the room at that moment. The client is the one
`docs/architecture/overview/05-for-engineers.md:27-29` asks for: it reads the ride
over REST after it has subscribed (`Reread`). The client and Socket.IO are external. The
client waits for the answer to one `ride.watch` before it
sends another; the gateway would serve several at a time, which share nothing but the rooms they
add to. A socket may disconnect at any time and loses its rooms and what was under way.
The process may restart (`ProcessRestarts`): every socket is gone, and so is each
NO_DRIVER that was committed but not told; the tables stay.

### Hopin

`Matching` and `Realtime` over one set of tables. `Hopin` extends `Matching` and
instantiates `Realtime` as `Live`, with `telling <- announcing`: the rides whose
NO_DRIVER is under way are Matching's calls that will announce it. Realtime's "somebody's
transaction" becomes a step of Matching, its relay reads the entries that Matching's
commits wrote, its announcement is Matching's. A restart is one step of both. What is
added is the third kind of news: a driver's position is answered with the ride the
driver is assigned to (`OnLocation`, kept in `located`) and then forwarded to that
ride's room (`Forward`, onto the `screens` of the sockets in it), while matching may assign the
driver to another ride in between. `ImplementsRealtime` says that every step of the
whole is a step of `Realtime` or none, so that what is proved of rooms and clients holds
of the system. A COMMIT whose connection dies is in it, as a commit and the restart that follows;
one that loses its answer in a process that goes on is not, see section 5.

### CandidateSelection

`Matching` takes any list of drivers; this module is about which list it is. Drivers
report places on a line, `GeoSearch` returns the at most `MAX_CANDIDATES` nearest within the
radius, `FilterBusy` removes those who are busy by then, ranks the rest and keeps
`MAX_OFFERS`. `Nearest` is what Redis's ASC COUNT and the code's sort and slice have in
common: a list, shortest distance first, equal distances in any order. (The code's sort keeps
the order Redis gave to equals; the model allows every order, so that nothing rests on
it.) In between drivers move, accept this ride or another (`taken`, the drivers matched in the table), are
marked busy later or never (`busy`, what Redis holds), and Redis may lose both of its sets. So `busy` names only
drivers who are taken, and perhaps not all of them. A line stands for the globe since the code only compares
distances: it gives both equal and different ones, within the radius and beyond it.

### TenantScope

`withTransaction` and `withTenant` over the connections of the pool. A connection has
a transaction (none, open, aborted) and two settings of `app.tenant_id`: the local one
that ends with the transaction and the one of the session, which no code sets but a mutant does.
`visible` is the policy of `db/migrate.ts`. A call's steps are those of `tx.ts`: connect, BEGIN,
`set_config`, statements, COMMIT or ROLLBACK, release; the relay's calls have no tenant.
Calls wait in a queue, and a statement may fail. A connection that is lost, idle or at work, ends
the process: pg emits `error` on the Pool or on the client, nobody listens for it
(`app.module.ts:29`, `db/tx.ts:5`), and Node ends. `ProcessEnds` is that, and any other
death of the task; the next process starts with new connections.

### CaseFile and DisputeAssist

`CaseFile` is `assist/case-file.ts`: `roleOf`, `buildCaseFile` with its redaction, and
`validateDraft`. Text is the set of things it says that some rule tells apart: a phone
number, a contact in a form that the patterns miss, a promise to pay, a promise in other words.
`DisputeAssist` runs `draft` beside `RideLedger`'s transactions, one step per
await: `Ask` (with the checks of the bound client and its plane), `ReadRide`, `ReadEvents`, and then
whatever the model hands in: any set of ids, any reply, a refusal, an error. Event
ids are unique across rides and tenants, as `bigserial` makes them, so that a model may
name an event of another tenant's ride.

### Shutdown

`app.close()` of one API task. Of each ride it keeps only what is awaited for it or
armed (`work`), whose code that is (`runner`: a dispatch from before the shutdown,
one from during it, a timer), and whether `inflight` tracks it. `OnModuleDestroy` is
both hooks; `Dispose` closes the Socket.IO server and disposes the adapter once the
hooks have resolved; `EndPool` and `DisconnectRedis` are `onApplicationShutdown`.
That order is Nest's. Requests (`request`) and accepts arrive until the server is closed,
answers as long as Redis is connected: a request whose transaction commits late begins its
dispatch then (`Dispatch`), perhaps after the adapter is disposed. `late` records who published on a disposed
adapter.

## 3. The runs

| Run | Instance | States | Shows |
|---|---|---|---|
| `matching_faults` | 2 tenants sharing driver names, 2 rides, 3 drivers of whom 2 may be asked, every fault | 158 000 | type and six safety invariants, and the refinement to `OfferLoop!Spec`, whatever fails between two awaits |
| `matching_live` | 2 tenants, 2 rides, 2 drivers, no faults, fair | 28 000 | no request is dropped, every loop ends (`OfferLoop!FairSpec`), the passenger is told NO_DRIVER, a matched driver becomes busy |
| `matching_double` | as above | stops at the violation | `OneRidePerDriver` does not hold, see section 5 |
| `ridestore` | 3 connections on one ride, 2 tenants, 2 drivers, failing statements and lost COMMIT answers, fair | 144 000 | interleaved statements are `RideLedger`'s steps; rows, events, outbox and what callers were told agree; every transaction ends and returns its connection |
| `relay` | 3 relays, 3 entries, batches of 2, failing ticks, crashes, fair | 14 000 | nothing marked unsent; nothing sent twice unless a tick failed; every committed entry is handed over and marked |
| `realtime` | 2 tenants, 2 passengers, 1 driver, 2 rides, 1 socket, disconnections, restarts, reads that fail, entries sent again, fair | 65 000 | a room has only its passenger in it; no outcome told is false; a client that reads after subscribing misses nothing, and learns the outcome unless it disconnects or watches another ride |
| `shutdown` | 3 rides, fair | 166 000 | neither a dispatch that was running nor the relay publishes on the disposed adapter; a shutdown that has begun ends |
| `shutdown_late` | 2 rides | stops at the violation | `NothingPublishedLate` does not hold, see section 5 |
| `hopin` | 2 passengers, 1 driver, 2 rides, 1 socket, failing database and Redis, Redis losing its keys, restarts, disconnections, entries sent again | 311 000 | matching, relay and announcement are what `Realtime` takes them to be; positions reach only the passenger of the ride the driver is matched to |
| `candidates` | 4 drivers, any of them busy from earlier rides, on 3 places of which one is beyond the radius, 1 ride, COUNT 3, 2 offers, Redis losing its keys | 615 000 | the nearest free drivers are asked, the nearer one first; a free driver near by is left out only for nearer ones or for COUNT |
| `scope` | 2 tenants, 2 connections, 3 calls, failing statements, a process that ends, fair | 23 000 | a call's statements read its tenant's rows only, the relay's read none; a call that waits gets a connection and ends |
| `assist` | 2 tenants sharing a passenger and a driver name, 2 rides, 1 draft, 2 regions of which one is in the EU | 2 800 | an accepted draft cites events of its ride only; only roles leave, and only to an EU region; a case file shows the events of its state |

Why the bounds are enough to be interesting. Two rides are the least at which one
driver can hold offers of two, two tenants the least at which a driver id is
ambiguous, and `MAX_OFFERS` below the number of drivers the least at which the cut
of the ranked list shows. Three connections on one ride make one wait behind
another's lock while a third settles the ride. Three relays allow one to be dead with its locks
held while two compete, and three entries with batches of two give a full batch, a rest and a
late commit. With one socket every check of `Realtime` is about that socket, its identity
changing as it reconnects: in the code, too, nothing of one socket depends on another.
Three rides in a shutdown are one tracked from before, one begun meanwhile and one in the hands of a
timer or an accept. In `hopin` one driver who is offered both rides is what makes a position
go astray; a second would only add offers, which `matching_faults` has. In `candidates` four
drivers with COUNT 3 leave one unseen, also when the three are busy; two offers are the least that have an
order, and three found leave one to be cut. One ride is enough, as another search's driver becomes busy by
`AcceptedElsewhere`; the pickup is fixed, as its distances to the three places, none, one within the radius and
one beyond it, are all the code compares. Three calls on two connections make one wait and every
connection change hands between tenants and the relay. One draft is enough: drafts share
nothing, and the rides move by anybody's transactions.

Every bound is a constant of the module. Only `LAST`, the number of outbox ids, and
`MaxStatements`, the statements of one `withTenant` call, cut off behaviour. The sequence
of ids ends in the model, which is why the relay run does not check for
deadlock; nor do the shutdown runs, whose process really stops. All other runs do.

Symmetry is used in `matching_faults`, `hopin`, `candidates` and `assist`, which check no
liveness. Ids have no structure in the code (UUIDs, opaque strings), so permuting
those of one kind is sound; places are numbers and are not permuted.

Fairness.

* `Matching!Fairness`: for each ride, an awaited call is answered and an armed
  timer fires. The event loop turns and PostgreSQL and Redis answer. Nothing obliges a
  driver to accept or a passenger to ask. Liveness is checked with `Faults = {}`
  because the code has no retry: a failed transaction in `accept` leaves a ride
  REQUESTED with nobody to take it up, and so does a restart
  (`matching.service.ts:33`, "Pending offers are held in memory").
* `RideStore!StoreFairSpec`: strong fairness of a connection's next statement, answered.
  PostgreSQL queues those who wait for a row lock, so one who can get it again and
  again does get it. No failure is obliged to come and end a wait.
* `OutboxRelay!FairSpec`: the interval keeps firing, dead sessions are noticed,
  and a tick's next step that is possible again and again succeeds once. Failures
  may be frequent but not permanent.
* `Realtime!FairSpec`: the gateway's awaited calls are answered, the relay keeps sending
  each ride's unmarked entry, the code after `markNoDriver` runs, and a connected client
  reads what reaches it. Nothing obliges a client to connect or to stay.
* `Shutdown!FairSpec`: what is awaited is answered, with a result or an error, the tick in
  progress ends and Nest goes on with its next hook. Nothing obliges a timer to fire.
* `TenantScope!FairSpec`: the pool gives a free connection to the call that has waited
  longest, and a call's next statement is answered, with a result or an error. No
  statement need succeed, and nobody need call.

Each property of a passing run has a mutant: a plausible slip in the code
(`..._KeepsOffer`, `..._Forgotten`, `..._NotRechecked`) written next to the
definition it replaces, with which the run finds the property violated.

## 4. The proofs

Everything below holds for any tenants, rides, drivers, sockets, connections, callers
and relays, and any set of faults. The assumptions are `NilIsNoId` and `NilIsNone` (SQL
NULL, and "no tenant", is no id), `MatchingAssumption` (finitely many drivers, `MAX_OFFERS`
at least 1), `RelayAssumption` (`BATCH` at least 1), `StatementsPositive`
(`MaxStatements` at least 1), `EURegionsAreRegions` and `SelectionAssumption` (finitely many
drivers, places on the line of integers and pickups among them, and the radius and the two bounds natural numbers);
TLC evaluates each.

* `RideLedgerProofs`. Inductive invariant `LedgerIInv`: types, `RowShape` (the three
  states the transactions reach; only a match names a driver), and the two
  properties `EventsTellTheRide`, `OneEntryPerMatch`. `RowShape` is needed
  because `Story` of a given-up ride must not depend on a leftover driver. Also
  `LegalTransitions`.
* `TablesProofs`, of the two modules that look inside the ledger's atomic steps.
  For `RideStore`, `StoreIInv`: what an open transaction has written fits what has
  committed (`Fits`), one open writer per row (`OneWriter`, the row lock) and no
  two open requests with one id (`FreshIds`). From it, every COMMIT is one step of
  `RideLedger` and every other statement a stutter (`StoreImplementsLedger`), so
  that the ledger's theorems carry over; and `ToldIsCommitted`.
  For `DisputeAssist`, `AssistIInv` adds to the ledger's invariant that the row a draft
  read is of the caller's ride, and the row of now if it was settled (`RowWasRead`), that a
  file names only events of that ride, has the one of its state and no actor but roles
  (`FileIsFaithful`), and that a request past `Ask` is on the data plane (`DataPlane`).
  Rows settle once and events are only appended, hence the three properties, for any model.
* `MatchingProofs`. The properties of matching are not
  inductive by themselves: that an accept cannot find the ride settled depends on
  nobody else working on it. `IInv` says of each ride that it is in one of
  three custodies: `Idle` (nobody), `OfferOut` (one armed timer, its offer in the Map,
  the remaining list without those already asked) or `CallOut` (one awaited
  call, which knows what the row says). Each action takes a ride from one custody
  to another and leaves the other rides alone. `OneCustodian`, `OfferArmed`,
  `SettledIsQuiet`, `MatchedIsLastOffered` and `EveryRequestKept` follow.
  In the second part, each step of matching is a transaction of
  `RideLedger` or leaves the tables alone (`ImplementsLedger`), hence rows only
  settle once; with that, `RedisFollowsLedger` and `AnnouncedIsCommitted` are
  stable, and the mapping to `OfferLoop` sends each step to a step or a stutter
  (`MatchingIsOfferLoop`).
* `OutboxRelayProofs`. A tick's batch is locked by it alone and is unpublished and
  committed; what has been handed over is published, is in a tick that still holds it,
  or is in `failed`. Hence at least once, and once where nothing failed.
* `DispatchProofs`, of a dispatch beside matching. That the shutdown hooks wait for every
  dispatch from before the shutdown is not inductive: `DrainIInv` adds that such a dispatch is
  tracked as long as it may publish (`Tracked`), that the snapshot `onModuleDestroy` took contains it
  and no ride that is still to be dispatched (`Waited`), and that none of
  the snapshot is left once the adapter is disposed (`Drained`).
  For `CandidateSelection`, `SelectionIInv` says of every search where its list comes from
  (`Arose`): one search found the nearest, and whoever of these is missing from what was ranked
  was busy and has a ride still, since a match is for good, whatever Redis forgets. What
  `Nearest` promises is three lemmas: its lists name each driver once, are in order, and leave
  somebody out only when they are full (`NearestList`, `NearestOrder`), and whoever a search did
  not find has `MAX_CANDIDATES` others at least as near. They count the drivers on an
  injective list, so that no induction is needed, and the two properties follow
  for every number of drivers and every bound.
* `RealtimeProofs`. `RealtimeIInv` is the ledger's invariant, `GivenUp` (who is being
  told NO_DRIVER has a row that says so), and for each socket `Served`: a room was
  checked against the row, a `watch` under way carries what the row said, news is true,
  and a client that has read after joining either knows the outcome or it is still under way, as
  an unmarked entry, in `telling` or in its inbox (`MissesNothing`). A step is a
  transaction, a send or a step of one socket, and each kind has one lemma.
* `TenantScopeProofs`. `ScopeIInv`: a connection has one holder, which is past `connect`
  (`Holders`), the queue holds only calls that wait and each once (`Queue`), statements remain as long
  as the call is before its COMMIT (`Remaining`), and the setting is the holder's tenant while it
  runs statements and nobody's before `set_config` and outside (`Setting`). Hence `SeesOwnRows`, and
  `IdleIsClean`: a connection in the pool is as new.
* `HopinProofs`, of the composition. Every step of the whole is a step of `Matching`
  (`HopinIsMatching`), so that everything proved of `Matching!Spec` holds of it. Every step is
  also a step of `Realtime` or none (`HopinIsRealtime`): `Matched`, the conjunction of
  Matching's invariants, tells that the call that commits a match or a NO_DRIVER finds the ride
  open, that the call that announces is the only one of its ride, and that a restart ends
  all telling. What `RealtimeProofs` proves of `Realtime!Spec`, for every value of its
  variables, hence holds of the sockets of the whole, by substitution; tlapm 1.4.5 does not apply
  a theorem through an INSTANCE, so what the positions need is proved here again.
  `HopinIInv` adds to `Matched` types, that a report under way is of a driver matched to the ride
  it names (`ReportsHold`), and for each socket that a room it is in, a `watch` about to
  join one and every position on its screen belong to its own identity and a ride of it
  (`InPlace`). A match is for good (`MatchedForGood`), which is why a position
  may be forwarded late: hence `PositionsGoToTheirPassenger`, and `RoomsAreTheirs` once more.

Every invariant, action property and safety refinement that a run checks is a theorem. Only
model-checked are the properties under fairness (`matching_live`'s but
`EveryRequestKept`, `ConnectionsReturn`, `EveryEntryPublished`, `OutcomeIsLearned`,
`ShutdownEnds`, `EveryCallEnds`), since the prover does not reach ENABLED and the
fairness of actions; and the violations of `OneRidePerDriver` and
`NothingPublishedLate`, which are executions, not theorems. Inductive invariants were
model-checked before they were proved.

## 5. What the work found

`slice/README.md:3` describes the slice as "request a ride, match the nearest
free taxi, match once". The free taxi is not ensured: busy drivers are filtered
out when the search runs, and from then on neither `offerNext` nor `accept` nor the
UPDATE asks whether the driver has a ride already. With two requests close
together, both rides are offered to one driver, who accepts both: both
commit as MATCHED, and the second overwrites the driver's `assign` key, so that the
first passenger's map stands still (run `matching_double`). No fault is needed.

`matching.service.ts:88-91` says of `onModuleDestroy` that "waiting here keeps in-flight
dispatches from publishing on a closed Redis connection". It waits for the dispatches
of the moment it is called, and for those it keeps its word (`HooksDrain`). But the
server still answers requests while it waits: a ride whose request is under way, or made, then is
dispatched, nobody waits for that dispatch, and its offer is published after the adapter is
disposed (run `shutdown_late`). The same holds of an `offerNext` that a timer started just before, which
`inflight` never contains.

Three things the models show that contradict no statement of the repository:

* COUNT counts busy drivers. With `MAX_CANDIDATES` busy drivers near a pickup, a free one
  a little further off is not found, and the ride ends as NO_DRIVER. This is
  the second disjunct of `PassedOverOnlyByCount`; the run does not hold without it.
* A draft may show a MATCHED event and a REQUESTED ride, when the match commits between
  the two reads. The driver is then not the `driverId` of the row that was read, and the case
  file calls the actor of that event `staff`. It never shows the id
  (`OnlyRolesLeave`), and never a state without its event (`EventsReachTheState`).
* NO_DRIVER has no outbox entry. When the process ends between its COMMIT and the message, or
  the COMMIT succeeds but the call rejects, the passenger is not told; a client that reads the ride
  again sees it. In this build the second is an instance of the first: pg reports a dead
  connection by an `error` event, which nobody listens for, so that the process ends. `Hopin` has
  that (the commit, then `Restart`). The fault "commit" of `Matching` and `RideStore` is wider: a
  process that survives the lost answer, as it would with a listener or behind a pooler. The
  safety properties hold with it too; `ImplementsRealtime` is checked and proved without it, and
  `OutcomeIsLearned` speaks of clients that stay connected and read.

## 6. What is not modelled

* The great-circle formula and the ETA's speed: floating-point geometry. What the code does with
  distances, comparing them, is in `CandidateSelection`.
* Validation of headers, bodies and environment variables: single checks without state.
* The request to Bedrock, and its wording. What can come back of it is in `DisputeAssist`.
* The evaluation (`slice/eval/`), its OpenRouter client and the load test
  (`slice/load/`): batch scripts that run next to the service, on synthetic cases or
  against its API; they keep no state of it.
* The documentation tooling: text processing.
* Wiring: modules, bootstrap, `createIOServer`, the DDL that runs once before the system.
* Delivery of offers by Socket.IO to a driver's client: the code treats it as at most once
  and unacknowledged. `offered` and `announced` record what was sent, not what arrived.
  Delivery to passengers is in `Realtime` and `Hopin`.

## 7. The plan

Written, in this order: `RideLedger`, `OfferLoop`, `Matching` (the most important
behaviour), `RideStore`, `OutboxRelay`, and the proofs of each; `Realtime` and
`Shutdown`; then `TenantScope`, `CaseFile` and `DisputeAssist`, `CandidateSelection`
and `Hopin`, and the proofs of each of these.

To come:

1. Proofs of `NewsIsTrue` and `NothingMissed` of `Hopin` directly, which now follow from
   `HopinIsRealtime` by substitution only.
2. Liveness of the whole: a request's passenger learns its outcome, under the
   fairness of `Matching` and `Realtime` together.

## 8. Running it

```
tlc -config matching_faults.cfg MCMatching.tla
tlc -config matching_live.cfg MCMatching.tla
tlc -config ridestore.cfg MCRideStore.tla
tlc -config relay.cfg MCOutboxRelay.tla
tlc -config realtime.cfg MCRealtime.tla
tlc -config shutdown.cfg MCShutdown.tla
tlc -config hopin.cfg MCHopin.tla
tlc -config candidates.cfg MCCandidateSelection.tla
tlc -config scope.cfg MCTenantScope.tla
tlc -config assist.cfg MCDisputeAssist.tla
for m in RideLedger Tables Matching OutboxRelay Realtime Dispatch TenantScope \
         Hopin; do tlapm ${m}Proofs.tla; done
```

`matching_double.cfg` and `shutdown_late.cfg`, with `MCMatching` and `MCShutdown`, end at
their violations. Each run takes seconds to three minutes, the proofs some minutes in
all.
