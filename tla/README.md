# UniTrack backend: specifications

TLA+ modules for the UniTrack hub (`src/app`): the API handlers, the worker's jobs and the
state they share in Postgres, Redis and Elasticsearch. TLC checks small instances; TLAPS
proves the safety properties for every value of the constants. `PROJECT.json` lists the
components, the runs, the source lines of every definition, the hazards and the theorems.

    tlc -workers 2 -config TripsRaces.cfg MCTrips.tla
    tlapm TripsProofs.tla

## The system

One FastAPI process group serves three clients (the helper's phone, the student's app, the
admin console); one worker process runs four loops (`worker/__main__.py`). Handlers and
loops share no memory: they meet in Postgres (READ COMMITTED, one session and usually one
commit per request, row locks only from UPDATE, copies that survive a commit because of
`expire_on_commit=False`), in Redis (caches with a TTL, claims with NX, one stream) and in
Elasticsearch. Every `await` is a place where another request may run.

| Component | State | Operations | Interacts with | Hard behaviour | Correct when |
|---|---|---|---|---|---|
| Orders, payments, tickets (`routes/shop.py`, `services/settlement.py`, `worker/payment_reconciler.py`) | `orders`, `tickets` | `create_order`, return page, IPN, reconciler pass | the SSLCommerz gateway | double taps, late and repeated reports, stale rows across gateway calls, one commit per pass | paid means ticketed; good money stays in reach, a ticket is issued once and against a payment |
| Boarding (`routes/boarding.py`, `services/redemption.py`, `services/boarding.py`, `worker/fraud_sweep.py`) | `tickets`, `redemptions`, `alerts`; the device's outbox and nonce log | scan, `sync_redemptions`/`redeem`, sweep | orders (tickets), alerts | lost answers and repeats, stale copies of a ticket, two devices on one code | no ride charged that is not on record, and each once until two syncs cross; a shared code closes its ticket; one alert |
| Accounts and authorization (`core/authz.py`, `deps.py`, `routes/admin.py`) | `users`, `helpers`, `authz:principal:*` | register, approve, suspend, reinstate, verify, resolve a Principal | every authenticated request | read-then-fill against commit-then-DEL | a stale snapshot has a known cause and ends |
| Sessions (`routes/auth.py`, `core/revocation.py`) | `auth:revoked:*`, `auth:rotated:*`, the app's stored token | refresh, logout | accounts | two isolates with one token, lost answers, deaths between claim and revoke | both get one pair; nobody is signed out by a race |
| Trips and GPS ingest (`services/trip.py`, `routes/helper.py`) | `trips`, `helper:{id}:trip`, `bus:{id}:pos`, `gps_ingest` | start, end, active, ingest | indexer, ETA engine, live map | cache fill against end, late fixes, the grace window | a fix is filed under a trip of its helper and bus |
| GPS indexer (`worker/gps_es_indexer.py`) | the consumer group, the index | read, bulk, XACK, regroup | ingest, ETA engine | deaths, timeouts, lost groups | nothing acknowledged is missing from the index |
| ETA engine (`worker/eta_engine.py`, `services/eta.py`) | `trip:{id}:progress`, `trip:{id}:eta` | one pass per minute over live trips | indexer, trips, arrivals | keys that expire, calls that fail, a bus that turns back | ordered, never past, never a served stop; gone after the trip |
| Incidents and seats (`services/ops.py`, `routes/helper.py:105-188`, `routes/admin.py:343-398`) | `alerts`, `seat_reports`, `bus:{id}:seats` | raise, acknowledge, resolve, report | trips, the console | check-then-write by two admins, out-of-order publishes | one admin per incident, which stays closed; a seat count is a recorded one, and the last |
| Credentials (`routes/auth.py:87-352`, `core/email.py`) | `users`, Redis claims | register, verify, resend, forgot, reset | sessions | single-use links, cooldown claims | a link is used once; mails are spaced |
| Catalogue (`routes/admin_catalog.py`, `routes/admin.py:406-533`) | products, stops, routes, buses | create, update, delete, replace stops | ETA engine, trips | check-then-write, two edits of one row or list | a route's list is one that somebody saved; an edit undoes nobody's |
| Live map (`services/live_track.py`, `routes/ws_track.py`) | `RosterCache` | authenticate, stream | trips, Redis | queries that overlap over one TTL cache, a frame put together from several instants, sessions that live as long as a socket | a frame's roster is of a bounded age, its pins are fresh |
| Nearby buses (`routes/tracking.py:60-216`) | none | one search of the index | indexer | fixes indexed late, out of order or twice | an answer has each bus at its latest place around here, and misses none that is here |
| Other reads (`routes/tracking.py`, `services/fleet_view.py`, `routes/fleet.py`, `routes/bus_track.py`, `routes/wallet_page.py`) | none | arrivals, history, fleet | all of the above | | |

All but the last row is modelled; what is left out of each is under *Not modelled*.

## Modules

Each component has a specification and an `MC` module that gives TLC its instance, and the theorems are in
`Proofs` modules: one per component, `ConsoleProofs` for the map and the desks of `MCConsole`, and `NearbyProofs` for `Indexer` and `Nearby`. A request or a pass is a record with a `pc`; one action
covers the code from one `await` that others can observe to the next, so a copy read before
an `await` is a field of the record and a later action may act on it when it is out of
date. Variables marked (history) are not in the program; they remember what a property asks
about. Operators named like an action with a suffix (`ClearByUserId`, `LateUnchecked`, ...)
are faulty variants, never part of `Next`, kept to show which mistake each property catches.

**Purchase** is what the store promises: the money the gateway took for each order, and the orders that hold a ticket; a ticket is issued once,
for good, and only against money of the order's price: its own, or, for an order in `misnamed` (the last report named a payment
of another), against that one.
**Settlement** implements it (`SellsOnce`, with `taken`, `held` and `misnamed` read off `money`, `tickets` and
`row`). `row` is an order's status and what its `raw_payload` is about: nothing (`"null"`), the order's own payment, or something
else; `tap`, `settler` and `pass` are `create_order`, `_settle` and the reconciler, each with the status it read before it
called the gateway. `page` and `money` are the gateway's side: a payment has an amount, right or wrong, and may be flagged as a risk.
A return or an IPN names an order and carries any `val_id` it likes (`ValIds`): of a payment of that order, of another's, or of none that the
gateway confirms. `Verdict` compares the amount and the currency of what that `val_id` names with the order's, as `apply_validation`
does, and never the `tran_id`, since the code does not. `Sold` are orders settled before, whose payments a report can name. A pass asks by `tran_id`
and so about the order's own payment; of the attempts under one `tran_id` at most one takes money, which is the gateway's rule. It stages its results
and commits once; `Poisoned` is a ticket INSERT that meets the unique `order_id` and rolls all
of it back. Declines may arrive at any time, repeatedly. After a
rollback the ORM objects are expired, so the loser of a double tap (`shop.py:146-148`) and
the log line after a lost settlement (`shop.py:272`) may end in a 500 instead of going on:
`TapDies` and its like cover that outcome.

**Boarding** has the device's side (`shown`, `outbox`, `scanned`) as external actions and
`sync_redemptions` item by item: `held`/`snap` is the session's copy of the ticket, which a
rollback drops and a second item of one request reuses. An UPDATE writes only the columns
whose value changed from the copy, which is why `status` and `remaining` are written apart.
Two histories name what two syncs at once can do to each other: `missed`, the codes recorded as clean while another sync that had looked for them
in vain was about to do the same, and `crossed`, the tickets a clean boarding of which was recorded while another sync worked on a copy
of its own. The sweep loads evidence, looks at each ticket, and commits suspensions with their alerts.
The clock counts 30-second slices; signatures are not modelled, a code stands for its nonce.

**Accounts** writes `users.status` and `helpers.status` as the handlers do, each over the
columns it found changed, then the two DELs (`invalidate`, and the one in the teardown
after the handler). A request that misses the cache reads, then fills. `doubt` collects the
accounts changed under such a read, or whose DEL was lost.

**Sessions** numbers the tokens in the order they are minted. A refresh checks the deny
list, recalls a rotation if the token is revoked, mints, claims with NX, fetches what
another claimed, revokes and answers; `Lapse` is the end of the grace window (`slow` names the
fault of a retry that comes after it). `heirs` remembers what each token was exchanged for.
**Succession** is what it promises: the tokens of a session are one chain, each exchanged once, while it is
the one the app holds; the app moves only to the end of the chain, and only its user signs it out. `OneChain` is the refinement, with `left`
read off `loggedOut`; after a failure of Redis or a late retry (`sound` is read off `happened`) nothing is promised. It implies `OneHeir`, which is proved
and left out of the run.

**Trips** covers the rows of `trips` under their two partial unique indexes, the cached
active trip, the position key and the stream. A request is a start, an end, a question about
the active trip, or an upload of one fix; `recent` is the grace window of `recently_ended_trip`.
`Take` and `Send` are the app's sensor and outbox (external).

**Indexer** is the stream, the group's position, the pending list and the index. Faults are
a read that times out after Redis delivered, a failed bulk call, a crash, a lost group, a
wiped Redis. `Add` is ingest's XADD. The entry id is the document id, so indexing twice is
the same as once. `Delivered` excludes what the group will be given again.

**Eta** is one trip (a pass treats trips independently). Instants are kept as ages, so
`Tick` alone passes time. `Advance`, `Scheduled`, `Estimate`, `Arrivals` are `advance_progress`,
`schedule_delay`, `estimate_arrivals` and `_monotonic`; the fleet's geography is a line
(`Where`, `Mile`) and a speed is a pace any bus seen in two places may turn out to have, or
none. `furthest` is the furthest stop a board was written past, or `Forgotten` once the
engine has lost its progress; `dropped` says that the last pass left the board as it was.

**LiveMap** is one process's streams of one route: `track_route`'s handshake, `_stream`'s loop, `RosterCache.get`
with its lock around the look and the store but not around the query, and `build_frame`. `held` is the
set of sessions that have one of the pool's connections (db/session.py leaves the engine's default of
5 + 10; authentication and `route_exists` are one step, and only the first query takes a connection). `begun`, `from`, `over`, `to` (history: the times) are the trips as the
database has them, `pos` the time of receipt in `bus:{id}:pos`. One constant is both its expiry (helper.py:280)
and `LIVE_MAX_AGE_S`, as in the code. `QueryTime` bounds a roster query; there is no bound on how long the other awaits take.

**Incidents** has the phones of one bus and the console. An alert and a seat report are flushed, committed, and
published by a call that may fail (`publish_alert` swallows that, `publish_seats` does not). A console request keeps
the row it `read`; its commit writes the columns that differ from it. `raced` collects the alerts written while another
request had read them; `doubt` says that two counts were being published at once, or one never was.

**RouteStops** is a list as rows with a `seq`, and `generation` for their ids. `replace_route_stops` is its check, its DELETE
(a statement that takes its snapshot when it starts, may wait for another's, and then gets what is left) and its INSERTs with the
commit, where the two unique constraints and the foreign key to stops may refuse all of it. `delete_stop` is its check and its DELETE.

**Registry** is the table of buses and that of routes (one direction; a second would be a third column), with a name and a state per row. An edit
writes a column only if it was asked for and differs from the copy (`Written`); a batch is one INSERT.

**Credentials** is one address: the account's status, the two cooldown keys, the reset links with their lives and their
denylist entries. `sent` is the last mail of each kind, with its age and who sent it, the registration or a request; `crowded` collects the
senders of mails that another followed within the cooldown. The registration sends its mail without a key. `Grant` is SET NX EX, `GrantBlind` the same with Redis failing open. An error of Redis in `is_revoked` lets a used
link through, one in `revoke` leaves it good.

**Nearby** extends `Indexer` with time and one reader, who sends a search with its cutoff and gets the page later, of whatever the index holds by
then. `Pages` is what Elasticsearch makes of `build_nearby_query` (filter, sort, collapse, size), `Answer` the final sort by distance
(`ByDistance`, any arrangement of the page that is sorted).

**MCConsole** is the sum of LiveMap and of the four desks Incidents, RouteStops, Registry and Credentials. They share no variable and no action, so
a property that reads the variables of one holds in the product exactly if it holds with the others at rest; `active` is the part a
behaviour explores, in full, and the state space is the sum of theirs instead of the product. Its operators begin with `Console`
where a part has the same name, and `MailFaults` are the faults of Credentials. The stops of the lists and the devices of the map have
the same model values, as no behaviour uses both, so that one set of permutations is the symmetry of both parts.

How they compose: the components interact through single keys and rows, so each module
takes its neighbour's side as an action: `Indexer`'s `Add` is `Trips`' `file` step, `Eta`'s `Report`
is what both put in the index, `Boarding`'s tickets are those `Settlement` issues (from their
issue on), and `Sessions`' refresh ignores suspensions, which the next request meets
in `Accounts`.

## Runs

| Run | Instance | Shows |
|---|---|---|
| `SettlementOneOrder` | 1 order on sale beside a sold one, 1 tap, 2 reports, payments that are right, flagged or of a wrong amount, batch 1 | `PaidHasTicket`, `MoneyInReach`, `SellsOnce`. The sold order's payment is the one that a report may name for the other; two reports and the pass race on a row; a third would only repeat what a second does, each being one read and one write. Price is 1: only whether an amount is equal to it matters. |
| `SettlementLive` | 2 orders, 2 taps, no reports, batch 2 | `PaidGetsTicketUnlessPoisoned`: the reconciler alone delivers. Two orders so that one can spoil the other's pass, two taps so that one loses the INSERT to the other. |
| `SettlementStarved` | 2 orders, batch 1 | Finding: `PaidGetsTicket` fails. |
| `BoardingOneSync` | 1 ticket of 2 rides, 2 devices, codes of 1 and 2 passengers, 1 request, 3 slices | `DuplicateIsClosed`. The slices go one beyond the tolerance, so stale codes occur. |
| `BoardingTwoSyncs` | the same with 3 rides, 2 codes of 2 passengers, 2 requests; 2 slices, and the ticket ends after the first | `NoOvercharge`, `LedgerExact`, `OneCleanSighting`, `AlertedOnce`: two devices, or a batch and its retry, at once. Both codes fit the rides singly and not together, so the count is cut off at zero. |
| `AccountsRaces` | 1 account, 2 handlers, 1 request, all faults | `StaleHasCause`, `PendingTogether`, `LiftedOnPurpose`, `SuspensionPrevails`. |
| `SessionsTwoIsolates` | 3 requests, 3 tokens, all faults | `OneChain` (the refinement of Succession), `NotSignedOut`, `ExchangedIsRevoked`. Three: two isolates and a retry of one; three tokens make a chain of two rotations. |
| `IndexerFaults` | 4 fixes of 2 buses at instants 0 to 2, 2 a read, 2 faults, one search at a time | `AckedIsIndexed`, `IndexedUnlessLost`, `NearbyIsLatest`. One bus comes close, goes farther and leaves, so its latest fix, its latest around here and its closest are three; the freshness of 1 drops the oldest. |
| `NearbyDrivenOut` | the same without faults, freshness of 2 | Finding: `ListsOnlyTheNear` fails. |
| `TripsRaces` | 2 helpers, 2 buses, 2 trips, 1 fix, 2 requests, all faults | `FiledRight`, `StaleHasCause`, `BindsForward`. Two trips: one that is over and the next, of the same helper or of the same bus. |
| `EtaBoard` | 3 stops, 3 places, 2 fixes, pass of up to 2 ticks, keys that live 2 ticks, all faults | `OffersOnlyAhead`, `BoardFollowsTrip`. One stop without a time, one never reached, one that is live and then scheduled: the seam of the two estimators. |
| `ConsoleDesks` | 1 incident, 2 admins, 2 phones, 3 reports; 3 stops, 1 route, 2 editors, lists of 2; 2 rows, 2 names, 2 clerks; 2 visits, 2 links that live 2 ticks, a cooldown of 1; of the map 3 devices, 2 connections, 1 trip, roster kept 2 ticks, query of 1, key of 2, 5 instants; all faults | `IncidentKept`, `SeatsFollowReports`, `RouteWhole`, `RegisterIsAsEdited`, `LinksAreSingleUse`, `MailsAreSpaced`, `RosterBounded`, `PinIsFresh`. Two requests race on each row; three stops let a list be reordered, changed and shortened; a third report meets two that land out of order; a second link is minted while the first still lives, which takes a cooldown shorter than a link's life; two devices query at once and one is turned away; the time is long enough for a roster to be stored late, to expire and to be fetched again. |

Each run also checks its module's `TypeOK` unless a sibling run does. `EmptyIsClosed` (Boarding), `OneHeir` (Sessions) and `InOrder` (Eta) are proved for
every instance and left out of the runs.

Bounds: `MaxTokens`, `MaxTrips`, `MaxFixes`, `MaxFaults`, `MaxClock`, `MaxLate`, `AgeCap`, `MaxReports`, `MaxLength`, `Links`. Where one of
them stops the whole system the configuration turns the deadlock check off (Sessions,
Indexer, Trips); everywhere else it is on. Symmetry is used only in runs without liveness.

### Fairness

Only the program's own loops and timers are fair, never a user, a gateway's verdict or a
fault. `Settlement`: the reconciler's `run` survives every exception (payment_reconciler.py),
so passes start, answers are handled and passes commit; time ages orders; outages of the
gateway and deaths of the worker end. `Boarding`: the sweep's steps, and it does not die for
ever. `Accounts`: Redis expires keys, and a started request ends. `Indexer`: the worker's steps, since compose
restarts it. `Eta`: ticks, the engine's steps, and an end of outages. "Outages end" is phrased as
*eventually every failing step is also a successful one*, because a pass that dies with
nothing staged, or a failed read of a key that is not there, is the same step as one that
succeeds.

### Findings

* **A payment behind abandoned orders is never settled** (`SettlementStarved`). `_unsettled`
  matches orders it has itself closed, since their `raw_payload` stays null; they fill the
  oldest-first batch for good. Contradicts payment_reconciler.py:11-12 and 72-73.
* **A search shows a bus that has left** (`NearbyDrivenOut`). The radius is part of the filter, so a bus whose latest fix is out
  of it is answered at an older one inside it, until that is no longer fresh. Contradicts tracking.py:189 ("Buses whose latest fix is within
  `radius_km`"), of which the run asks only the fixes known when the question was put. `NearbyIsLatest` says what the code does instead.

### Observed while modelling, without a run

*Settlement.* Nothing compares the `tran_id` of a validated payment with the order's (shop.py:238-260, settlement.py:68-110): a report
that names an order and the `val_id` of another order's payment of the same price issues a ticket for an order nobody paid, against shop.py:15-17 ("A
forged return fails validation and issues nothing"); `SellsOnce` promises no more than that, and needs `misnamed` for it. A `val_id` of
no payment, or of one of another amount, reported before the student has paid sets `raw_payload` on a failed order, which `_unsettled` then
leaves out: a later payment whose own report is lost is out of the reconciler's reach, the very loss that payment_reconciler.py:65-72 wants to prevent;
it is the exception in `MoneyInReach`. One IntegrityError discards every order of a pass. A late write of a handler
can turn `paid` back to `pending` or `failed` (the ticket stays; `PaidHasTicket` is one-way).
*Boarding.* `redeem` verifies the slice against the server's clock at sync time
(redemption.py:135), so a boarding accepted offline is refused, and dropped by the device, once its slice and the tolerance
are over, against routes/boarding.py:201 ("online or hours ago"). Two syncs of two codes can both spend the last ride, and one code on two devices can be
recorded clean twice, when neither transaction sees the other, although redemption.py:12-17 says without that limit that the second is recorded as
a duplicate and not deducted: `missed` and `crossed`, the exceptions of `OneCleanSighting` and `LedgerExact`, are these two cases, and `NoOvercharge` has
none, as the lost deduction is in the passenger's favour. A duplicate on a ticket that is exhausted is never swept
(docs/spec.md:292). `sync_redemptions` answers "already recorded" to any IntegrityError
(routes/boarding.py:259-265). Nothing restores a suspended ticket. docs/spec.md:257 has the
sweep flag both redemptions; the code does not. *Accounts.* A suspension may not reach the
next request, although authz.py:17-19 says it does: a snapshot read before the commit is cached after both DELs
(authz.py:139) and served for the TTL; it is one of the causes in `StaleHasCause`. `verify_email` (auth.py:348) can undo a
suspension that commits in between; `reinstate` approves a helper that never was
(admin.py:206-211). *Credentials.* A reset link sets a second password when two
requests present it at once, when Redis does not answer, or when the process dies between the commit and the revoke (auth.py:292-304);
the docstring names the second only. The mail sent at registration does not take the cooldown, so a resend may follow at
once (auth.py:62, "One confirmation mail per address per two minutes"); it is the one exception of `MailsAreSpaced`. *Sessions.* A refresh in flight at logout answers a live pair. A process that dies
between claim and revoke leaves the old token live for its lifetime. *Trips.* A failed DEL leaves an ended
trip cached up to 16 hours, and a repeated end finds nothing to clear (409). Once a helper is
live on another bus, late fixes of the bus they did drive are answered 409 and dropped,
though services/trip.py:175-178 says a 409 means "this is not a bus you drove". Fixes of an ended trip are filed under
a later live trip of the same helper on the same bus. A repeated upload adds stream
entries of its own, and an older batch overwrites the live position. Nothing closes an
abandoned live trip, though services/__init__.py:8-9 speaks of a worker that does. *Indexer.* Only `>` is
ever read, so entries of a dead process stay pending for good; a bulk error stops every
loop of the worker through `gather` (worker/__main__.py); comments at gps_es_indexer.py:79-80
and 88 say compose sets no restart policy, docker-compose.yml sets `unless-stopped`. *Eta.* The progress
key lives 30 minutes after the last new stop: a bus stuck longer, or one failed read, starts the
route over, offers served stops again and then saves the lower stop, though redis.py:97-102
says progress must only ever move forward. An empty answer leaves the previous board up for its TTL, so
the served last stop stays "arriving"; `GET /trips/{id}/eta` serves the board of an ended trip for
as long. A return leg that passes within 150 m of an early position's stops jumps progress
ahead. `FIX_LIMIT` with the ascending sort keeps the oldest 200 fixes. A slow live estimate
beyond three hours hides the scheduled one. *Live map.* A stream's session
never commits, so it keeps its connection until the socket closes: 15 watchers use up a process's pool, and the
next query of any request waits 30 seconds and fails, against the 2000 clients of docs/spec.md:386 and
"O(routes), not O(clients)" (live_track.py:12). The roster may go back to an older one, when a slow query is stored
last; a frame may be behind by the cache's time and that query, not the cache's time alone
(live_track.py:20-21). No frame is ever "stale": the key expires at the age from which amber would start (docs/spec.md:362).
Seats are the bus's, not the trip's: a new trip shows the last one's until they are reported. The token is checked at the handshake only. *Incidents.* Two admins can acknowledge one alert (admin.py:369), which admin.py:365 says it
prevents; a late acknowledgement reopens an alert resolved meanwhile, and keeps its resolution; a late resolve replaces who acknowledged it. A resolution
may come without a note (schemas/ops.py:56), and nothing writes `dismissed`. The list's "pass null for all" (admin.py:347) cannot be
passed in a query string. A seat count may be shown for 900 s after its trip. *Catalogue.* Of two
operators who replace one list at once, and of a stop deleted while a list takes it, the loser's IntegrityError is uncaught (500); so is that of a batch
of buses that lost a race (admin.py:531). A PATCH to the value its own copy already has writes nothing, so what another request
changed meanwhile stays. A PATCH of a registration to null is answered "another bus already has that registration"
(admin.py:483-487). *Nearby.* `limit` keeps the newest buses, not the closest. *History.* The limit keeps the oldest points, and a heading of 0.0 (north) becomes none.

## Proofs

Each theorem holds for all constants that meet the named assumptions (`RouteAssumption`,
`BatchAssumption`, ...: sets, numbers and functions of the right kind, finite where a
cardinality is taken, and a reserved word such as "none" that is no member of the set it stands beside). Every component has
`Init => Inv` for an inductive invariant `Inv`, one lemma per group of actions that it is kept, and the properties from it.
Every invariant and action property of a passing run is stated by a theorem.

* **SettlementProofs**: `TypeCorrect`, `PaidIsTicketed`, `NoMoneyLost`, `ImplementsPurchase`.
  `IInv` adds that a row whose `raw_payload` is about the order's own payment has that payment, and, if it is good, its ticket (`OwnMeans`: otherwise a late
  decline could take the order out of the query), that what a pass
  has staged is what the gateway still says (`StagedIsTrue`), that a settler's `val_id` is of a payment made, and that every page and every actor's
  order exists. A payment once taken does not change, so neither does what it means for an order.
* **BoardingProofs**: `TypeCorrect`, `EmptyTicketsClosed`, `AlertsOnce`, `OneCleanBoarding`, `NoOvercharges`, `LedgerAgrees`, for any number of syncs at
  once. `IInv` adds `CopiesNotAhead` (a session's copy shows a ticket closed only if it is closed: a copy may be behind its row, never ahead) and
  `AlertsClose` (a ticket with an alert is closed, and the sweep holds only tickets without). `OneCleanBoarding`
  rests on `SightInv`: an item about to be recorded as clean has not been sighted, or another sync that had looked for it too recorded it meanwhile, and
  the code is `missed`. The ledger has an invariant of its own, `LedgerInv`, as neither of its properties is inductive: `redeem` computes the new count
  on the session's copy, so each copy too must owe what the records say (`CopyOwes`): never less than the row should, and exactly that unless the ticket is `crossed`; and
  a clean item about to be written must be covered by its copy, or the count would be cut off at zero. The sum is a fold whose order nothing fixes;
  `SumCounts` shows it equal to the number of the records' riders (pairs of a record and a number up to its count), since of the
  sets for which it were not there would be a smallest, from which any record can be taken. One record then adds its passengers (`RidesNext`).
* **AccountsProofs**: `TypeCorrect`, `StaleOnlyWithCause`, `PendingIsTogether`, and the action property `SuspensionLiftedOnPurpose` (from `VerifyRead`: a
  confirmation at work had read an unconfirmed address). `IInv` adds `SeenPending` (nothing
  returns to pending, so a handler's copy of a pending account is right) and `ReadsFresh` (what is about to be cached is
  current or in doubt).
* **SessionsProofs**: `TypeCorrect`, `Converges`, `StaysSignedIn`, `Spent`, `ImplementsSuccession`. `IInv` adds that the app presents one token
  at a time and never an older one (`Forward`), and what the two keys say of each exchanged token (`Kept`). The refinement
  adds `OnChain`: unless Redis failed or a retry came too late (a token may get two heirs then), the app holds what its requests present or
  what that was exchanged for, and an answer on its way carries an heir. An answer is then an exchange the first time and a stutter afterwards
  (`AnswerExchanges`), a delivery one step along the chain or a stutter (`DeliverAdopts`), and a refusal comes only after a logout.
* **TripsProofs**: `TypeCorrect`, `FixesFiledRight`, `StaleOnlyWithCause`, and the action property `NeverBindsBack`. `IInv` adds who
  owns every trip an actor or a key holds, and that a helper's earlier trips are over (`InOrder`).
* **EtaProofs**: `TypeCorrect`, `BoardInOrder`, `ServedNotOffered`. Least and greatest elements come from the
  well-foundedness of the naturals; `ArrivalsInOrder` shows the answer ordered, in range
  and ahead for every route. `IInv` adds that what a pass is about to save is not behind what is saved,
  and what it writes from is what is saved (`PassAhead`), unless the engine forgot.
* **ConsoleProofs**, the live map: `MapTyped` (with the pool), `RosterIsBounded`, `PinsAreFresh`, of LiveMap's own specification. `Current(S, x)` says that a
  set of trips describes the route as of x or later. It holds of x's past whatever the fleet does next (`FleetKeeps`) and of any
  earlier x (`CurrentEarlier`); `MapInv` dates with it what the cache, a query and a frame hold.
* **ConsoleProofs**, the four desks, each from its own specification and for any number of requests:
  * *Incidents* (`IncidentsHold`): a request at work on an alert nobody raced for has read the row as it is (`ReadsHold`); an
    alert is being raised by one phone (`RaisedOnce`); without doubt the only count on its way is the last (`LastOnItsWay`).
  * *RouteStops* (`ListsHold`): what a DELETE is after, or got, is all that the route now has or none of it (`DeletesWhole`), so the rows
    that a commit leaves are one list. The model reuses the numbers it gives to insertions; a pigeonhole argument (`RoomLeft`) shows that one
    is always free, the route's rows and each request holding at most one.
  * *Registry* (`RegistersHold`, an action property): no two rows of a table have one name, and a request edits a row
    of its own table that exists.
  * *Credentials* (`CredentialsHold`): a link that nothing excuses is in one request's hands, unused while only checked, and once used
    dead, denied for as long as it lives, or about to be denied (`Spent`); the key of a mail that a request sent lives until its cooldown has passed.

  As every behaviour of MCConsole is one of each part, `ConsoleTyped`, `IncidentsKept`, `SeatsFollow`, `RoutesWhole`,
  `RegistersAsEdited`, `LinksSingleUse` and `MailsSpacedOut` follow. `DesksAssumption` has only that the reserved words are no names, the bounds are
  numbers and the editors, whose number bounds the insertions, are finitely many.
* **NearbyProofs**: `IndexerTyped` and `NothingAcknowledgedUnindexed` (what is about to be acknowledged is indexed), and
  `AnswersAreLatest` for `Nearby`. Any finite set of cards can be put in order (`PutInPlace`, `PagesSort`), hence
  `ByDistance` returns the page sorted and whole (`AnswerLists`); the hit kept of each bus is its latest (`KeptIsLatest`); what the last
  answer had is still in the index and around here (`ReaderHolds`), so a bus never goes back; with room left no bus is missing that has a fresh fix here (`RoomForAll`),
and so none whose latest one is.

Only model-checked: liveness (`PaidGetsTicketUnlessPoisoned`, `DuplicateIsClosed`, `SuspensionPrevails`,
`IndexedUnlessLost`, `BoardFollowsTrip`), which the prover does not reach.

## Not modelled

Reads that keep no state (arrivals, history and the live fleet of `tracking.py`, `fleet.py`, the maps of the whole fleet and of one bus, the wallet page, the manifest, lists);
field validation, formatting and logging; the cryptography of tokens and QR codes; the HTTP of
the gateway client and of the mail relay; the schema and its migrations; scripts and deployment. Of modelled
components: the product checks before an order and the products' own editing (one row, no rival but another edit, as in Registry), the device
keys, `update_me`, a stop's name and place, the severity of an alert, a route edited during a
trip (Eta's route is a constant), the passes of several trips sharing one instant, the positions' own timestamps.

## Plan

Done, in this order: Settlement with Purchase, Boarding, Accounts, Sessions with Succession, Indexer, Trips, Eta, LiveMap, then Incidents,
RouteStops, Registry, Credentials and Nearby.

1. RouteStops composed with Eta: a list replaced under a live trip, whose saved progress then names another stop.
2. Ingest to index to board: Trips, Indexer and Eta composed, with an abstract specification *a fix accepted is a
   fix the engine can see, or its loss has a cause*, refined by Trips and Indexer.
3. Abstract specifications of Boarding (a ledger of rides) and of Accounts (a snapshot with a cause), and their refinements.
