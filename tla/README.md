# UMI backend: formal models, checks and proofs

This directory models the Go backend of the UMI ride-hailing platform (the
repository this sits beside) in TLA+. Modules are model-checked with TLC on
small instances; most of their safety properties are theorems that TLAPS checks
for every instance. Source paths below are relative to the repository (`src/`).

## 1. The system

One Go process serves a JSON API over `net/http`, one goroutine per request,
and keeps all its state in PostgreSQL through a `pgxpool` of ten connections
(`internal/db/postgres.go`). There are no transactions and no `SELECT ... FOR
UPDATE` anywhere: a handler is a sequence of single SQL statements, each atomic,
with every other request free to run between two of them. A conditional UPDATE
(`WHERE status = ...`) and its `RowsAffected` are the only synchronisation. The
only shared memory is the rate limiter's map.

| Component | State | Operations | Talks to |
|---|---|---|---|
| ride status machine (`internal/model/ride.go`) | none | `CanTransitionTo`, `IsTerminal`, `CancelableStates` | ride handlers |
| ride handlers (`internal/api/ride.go`) | table `rides` | create, cancel, accept, en-route, arrived, start, complete; reads and the estimate | `drivers.available`, `suspended_until` |
| driver availability (`internal/api/driver.go`) | `drivers.available` | toggle; also written by accept and complete | suspensions (guard) |
| driver location, nearby search, live map (`driver.go`, `admin_map.go`) | `drivers.location` | `UpdateLocation`, `NearbyDrivers`, `ActiveRides` | `available`, `rides` |
| suspensions and bans (`internal/api/admin.go`) | `suspended_until` of users and drivers, `suspension_history` | suspend, unsuspend, ban, history | guard of create, accept and going online |
| registration, one-time codes, sessions (`internal/api/auth.go`) | `users`, `drivers`, `admins`, `otp_codes`, `refresh_tokens` | register, request and verify a code, refresh, logout | SMS provider, JWT |
| access tokens and roles (`internal/auth`) | none (HS256 JWT) | `Auth`, `RequireRole` | every route |
| rate limiter (`internal/api/ratelimit.go`) | map of buckets under one mutex | `allow`, `cleanup`, sweeper goroutine | auth routes by IP, the others by user |
| server (`cmd/server/main.go`) | process | routes, sweeper, shutdown | all |
| admin panel, statistics, health, CORS, config, migrations, Terraform | - | reads, single statements, infrastructure | - |

What is hard, and which properties it calls for:

* **Rides: interleaving and stale reads.** Two drivers accept one ride; a
  completion races a cancellation; the driver's right to advance a ride is read
  in one statement and not checked again in the next; `RowsAffected = 0` is
  read as a conflict; an acknowledgement is lost after the commit; the flag is
  written after the ride. Properties: the handlers behave as if requests were
  atomic, an answer of success stays true, nobody wins twice, a 409 is genuine,
  only the parties act, a cancellation that passed its checks ends the ride.
* **Sessions: rotation.** Two refreshes with one token, a logout in the middle
  of a refresh, a retry of an unanswered refresh, a crash between revoking and
  inserting. Properties: a traded token is dead, a dead token buys nothing, one
  successor per token, ending is final, a reuse ends everything.
* **One-time codes: counting.** Guesses are judged by a count that is raised
  later, and by account, not by code; an SMS may fail, or arrive after a newer
  one. Properties: a bound on wrong guesses, a bound on uses, nobody locked out
  by guesses at another code, asking again repairs what a failed SMS broke.
* **Rate limiter: arithmetic and forgetting.** Lazy refill, entries removed by
  a sweeper with an old clock, rounding of `Retry-After`. Properties: forgetting
  is invisible, waiting is enough, bursts are bounded (by `2 * Capacity - 1` in a
  window: the comment's "`capacity` requests por `window`" is the average rate).
* **Suspensions: two statements.** A ban and its lifting write the account and
  then the history, in no transaction, and the second failure is swallowed.
  Properties: a ban in force is on record, a lifted one is marked, the record is
  never rewritten.
* **Registration: two statements, three spellings.** The account is there before
  its token; a phone is compared as text. Properties: no second account by
  registering, a registered phone gets in, a failed registration recovers.
* **Availability and the map: flags that follow rides.** `available` is written
  after the ride, and positions only while it is up. Properties: assigned only
  when available; whoever accepted is on the map, offered again, or stranded by
  a cancellation.
* **Views: queries written apart.** Every panel has a WHERE of its own, and a
  page is two statements. Properties: panels agree, none of the rides that were
  there is skipped, and a total promises no more than the pages show.
* **The process: a shared pool and an exit.** Handlers share ten connections, and
  one of them waits for an SMS provider without a deadline. Properties: nobody
  waits for a connection for ever, `/health` answers, a signal ends the process.

## 2. Modules

| Module | Models | Kind |
|---|---|---|
| `RideModel` | `internal/model/ride.go`, a row of `rides`, the fare | operators |
| `RideLifecycle` | what the table `rides` promises, each request one atomic event | abstract specification |
| `Rides` | the handlers of `ride.go`, `ToggleAvailability`, one action per statement | detailed specification |
| `Views` | what `GetRide`, `ListRides`, the rider's and the driver's lists, the admin panel and the live map read of a state | operators |
| `History` | `RideLifecycle` with those who read it; `RiderRides` page by page | composition |
| `Trips` | `Rides` with apps that send one request at a time, `UpdateLocation`, `NearbyDrivers`, `ActiveRides`, an administrator | composition |
| `Suspensions` | `suspended_until`, `suspension_history`, the five handlers that write them | specification |
| `Sessions` | `refresh_tokens`, `RefreshToken`, `Logout` | specification |
| `Accounts` | `users`, `drivers`, `admins`, the registrations, `AdminCreateDriver`, role detection and login, on top of `Sessions` | composition |
| `Otp` | `otp_codes`, `RequestOTP`, `VerifyOTP`, the SMS | specification |
| `TokenBucket` | a bucket that fills every tick and is never removed | abstract specification |
| `RateLimit` | `tokenBucket`, its sweeper and `Retry-After` | detailed specification |
| `Server` | `main`, the shutdown goroutine, the pool, `/health` | specification |
| `HistoryProofs`, `RidesProofs`, `TripsProofs`, `SuspensionsProofs`, `SessionsProofs`, `AccountsProofs`, `OtpProofs`, `RateLimitProofs` | theorems about the module they are named after (`HistoryProofs`: about `RideLifecycle`, which `History` extends, too) | proofs |
| `MC*` | constants and symmetry for TLC | instances |

`Rides` implements `RideLifecycle` (`RefinesLifecycle`, through `INSTANCE`;
`Fares` becomes the set of fares of the rides' distances), which is why `History`
may read the rides of `RideLifecycle`: a reading sees the table between two
statements. `RateLimit` implements `TokenBucket` (`ImplementsBucket`; a key's
level is what its entry would be refilled to now, or a full bucket when it has
none). `Trips` EXTENDS `Rides` and reuses its handlers; `Accounts` EXTENDS
`Sessions` and hands its requests over at the INSERT of the token (`Issue`).
`Otp` ends where `Sessions` begins: `IssueTokens` is the `Login` of `Sessions`.

### Conventions

* **One action per call.** A request is a record with a `pc` naming the next
  call to the database, the values the handler has read, and its answer. An
  action is one statement together with the code up to the next one. Statements
  are atomic, as PostgreSQL makes a single-row UPDATE under READ COMMITTED.
* **Faults** (a constant). A call fails before it does anything (`DbError`,
  `CallFails`); it commits and its acknowledgement is lost (the `Faults`
  disjuncts); the process dies between two calls (`Killed`). Calls run under
  `r.Context()`, so a client that hangs up has the effect of the first two.
* **Left out**: answers that depend on no stored state (malformed bodies and
  paths, a missing token) change nothing; formatting and logging.
* **Mutants.** Definitions marked `Mutant:` are plausible bugs, used in no
  specification: each property is known to catch one (`PROJECT.json`).

### Rides

| State | Code |
|---|---|
| `rides[r]` | the row: status, passenger, driver, fare, cancelled_by; `NoRow` before the INSERT |
| `available[d]` | `drivers.available` |
| `suspended[u]` | `suspended_until > now()`; `Suspend`/`Unsuspend` are the admin's UPDATEs, a ban, or time passing |
| `req[q]` | a request under way |

`Submit` is the arrival of any request a route's role allows, for any ride,
assigned or not. `SuspendGuard`, `CheckAvailable`, `SelectRide`, the UPDATE
(`UpdateApplied`, `UpdateMissed`, `UpdateRejected`), `InsertRide`, `SetFlag` and
`Toggle` are the calls, and `CreateRide` ... `ToggleAvailability` say which
handler makes which. A ride's distance does not change, so the fare that
`CompleteRide` computes from the geometry is a constant of the ride.

The column `cancelled_by` is `VARCHAR(20)` and the handler writes 36 characters,
so as deployed no cancellation ever succeeds (`rides_cancel_column`). To see
the protocol behind that, the other runs set `CancelledByWidth` to 36; the
theorems hold for every width, and two of them are about the width:
`NarrowColumnBars`, below 36 characters no ride is ever cancelled, and
`WideColumnSuffices`, from 36 on and while no call fails, no valid cancellation
is answered 500.

### Sessions

`tok` remembers what became of deleted rows and which token was traded for which
(`parent`), which no column does: both are there for the properties. `sent` are
the tokens that reached a client, the only ones it can present. `expires_at` is
not modelled: it is stored, and no handler reads it. The constant `Overlapping`
holds the users who can have two requests under way. A well-behaved client has
one, but a request whose client gave up may still be running when the retry
arrives, so both are worth knowing. `OneSuccessor` and `EndIsFinal` are false of
overlapping requests: two refreshes with one token both read it live and both
insert a successor, and a refresh in flight survives a logout
(`sessions_logout_race`).

### Accounts

| State | Code |
|---|---|
| `acct[u]` | a row of one of the three tables: its role (the table), phone, and the form the phone is stored in |
| `reg[q]` | a request before it reaches its INSERT of a token; `req[q]` (of `Sessions`) from then on |
| `client` | what a rider's phone is trying: to register, to log in, or in |

A phone has three spellings: ten digits, `+52` and ten digits, with separators.
The registrations store `Normalized`, the migration `+52`, `AdminCreateDriver`
what it is given; `Finds` is the WHERE of the login. `LookupUser` may pick any
row that matches, for the SELECT has no ORDER BY. What the client proves with
the one-time code is module `Otp`'s.

### Otp

`wrong` and `used` count, per code, the comparisons that failed and the token
pairs issued; they stop at the value that would refute the property. A guess
whose UPDATE failed is not counted in `wrong`: the handler logs the failure and
goes on, so with faults such guesses have no bound. `contested` are the codes
that two requests under way were judged by: of these alone more is possible than
three guesses and one use. `strayed` are the codes stored while a guess at an
older code of the account was still to be counted: the UPDATE names the account,
so it is counted against the new one (`LockIsEarned`).

`inbox` is the code in the last SMS an account was delivered, and nothing but
another SMS changes it: when the new one fails or the process dies before it is
sent, the stored code is one the user never had, and the last SMS buys nothing.
No document promises otherwise. What holds is that a 200 repairs it: `told` are
the accounts that had one since their code was stored, and `LastSmsCounts` says
that their stored code is that of the last SMS, or none. `crossed` are the
accounts two of whose messages may have passed each other in the server, where
that is false too. A provider that delivers in another order than it was asked
to is outside the model. A code is drawn among those that are not stored and in
no request's hands, so one of the past may come again, that of the last SMS
included; its counts begin anew. `DEV_MODE` is left out.

### Suspensions

`until` is the column, `history` the rows of `suspension_history` by
`suspended_at`. A request that writes two statements is at `pc = "history"`
between them. `overlapped` are the passengers two of whose requests overlapped,
`lost` those of whom a second statement never ran: the stronger half of
`BanOnRecord`, and `LiftOnRecord`, are about the others. The history holds bans
only: `SuspendPassenger` writes none. Time is in ticks. A ban may be of any
length up to that of an `int` (`MaxDuration`), and outlast the 9999 days of
`suspendRow`; what tells a ban from an indefinite suspension is therefore not its
end but which handler wrote the account last, which no column says: `banned`
remembers it for `BanOnRecord`.

### Trips, Views, History

`Views` has one operator per query, a set or sequence computed from the tables
handed to it. `Trips` adds `location` and three history variables: `taken` (the
ride a driver accepted since last toggling), `onDuty` (the driver went online
during a ride) and `standing` (was the actor suspended during the whole request).
An answer is read before anything else happens, which commutes with all of it.
In `History` `order` is the completed rides by `completed_at`; an UPDATE that
started earlier may be in the table later, so a ride may enter anywhere in it.
A list is stated by the places of its rides (`UpTo`, `CompletedOf`), which is
what LIMIT and OFFSET count. The client reads on while pages are full.

### Server

`main` and `closer` are the two goroutines' places in `main.go`; a request is a
number of calls, each of which borrows a connection and returns it. `lent` may
begin at 1: `RunMigrations` closes `sqlDB` and not the migration, whose driver
holds a connection of its own. `Exit` marks what was under way as lost. A request
of kind `otp` waits at `sending` for `Sender.Send` between its calls and its
answer, with no connection and no deadline.

### RateLimit

Time is in ticks and tokens in `Window`-ths, so a tick refills `Capacity` of
them and the code's float64s are integers: its rounding is not modelled. `allow`
holds the mutex throughout and is one action. The sweeper reads the clock before
it takes a mutex, and is two; it may run at any time, not only every five
minutes.

## 3. Runs

Passing runs:

| Run | Bounds | Shows |
|---|---|---|
| `lifecycle` | 3 rides, 2 riders, 2 drivers, pages of 1 | the promise is final (`Settled`); `PagesMissNothing`, `ViewsAgree` |
| `rides_core` | 1 ride, 1 rider, 2 drivers, 2 requests, faults | types; columns agree; `AnswersHold`, `OneWinner`, `ConflictIsGenuine`, `OnlyPartiesAct` (whose request it was is asked of the row as the UPDATE finds it); refinement of `RideLifecycle` |
| `trips` | 2 rides, a rider and a driver with a request each, fair handlers | `AssignedAvailable`, `NearbyAreFree` (who accepted is offered again, on the live map, or stranded), `SuspensionDecides`; a cancellation past its checks ends the ride (`CancelEndsRide`) |
| `suspensions_core` | 1 passenger, 1 driver, 1 unknown id, 2 requests, 2 bans of 1 or 9999 ticks, 3 instants, faults | `BanOnRecord`, `LiftOnRecord`, `HistoryKept` |
| `sessions_core` | 2 users, one with overlapping requests; 4 tokens, 2 requests, faults | `RotationRevokes`, `ReuseRefused`; for the other user `OneSuccessor`, `EndIsFinal` |
| `accounts` | 1 phone, 3 accounts, 3 tokens, 2 tables, 2 requests, one failure, fair handlers and client | `TwinsAreUnnormalized`, `RegisteredGetsIn`, `RegistrationRecovers`, `BreachEndsSessions` |
| `otp_core` | 1 account, 2 codes, 2 requests, faults | `GuessesBounded`, `UsesBounded`, `LastSmsCounts`, `LockIsEarned` |
| `ratelimit_core` | 1 key, capacity 2, window of 4 ticks, 17 instants | `RetryAfterSuffices`, `BurstBounded`; refinement of `TokenBucket` |
| `server_core` | 2 requests of 2 calls, 2 connections, a provider that may never answer | `Served`, `HealthAnswers`, `SignalEndsProcess` |

Runs that find what a document promises and the code does not do (`findings` in
`PROJECT.json` quotes the lines):

| Run | Disagreement |
|---|---|
| `rides_cancel_column` | every valid cancellation is answered 500: a UUID does not fit `VARCHAR(20)` |
| `sessions_logout_race` | a session outlives a logout |
| `server_shutdown` | a signal cuts off requests at once: `main` does not wait for `Shutdown` |

**Why the bounds are enough.** Handlers of different rides share only
`available`, which no guard but `CheckAvailable` reads, and `RidesProofs` covers
any number of rides and requests; one ride reaches every status and two requests
every race of two handlers. Requests are reused, so no run is limited to two in
all. `trips` has the second ride for which a driver's flag matters. Three rides
and pages of one let a ride be completed between any two statements of a reading
that still has a page to go. Four tokens allow two sessions with a rotation
each, or one rotated three times; three accounts, a seeded one, the client's
and another. Bans of one tick and of as many as `suspendRow` sets, over three
instants, expire, outlast an indefinite suspension made before them, and follow
a longer one. Two codes are enough for a guess at the old one to be counted
against the new, and for an SMS to fail and be asked for again. With two verifications the count of attempts
is overrun by exactly one, which is what `GuessesBounded` says for every number.
With two connections and one kept by the migration, two requests wait for each
other. The window of `ratelimit_core` is long enough to let `2 * Capacity - 1`
requests through, and its horizon for an entry to be swept (after nine ticks)
and its key to return; keys share nothing, so one is enough. Symmetry is
declared only over values that are interchangeable, and never in a run with a
liveness property.

**Fairness.** `TripFairSpec` and `AccountsFairSpec` ask weak fairness of each
request's handler: it is a goroutine that the Go scheduler runs, it waits for no
other request (no locks, no connection held between two calls), and while
nothing fails every call returns. `AccountsFairSpec` lets one call fail, then
none, and asks that the phone named in `RegistrationRecovers` go on trying;
nothing is asked of other clients or of administrators. `Server!FairSpec` does
not take the pool for granted: a call returns only when PostgreSQL answers, and
`Acquire` is strongly fair because `pgxpool` serves those who wait in the order
they came. Nor for the SMS provider: `sms.go:48` has no timeout and SNS is called
under `context.Background()`, so `SendReturns` has no fairness and `Served` asks
of a request at `sending` only that it keeps nobody else waiting. A call's own deadline and Shutdown's fifteen seconds do pass.

**Deadlock** is checked wherever the model goes on for ever; `lifecycle` ends
when all its rides have, and the server when the process does, and their `.cfg`
say so.

### Disagreements without a run

Met while modelling, each visible in the definitions named; no run is spent on
them.

* README.md:103 promises "Active rides with GPS for live map", and README.md:155
  positions every five seconds. But `UpdateLocation` writes only `AND available =
  true` (`driver.go:82`) and an acceptance lowers the flag, so during a ride no
  position is stored, the app is answered 200, and the map shows the driver where
  the ride was accepted, unless the driver toggles (`UpdateLocation` of `Trips`).
  The map also leaves out rides that are `ARRIVED` (`ActiveRides`;
  `admin_map.go:48`).
* A driver who sends two requests at a time can be assigned a ride while
  offline: `available` is read two calls before (`ride.go:538`, `587`), against
  `ride.go:503`. `AssignedAvailable` is about one at a time.
* "No puede aceptar su propio viaje" (`ride.go:503`) compares a passenger's id
  with a driver's (`ride.go:574`), which are never equal.
* "Check attempts < 3" (ARCHITECTURE.md:250): verifications under way together
  are all judged by the same count (`GuessesBounded`).
* Accounts that `AdminCreateDriver` stores with separators are found by no login,
  and `+52` ones can have a twin (`TwinsAreUnnormalized`; `admin.go:41`).
* "Mark latest suspension history" (`admin.go:391`) marks the one that would
  have lasted longest (`LiftOnRecord`). A second lifting of nothing, when an
  older ban is still open in the history, marks that one.
* `ListRides` lets a driver filter by any status, and so shows the cancelled
  rides that had no driver (`ride.go:338`).
* `PassengerLastRide` documents 404 for no ride and answers 200 with null
  (`admin.go:627`, `652`).
* `total` of a page is older than its rows: a client that stops at `total`
  rather than at a page that is not full can skip a ride (`rider.go:112`).
* A wrong guess at an older code may be counted against the one that replaced it
  (`strayed`; `auth.go:531`).
* `GET /health` says `disconnected` when every connection is taken, too.
* The radius of `NearbyDrivers` is in the units of `ST_DWithin` on GEOMETRY,
  degrees, and documented in metres (`driver.go:98`, `161`); NaN passes its
  range checks. Distances are not modelled.

## 4. Proofs

Each theorem holds for every value of the constants that the module's `ASSUME`
allows: any number of rides, accounts, codes, tokens, keys and requests, any
durations and sizes, with faults or without, unless the table says otherwise.

| Module | Theorem | Says |
|---|---|---|
| `HistoryProofs` | `LifecycleConsistent`, `LifecycleSettled` | of the atomic life cycle: columns agree; passenger, driver and outcome are final |
| | `HistoryIsLifecycle`, `HistorySettles` | `HistorySpec => Spec`: the rides below the readers are those of the life cycle, and as final |
| | `NothingIsMissed` | `PagesMissNothing`, for any page length and any completions in between |
| | `PanelsAgree` | `ViewsAgree`: counts, members and sums of fares |
| `RidesProofs` | `TypeCorrect`, `RowsStayConsistent` | types; the columns of a row agree |
| | `AnswersStayTrue` | an answer of success stays true |
| | `AtMostOneWinner` | one winner per step; never completed and cancelled |
| | `ConflictsAreGenuine` | a 409 only when the ride has moved on |
| | `PartiesOnly` | only the ride's driver advances it, only its passenger or its driver, as the row is then, cancels it |
| | `HandlersImplementLifecycle` | `Spec => RefinesLifecycle` |
| | `WideColumnSuffices` | without faults, `cancelled_by` as long as an id: `CancelNeverFails` |
| | `NarrowColumnBars` | `cancelled_by` shorter than an id: nothing is ever cancelled |
| `TripsProofs` | `TripsAreRides` | `TripSpec => Spec`: all of the above holds of `Trips` |
| | `SuspensionsDecide` | suspended during the whole request, nothing is gained; free, no 403 |
| | `AssignedToAvailable` | a ride is assigned to a driver who is available then |
| | `OneRideAtATime` | without faults, a driver who does not go online during a ride has one at most |
| | `NearbyStand` | without faults: `NearbyAreFree` |
| `SuspensionsProofs` | `Typed` | types |
| | `BansAreRecorded`, `LiftsAreRecorded` | `BanOnRecord` (bans of any length), `LiftOnRecord` |
| | `HistoryStands` | `HistoryKept`: the history is never rewritten |
| `SessionsProofs` | `TypeCorrect` | types |
| | `RotationStands`, `ReuseBuysNothing` | a traded token is dead; a dead one buys nothing |
| | `AtMostOneSuccessor`, `EndStands` | of users whose requests do not overlap: one successor per token; an ended session stays ended |
| `AccountsProofs` | `AccountsTypeCorrect` | types |
| | `TwinsStand` | `TwinsAreUnnormalized`: registering makes no second account |
| | `RegisteredGetIn` | `RegisteredGetsIn` |
| | `SessionsStand` | `RotationRevokes` and `ReuseRefused` of `AccountsSpec` |
| `OtpProofs` | `Typed` | types |
| | `GuessesAreBounded`, `UsesAreBounded` | a code is guessed wrong, and used, no more often than stated, for any number of requests |
| | `TheLastSmsCounts` | `LastSmsCounts`: after a 200 that crossed no other request |
| | `LocksAreEarned` | `LockIsEarned` |
| `RateLimitProofs` | `TypeCorrect` | types |
| | `WaitingSuffices` | who waits for `Retry-After` finds a token |
| | `BurstsAreBounded` | fewer than `2 * Capacity` in any window |
| | `LimiterIsABucket` | `Spec => ImplementsBucket` |

**Assumptions.** Those of the modules: null is no id; tables of random ids are
disjoint; lengths and sizes are naturals, and positive where the code divides by
them. `Otp` and `Accounts` assume that finitely many requests are under way, and
`Accounts` that ids are finitely many, since their proofs count them: neither
bounds the number. `Accounts` takes an administrator's table to come with a
driver's, for only then has `AdminCreateDriver` a table to write. In `Trips`
everybody's app sends one request at a time (`Owner` is injective), which is
what the module is about. `History` needs riders and drivers to be different
ids (the list of a person is then by one column) and pages of one ride or more,
which `rider.go:93` sees to. The two theorems of the life cycle that stand in the same
module use neither.

None of the properties is inductive. Every module has an invariant `IInv` (`AInv`
in `AccountsProofs`, `TInv` and `FInv` in `TripsProofs`) that says what a
request *between two statements* may rely on, of tables that others have
changed since it read them; TLC was given each before it was proved.

**Rides.** `ReqOk` says, of each request and the row of its ride as it is *now*,
what still holds: the status is at or beyond the one that was seen, a canceller
is still a party, an advancing driver is still the driver; of one that has won,
what it did is still in the row; of one told 409, the row is beyond what it saw.
Each of these survives any change another request can make to the row, which
`Follows` collects: statuses only grow, passenger and driver are final once set,
a terminal row is frozen. So a step is three lemmas: the row it leaves `Follows`
the row it found, its own `ReqOk` holds, and everybody else's is stable under
`Follows`. `OneWinner` is part of `IInv` because it speaks of two requests. The
refinement needs `IInv` at two places: that the driver is not null when a ride
is advanced, and that a canceller is a party.

The width of `cancelled_by` is the whole cause of `rides_cancel_column`: a
cancellation is refused for its length (`TooLong`), for the ride's state (409)
or not at all. The lemmas about what a call does to the requests (`HandlerMoves`
and those before it) serve here and in `TripsProofs`.

**History.** The rides of a list are ordered by how many stand before them, so
that a page is the rides whose place is within the offset and the limit
(`PageRows`). `OrderOk` says that the order holds the completed rides, each
once: a panel that counts a WHERE and one that counts a list then count the same
set (`ListIsMine`), and sum the same fares (`SameFares`), since equal sets have
equal sums and nothing need be known of the summation. `PageOk` is what a
client between two pages may rely on: a ride that was due when it began has been
seen, or at least as many rides as the offset stand before it. A ride completed
in between leaves everybody's place or pushes it further (`InsertedFacts`,
`ReadingSurvives`), so it is repeated at worst; and a page that is not full ends
the list, with the rides counted before it no more than were shown.

**Trips.** A driver's flag is written by the driver's own requests alone, of
which there is one (`StillAvailable`, `Judged`); anybody else's can only cancel
a ride under way (`OthersStep`). `OneRide` ties the flag to the rides: a driver
who did not go online during a ride has one at most, and is not available
during it, but for the moment between the UPDATE of the ride and that of the
flag (`AtFlag`). `TakenOk` says that only a cancellation ends a ride without
raising the flag. Both need a database that does not fail: when the answer to the
UPDATE of the ride is lost, the handler stops before the flag, and an assigned
driver is offered to riders.

**Suspensions.** A ban in force is in the history or in the hands of a request
that is about to write it there (`OnItsWay`). When the handlers ran one after
another, the one request at its second statement carries what the account says
(`Carried`), and while there is none the account and its history agree
(`Settled`). That a lifting finds a largest `suspended_until` (`Largest`) needs
that the ends of bans have a bound, and no more of it; `HistoryKept` needs the
types only.

**Sessions.** What a request knows of its token, `RequestOk`, survives whatever
others do to the table, `Grows`: rows keep their user and parent, and the dead
stay dead. A user whose requests come one at a time knows more, `Lone`: between
its calls its token has no successor. That survives because nobody else touches
the tokens of that user (`Untouched`).

**Accounts.** A row stays as it is once written (`Grown`), so that what a request
found, or was told of, is there when it looks again (`Knows`). That a row is
always left for a registration that will insert one is counted, over all of
them together (`IdsLeft`). The token's part of a request is that of
`SessionsProofs`, whose lemmas are cited for it.

**Otp.** The proof counts requests. While a code is stored, its wrong guesses are
at most the attempts in its row and the requests that have still to count theirs
(`Stored`), and these two together stay under the bound, for a third attempt in
the row turns everybody else away (`Row`). A code that bought a token pair is
stored no more, so that its uses, and the requests that may still use it, are no
more than were judged by it together (`Known`). The attempts in the row are
counted the same way for `LockIsEarned` (`Stray`, `Earned`): each is a guess at
the stored code, or one that was on its way to the account when it was stored.
For `LastSmsCounts` nothing need be counted: after a 200 for the stored code
no message of the account is still to be sent, unless one crossed it.

**RateLimit.** `Spent`: for every grant of the last window, the grants from it on
and what the bucket would hold now come to at most a full bucket and what has
filled since; so within one window they stay below two. `Waiting`: at the time a
refused client was told, its bucket will hold a token. The sweeper removes only
entries that would be full, because the clock it read is never ahead; hence the
refinement, where a missing entry is a full bucket.

**Only model-checked.** `CancelEndsRide`, `BreachEndsSessions`,
`RegistrationRecovers`, `Served`, `HealthAnswers` and `SignalEndsProcess` are
liveness under fairness, out of this prover's reach. `Server` is there for
its liveness and has no theorem: `Server!TypeOK`, that the pool lends no more than
it has, is checked by TLC only.

## 5. Not modelled

* PostGIS geometry, JSON, logging, JWT signatures, hashing: values are opaque.
  The estimate reads nothing that is stored; its formula is `CalcFare`.
* Memberships: `SetMembership` is one UPDATE, and no handler decides anything
  by it. The search by name of the admin lists, and the columns they only show.
* The requests to Twilio and SNS: a message is sent or not.
* `HealthCheck` of `postgres.go`, which nothing calls.
* CORS, the content type check, configuration, Terraform: no state of their own.
* Suspensions inside `Rides` are one bit; `Suspensions` says what it stands for
  (`GuardRefuses`).

## 6. Plan

Done: every component that keeps state is modelled and checked; the safety
properties of the ride handlers, trips, histories and panels, suspensions,
sessions, accounts, codes and the rate limiter are proved.

Next:

1. `Server`: its types as a theorem, with the invariant that connections lent,
   kept and free add up to the pool's size.
2. Distances, should the radius of `NearbyDrivers` be put in metres: the set of
   near places would become a relation that both the update and the search use.

`OneSuccessor` and `EndIsFinal` stay theorems of `Sessions`: in `Accounts`
everybody's requests may overlap (`Overlapping` is `Users`), so that they would
say nothing there.

Runs keep to two or three actors and a few minutes; theorems carry the rest.
