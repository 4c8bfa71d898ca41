# Nearby: a TLA+ model of the booking backend

This directory holds a formal model of the backend in `src/` (Go over Postgres):
modules that describe how its requests interleave at the database and in its one
in-memory cache, configurations with which TLC checks them on small instances, and
proofs, checked by TLAPS, of the properties that matter most.

## The system

One Go process (several may run side by side) serves HTTP over a Postgres database;
a second program, the worker, deletes expired rows. There is no shared memory between
requests but one availability cache per process; everything else that two requests have
in common is a row, and the bytes of pictures in a storage no transaction spans. Almost
all transactions run at READ COMMITTED, so every statement sees its own snapshot
and a value that was read may be old when it is used.

| component | state | operations | hard behaviour | what makes it correct | modelled in |
|---|---|---|---|---|---|
| booking: reservation engine (`internal/booking/service.go`) | `bookings` | `Create` (customer or walk-in) | reads before the insert, exclusion constraint, deadlocks, retries, lost answers | no double booking, no bay overlooked, no request without an answer | `Booking`, `Calendar` |
| booking: lifecycle (`internal/booking/state.go`) | `bookings.status` | `Transition`, `CancelAsCustomer` | status read and written in two statements | only legal moves, one winner | `Lifecycle`, `Booking` |
| scheduling: availability (`internal/scheduling`) | the cache | `Availability`, `ResourcesForStart`, put / invalidate / expire | local times, transitions of the clock, a fill that an invalidation overtakes | exactly the right starts; stale for a bounded time | `Slots`, `AvailabilityCache`, `Booking` |
| scheduling: resources and hours | `resources`, `resource_services`, `business_hours`, `schedule_exceptions` | create, update, delete, attach, replace a week, close a date | statements outside transactions, a DELETE that waits for row locks | no scope that does not exist, a week is replaced as a whole | `Hours` |
| catalog: services | `services` | create, update, delete, page, dashboard | two writers of one row, statements of different snapshots | values fit the category, patches survive, pages lose nothing | `Catalog`, `Quote`, `Listings`, `Growth` |
| catalog: pricing and options | `option_groups`, `service_options` | `BuildQuote`, edits of the trees | read in three statements, twice per reservation; 32-bit sums | one quote describes one moment | `Quote` |
| catalog: categories and attributes | `categories`, `category_attributes` | edits, `ValidateAttributes` | definitions change under values | a typed value has options to choose from | `Catalog` |
| tenant: providers | `providers`, `provider_categories` | onboarding | the slug is found outside the transaction | whole or not at all | `Providers` |
| tenant: members and invitations (`internal/tenant`) | `members`, `invitations` | role changes, removal, invitations, `RequireOrg` | write skew on the number of owners, two acceptances | an owner remains, an invitation lets in one | `Membership` |
| auth: sessions (`internal/auth`, `cmd/worker`) | `users`, `refresh_tokens` | sign-up, sign-in, refresh, sign-outs, pruning | rotation races, replays, a worker that deletes | a token is exchanged once | `Sessions` |
| auth: e-mail verification | `verification_codes` | issue, resend, verify | no transaction at all | guesses are bounded, a code is accepted once | `Verification` |
| media (`internal/media`) | `service_media`, stored bytes, logo | upload, move, delete, branding | rows and bytes change separately | a row never points at nothing | `Media` |
| http: routing, middleware, paging (`internal/http`) | access tokens | `RequireAuth`, `OptionalAuth`, `RequireOrg`, `ParsePage` | a token carries old memberships | acts only in the scope the table allows | `Access`, `Listings` |
| profile and devices | columns of `users` | one UPDATE each | none | | not modelled |
| platform, generated code | none | configuration, logging, encoding | none | | not modelled |

Handlers call one service method each; `booking` calls `scheduling` (which calls
`catalog` through a port) and its availability cache; `scheduling` reads
`bookings`; everything runs behind `auth` and, under `/org`, `tenant.RequireOrg`.

## Modules

| module | models | proofs | instance for TLC |
|---|---|---|---|
| `Lifecycle` | the transition table as a set of triples | | |
| `Calendar` | abstract: appointments that take free slots in one step and then move along the lifecycle | | |
| `Booking` | reservations, transitions, browsing, and the staff edits that race with them | `BookingProofs` | `MCBooking`, `MCLive` |
| `Slots` | one computation of a day's slots | | `MCSlots`, `MCScheduling` |
| `AvailabilityCache` | the cache with its clock and its index | `SchedulingProofs` | `MCScheduling` |
| `Hours` | edits of resources, attachments, weeks and closed dates | `SchedulingProofs` | `MCHours`, `MCScheduling` |
| `Scheduling` | composes the two | `SchedulingProofs` | `MCScheduling` |
| `Catalog` | categories, attribute definitions, services and their values | `CatalogProofs` | `MCCatalog`, `MCServices` |
| `Quote` | option trees, their edits, and what a reservation costs | `ServicesProofs` | `MCQuote`, `MCServices` |
| `Media` | rows and bytes of pictures | `ServicesProofs` | `MCMedia`, `MCServices` |
| `Services` | composes the three | `ServicesProofs` | `MCServices` |
| `Growth` | the figures above a provider's services | | `MCGrowth`, `MCHttp` |
| `Listings` | the paged listings and the client that reads them | | `MCListings`, `MCHttp` |
| `Access` | surfaces, access tokens, the middleware | `AccessProofs` | `MCHttp` |
| `Membership` | one provider's members and invitations behind `RequireOrg` | `TenantProofs` | `MCMembership`, `MCTenant` |
| `Providers` | onboarding | `TenantProofs` | `MCProviders`, `MCTenant`, `MCLive` |
| `Tenant` | composes the two | `TenantProofs` | `MCTenant` |
| `Sessions` | refresh tokens and the worker | `SessionsProofs` | `MCSessions`, `MCAuth` |
| `Verification` | verification codes | `AuthProofs` | `MCVerification`, `MCAuth` |
| `Auth` | composes the two | `AuthProofs` | `MCAuth` |

In every module a request is a process with a control point (`pc`) and takes one step
per statement it sends; a transaction's statements are separate steps wherever another
request can see, or wait for, what is between them. The code's functions keep their names.
Variables and fields that record the past (`raced`, `stale`, `past`, `moved`, `known`,
`held`, `overlap`, `since`, `tries`, `gaveUp`, `alone`, `changed`, `apart`, `gone`, `shifted`) are history: no guard of the
code's reads them.

`Scheduling`, `Tenant`, `Auth` and `Services` compose components that sit behind one part of the API:
a step of the composition is a step of one of them. What two of them share is nothing that
either reads of the other (each module says which table or bit it sees instead), so the
composition's behaviours are behaviours of each, which the theorems `SchedulingRunsBoth`,
`TenantRunsBoth`, `AuthRunsBoth` and `ServicesRunAll` prove.

`MCLive`, `MCTenant`, `MCAuth`, `MCScheduling`, `MCHttp` and `MCServices` put several instances into one
run. For the same reason their interleavings add nothing: a behaviour is of one `part`, chosen
at the start, and the other variables keep their first value (`None`, where they have no other
use). Such a run checks each part exhaustively, as a run of its own would.

### Booking

| action | code |
|---|---|
| `Submit` | the request arrives |
| `GetServiceWithProvider` | first read: service, provider and quote; fixes provider, end and status |
| `ResolveScheduling` | the scheduler resolves the service again and lists the bays |
| `ResourcesForStart` | busy intervals, slots, the candidate bays |
| `ReserveCode`, `InsertTuple`, `CheckConstraints`, `Commit` | `insertOnce`, one transaction |
| `DeadlockDetected` | Postgres picks a victim among inserters that wait for each other |
| `TryResource`, `NextBay` | what a failed insert means: retry, next bay, `SLOT_TAKEN`, 500 |
| `FinishCreate` | cache invalidation and the answer, with the walk-in check of the handler |
| `Fault`, `CommitAnswerLost` | a statement fails; COMMIT takes effect and its answer is lost |
| `ReadBooking`, `TransitionBooking`, `FinishTransition`, `TransitionFault` | `Transition` and `CancelAsCustomer` |
| `ListResources`, `ListBusyIntervals`, `CachePut`, `CacheExpire` | browsing through the cache |
| `UpdateService`, `DeleteService`, `UpdateProvider`, `UpdateResource`, `DeleteResource` | edits by staff or an administrator |

What Postgres contributes is modelled as the code relies on it: an inserted tuple
is visible to others' constraint checks before it commits (`tuple`), a conflicting
inserter waits for its transaction (`WaitsFor`), two that wait for each other make
the deadlock detector fire, and a row that passed its foreign-key check keeps what
it refers to from being deleted (`Locked`).

Abstractions. One day, one window per bay, times as numbers of slots: the computation
itself is `Slots`. Prices, options, attributes, notes and reasons are left out: `Quote` has
the first two. The reads of one availability call up to the list of bays are one step: an
edit between them has the effect of an edit before or after them as long as there is one.
`ReadBooking` merges the ownership read of `GetForProvider` / `CancelAsCustomer` with the
status read of `Transition`, since the owner columns never change. A staff edit is one step
(its UPDATE with its invalidation); the gap is looked at in `Hours`. "suspended" stands for
every status of a provider but active. The UPDATE of a booking that stays active is checked
against the exclusion constraint again: it may meet an insertion that has not committed, each
waits for the other (`Crossing`), and either is the victim; where the insertion ends by itself
the UPDATE comes after it. An UPDATE that fails for any other reason is `TransitionFault`.

`Calendar` is the abstract specification: `Reserve` takes a free slot, `Move` follows an
edge of the lifecycle. `Booking!calendar` maps the table to it.

### Slots

One call of `Scheduler.availability`. `ResolveWindows` picks the rules for the day
(exceptions of the resource, exceptions of the shop, the resource's week, the shop's), then
`NextWindow`, `LeaveWindow`, `SkipStart`, `OfferStart` and `CollectSlots` are the loop of
`GenerateSlots`, one step per iteration. A zone is an offset that changes at most once, at
an instant; `DateIn` is `time.Date` with its rule for local times that do not exist or exist
twice, `Reading` is `Time.In`. Busy intervals and the lead time are inputs. The reference
(`Expected`) says by quantifiers which starts are to be offered.

### AvailabilityCache

The two maps of `cache.go`, entries and the reverse index by provider, with `Hit`, `Miss`,
`Put` (which evicts what has expired), `InvalidateProvider` and the passing of time. What a
list is computed from is a version; an edit makes a new one. Edits of bookings, hours
and resources invalidate after their write (`EditProvider`, `InvalidateProvider`); edits of
the catalog do not (`EditCatalog`), as in the code. Time is kept as ages, so it may pass
for ever; a request is at most `MaxAge` old, the router's timeout.

### Hours

Every edit behind `/org/resources`, `/org/hours` and `/org/exceptions`, statement by
statement: the check of the owner, the write, the reads after it, the invalidation.
`ReplaceHours` is a transaction whose DELETE acts on the snapshot it took after waiting for
row locks (`DeleteBusinessHoursForScope`, `FillAndCommit`). The unique indexes, CHECKs and
foreign keys of `00006_scheduling.sql` are part of the inserts, with `SqlTime`, by which
24:00 is stored as 00:00. Customers browse meanwhile: `Browse` reads a list and `Put` puts it in
the cache, any number of steps later. `lists` says of each provider which kinds of list there are,
read or put, and whether the tables are still as they were read: `stale` when they have
changed since, `overtaken` when an invalidation has come and gone after that, which the list
outlives because it was not in the cache yet. `FaultCode` is the answer to a statement that
fails: an attachment reports any failure as an unknown service, a deletion as a conflict.

### Catalog, Quote, Growth, Media

* `Catalog`: `CreateCategory` ... `DeleteService`, with the validator: `Accepts` and
  `Canonical` for values of each type, `Problems`, `Normalized`. Updates of definitions read
  the row, check and write in separate steps. The strings of the inputs are a few, ordered by
  a parameter.
* `Quote`: `BuildQuote` with sums that wrap at `Width` bits, `checkGroupRules`, every edit of
  services, groups and options, and `Reserve`: service, groups, options read for the price,
  all three again for the slots (none, if the time that is occupied is not positive), then the
  insert.
* `Growth`: `CatalogStats`, four statements, and `Fill`, the window of months computed by the
  process from its own clock.
* `Media`: uploads (`Save`, `CreateServiceMedia`, `CleanUp`), `UpdateServiceMedia`,
  `DeleteServiceMedia`, the logo (`WriteBranding`, `Discard`) and the deletion of a service with its cascade. Each call to the database or
  to the storage may fail without effect; `AnswerLost` lets one take effect and seem to fail.

### Listings and Access

* `Listings`: the page and the count of six listings as two statements, each with an order
  that is any order its ORDER BY allows; the client follows the pages until it has the total.
  Meanwhile rows are inserted and deleted, bookings, providers and users change their status, and
  services are patched (`UpdateService`) in their name, price or category, by which they are sorted and
  found.
* `Access`: which middleware a route passes, what `ParseAccessToken` accepts, and what
  `RequireOrg` reads from the table and not from the token. `ChangeRole` stands for all of
  `Membership`.

### Membership and Providers

* `Membership`: one organization; two do not interact. A request passes `RequireOrg` (unless
  it accepts an invitation, a customer's route), then takes `GetMembership`, `CountOwners`,
  `UpdateMemberRole` or `RemoveMember`. The statements of a transaction that follow its first
  row lock are one step with it. An invitation that expires after it was read is accepted all the same,
  since `now()` is the start of the transaction. `Init` is any membership, with any pending invitations,
  since earlier requests may have left it.
* `Providers`: the slug is searched for outside the transaction (`SlugFree`), then the
  provider, its owner and its categories are inserted and committed. A second INSERT of a slug
  waits for the first one's transaction; a foreign key locks the category.

### Sessions and Verification

* `Sessions`: `SignUp`, `SignIn`, `Refresh` (read, guarded UPDATE that locks the row, INSERT of
  the successor, commit), the replay branch that revokes all of a user's tokens, both
  sign-outs, and the worker's `PruneRefreshTokens`. `RevokeAllUserRefreshTokens` acts on the
  rows of its snapshot after waiting for their locks. A token is its row; time is in days.
* `Verification`: `IssueEmailVerification`, `ResendEmailVerification` and `VerifyEmail`; every
  statement commits by itself. A secret stands for six digits and their hash.

## Runs

Every run is exhaustive. Deadlock checking is off: the systems stop when all requests are
answered. Requests, codes, tokens and new rows are interchangeable and reduced by symmetry
where no liveness is checked.

| run | parts and instance | shows |
|---|---|---|
| `race` | 2 reservations, 2 transitions, 2 bays (one closes later), 3 kinds of request | nobody is booked twice or outside opening hours, one transition wins, `SLOT_TAKEN` is true, contention ends in a 500 only by equal codes, and the engine implements `Calendar` |
| `edits` | 2 reservations of one slot, 1 transition, 1 browser, 1 edit, 1 fault | nobody is booked on a bay that is gone, answers agree with the table, a list is stale only when an invalidation overtook its fill |
| `live` | `booking`: 2 reservations of one slot, 2 bays, 1 transition; `providers`: 3 onboardings, 1 fault | everyone is answered |
| `members` | `members`: 2 users, 2 requests of any kind, 1 invitation; `providers`: 3 onboardings, 2 names that share a slug, 2 categories, 1 fault | owners and invitations; providers that are whole or not there |
| `auth` | `sessions`: 1 user, 3 tokens, 3 requests, 4 days, 1 fault; `codes`: 2 addresses, 2 codes, 2 secrets, 4 requests, 2 attempts, 1 fault | rotation, replay, sign-out and pruning; guesses, acceptance and resends |
| `scheduling` | `cache`: 2 lists of 2 providers, 2 browsers, 1 editor; `resources`, `weeks`: 2 requests, 1 fault, lists of one provider of at most 2 kinds (`FewLists`); `rules`: about two thousand days of rules, zones and lead times; `windows`: every window of a day in 6 zones | the cache, the tables, and the loop against its reference |
| `access` | `access`: 1 request, 2 users, 2 tokens, 1 provider, 2 role changes; `services`, `bookings`: 4 rows, 1 client, 2 edits of any kind; `growth`: 3 rows of 4 ages, 2 edits | the middleware, the pages and the dashboard |
| `services` | `catalog`, `one_writer`, `one_admin`: 2 requests, `writers`: 3, over 3 categories, 5 definitions, 2 services; `quote`: a customer with any selection, of trees with ordinary deltas and of some whose sums leave 6 bits (`WideTrees`); `one_edit`, `trees`: 1 or 2 edits; `media`, `gallery`: a limit of 2 pictures, 3 requests, 1 failing call | validation, quotes, trees and pictures |
| `walk_in`, `last_owner`, `west`, `closed` | as small as it gets | counterexamples, see below |

The properties of a run are those of its modules, where each has its comment, or
conjunctions of them that ask one question of a part:

| property | conjunction of |
|---|---|
| `CreatedWholeAndNamed` (`Tenant`) | `WholeOrNotAtAll`, `RefusedOnlyIfRaced`, `GivenUpOnlyIfFull` |
| `HoursStayConsistent` (`Scheduling`) | `ScopesAreOwn`, `OneExceptionPerDay`, `StaleOnlyMidEdit` |
| `EditsAreWhole` (`Scheduling`) | `CreatedMeansAttached`, `ReplacedAsAWhole`, `OtherScopesKept` |
| `OffersWhatIsOpen` (`MCScheduling`) | `MatchesReference`, `InsideOpeningHours`, `OfTheDayAsked` |
| `ListsSettle` (`MCScheduling`) | `Terminates`, `EventuallyFresh` |
| `OnlyWhoMayActs` (`Access`) | `ScopedByTheTable`, `ActsInTime` |
| `WhoMayIsLetIn` (`Access`) | `MembersAreLetIn`, `BrowsingIsFree` |
| `PagesAreComplete` (`MCHttp`) | `EachOnce`, `NothingMissed`, `TotalCoversPage` |
| `FiguresAddUp` (`MCHttp`) | `AddsUp`, `NeverBehind` |
| `AttributesFit` (`Services`) | `OneForm`; while only services are written, `FitsSomeCategory`, and `FitsItsCategory` until two requests overlap |
| `DefinitionsHold` (`Services`) | `OptionsToChooseFrom`, `NothingDangles`, `NoSurprise`; until two requests overlap, `PatchKeeps` |
| `QuotedAtOneMoment` (`MCServices`) | `QuotedAtOneMoment`, `NothingElseRefused` of `Quote` |
| `TreesHold` (`Services`) | `NoOrphans`, `PatchesSurvive`, `BookedAsCheckedUnlessEdited` |
| `RowsAndBytesAgree` (`Services`) | `UploadOrderPreserved`; while no answer is lost, `NoDangling`; of galleries without faults, `NoLitter` |
| `WithinOwnBounds` (`Services`) | `OwnServicesOnly`, `OwnTreeOnly`, `WithinLimitUnlessRaced` |

The types of a module (`TypeOK`) are checked with the first conjunction about it; all but
those of `Slots`, `Listings` and `Growth` are proved.
`ImplementsCalendar` contains that every change of a booking's status follows the lifecycle,
so `FollowsLifecycle` is stated by a theorem only. So are `RevokedStaysRevoked` and
`ConsumedForGood`.

Why the bounds are enough to be interesting. The exclusion constraint compares pairs of
rows, so two reservations show every conflict; what a third adds (a wait that closes no cycle) is
covered by the theorems, which are about any number. Two bays let a loser go on to another one. A service takes two slots on a grid of one,
so slots overlap without being equal. Two codes let two requests draw the same. One edit and
one fault can fall between any two statements. Two owners and two requests are the smallest
write skew; three tokens are a chain of two rotations; the router's timeout is within the
worker's grace period; an issued code and three submissions
of it exceed two attempts, and a second address has a code that could be taken for the first one's. Two lists of one provider and
one of another tell whose is invalidated. Days of 12 units with a transition of 2 give starts
that repeat and starts that are skipped. Integers of 6 bits wrap when two deltas are as wide as
they allow (`WideTrees`). Two kinds of list are enough for one to be overtaken while an edit that is
still to invalidate makes the other stale. Two
edits of one row are what can overwrite one another, and three writers of a service let a third
see what two have left; keys of pictures are drawn in turn, since they are all alike.

Some parts make one request wait for the other (`one_writer`, `one_admin`: `alone`) or allow no
fault (`gallery`): they reach the states that `PatchKeeps`, `FitsItsCategory` and `NoLitter` are
about. Without these hypotheses, which the properties themselves state, they are false (see below).

Fairness. `Booking!Fairness` is weak fairness of each reservation's and each transition's own
next statement, including the deadlock detector's step, and nothing of arrivals, browsing or
edits. A handler runs until it answers, statements end, and the detector runs after
`deadlock_timeout`; a wait ends because the transaction waited for takes its own next step.
`CreationAnswered` assumes the same of each onboarding, and `ListsSettle` of the goroutine
that runs the loop (`Terminates`), of the clock and of requests under way (`EventuallyFresh`).

`SlotTakenMeansTaken` exempts the bays a request gave up after `maxAttempts` deadlocks
(`gaveUp`), and no other: with three or more requests it can be told `SLOT_TAKEN` though
nobody holds such a bay in the end. The code accepts this ("Repeated deadlocks on one bay mean it is heavily contended",
`service.go:252-254`).

### Where the code departs from what is said of it

Four runs show a counterexample:

* `walk_in`: a walk-in for another organization's service is answered FORBIDDEN after its
  row has been committed. "Reject rather than let one org write a booking into another's
  calendar" (`http/provider/handlers.go:873`).
* `last_owner`: two requests that each take an ownership away both count two owners and leave
  none. "A provider must keep at least one owner" (`tenant/service.go:505`).
* `west`: the date of a public query is midnight UTC, which west of UTC is the day before.
  "Local calendar date in the provider's timezone" (`api/openapi.yaml:401`).
* `closed`: a resource with hours of its own, but none on this weekday, is offered at the shop's
  hours. "A weekday with no span here is closed; an empty array closes the scope entirely"
  (`api/openapi.yaml:2706`). `MatchesReference` takes the precedence from the code instead (`Applies`).

The following were met on the way. Where a property of a passing run has an exemption for it,
the name of the property, or of its conjunct, is given: without the
exemption it is false.

* Deltas have no bound, and two of -2147483648 on a free service add up to 0 modulo 2^32: the
  booking is made (`catalog/pricing.go:84-96`, `options.go:217-239`), although "refusing is better than
  silently booking a free or zero-length appointment". `QuotedAtOneMoment` says that what is booked
  is the sum as the width holds it, and `WideTrees` reaches sums that wrap.
* The only owner who accepts an invitation to a lower role overwrites his own, and nobody counts
  the owners there (`OwnerKeptUnlessRaced`).
* Two reservations draw one booking code; the second answers 500
  (`ContentionIs500OnlyByCode`).
* A reservation reads the service twice; after an edit in between the booking is longer than
  the time that was found free (`BookedAsCheckedUnlessEdited`), and may end after closing.
* An edit of hours or resources that is answered OK may leave an old list behind: a customer's
  request has read the hours before, and puts its list in the cache after the invalidation
  (`StaleOnlyMidEdit`; for bookings `StaleOnlyIfRaced`). It stays until it expires
  (`StaleForABoundedTime`).
* A service whose name, price or category is patched while a client pages may move behind the client's
  place, and is missed without having left, or is seen twice (`NothingMissed`, `EachOnce`).
* A rotation that commits after `SignOutEverywhere` took its snapshot leaves a live token:
  `RevocationReachesAllKnown` is about the tokens there were on arrival. The loser of two
  refreshes is answered INVALID_TOKEN and, unlike a replay, nothing is revoked.
* Two resends leave two live codes (`OneLiveUnlessRaced`).
* Concurrent uploads exceed `MaxPerService` (`WithinLimitUnlessRaced`). Two new logos, a
  deleted service or a lost answer leave bytes nothing names (`NoLitter` is about the
  gallery alone), and an INSERT whose answer is lost leaves a row whose bytes are deleted
  (`NoDangling` is about the time before).
* Two replacements of one week both stay, with spans that overlap. `ReplacedAsAWhole` says
  what a replacement does guarantee.
* 24:00 passes `Valid` and fails the CHECK, with a 500; of an exception it is reported as
  a duplicate.
* On days with a skipped hour, starts after a gap that the step does not divide are lost;
  `MatchesReference` is checked with steps that divide it.
* A stale list may refuse every booking made from it until it expires
  (`StaleForABoundedTime` is what holds).
* A single-select group without a maximum may ask for two options.
* Listings of bookings, providers and users sort by one column; rows that tie may be repeated
  or skipped (`EachOnce` and `NothingMissed` exempt ties). An offset beyond 32 bits
  becomes negative.
* A month that ends between two statements of the dashboard is counted in neither
  figure (`AddsUp`).
* One request that changes a service's category and one that changes its attributes leave
  values no category asks for together with that category: `FitsItsCategory` holds
  until two requests overlap, `FitsSomeCategory` also then. A patch of a definition's type writes back the options it
  read (`PatchKeeps`, until two requests overlap).
* A bay may be attached to another provider's service: `AttachService` looks only at the bay's
  owner (`scheduling/service.go:346-360`). A booking on it invalidates the lists of the service's
  provider and not those of the bay's, so `StaleOnlyIfRaced` is about services that share no
  bay with another provider's (`KeptApart`).
* Of two providers with one name the second may be told that its derived slug is taken
  (`RefusedOnlyIfRaced`).

## Proofs

All theorems hold for every value of the constants that meets the named assumptions, which every
run evaluates of its instance; those of components that are composed (`HoursAssumption`,
`ProvidersAssumption`, `VerificationAssumption`, `CatalogAssumption`, `QuoteAssumption`,
`MediaAssumption`) are ASSUMEd by the composition and are hypotheses of the theorems about the component. They type the constants, keep
`None` apart from the values it is compared with, and say that requests carry what decoding
lets through and that the rows there are at first are such as the tables allow. Some say more:
`SessionAssumption` has `MaxAge <= Grace`, no request outlasts the grace period of the worker;
`HoursAssumption` that the weeks sent are finite; `CatalogAssumption` that there are finitely many
requests and that trimming a string twice is trimming it once; `MediaAssumption` that galleries
are finite.

A theorem about a component (`Hours!Spec => ...`) is carried to the composition by `SchedulingRunsBoth`,
`TenantRunsBoth`, `AuthRunsBoth` or `ServicesRunAll`; the theorem there is about the formula that the run checks.

* `TypeCorrect` (`BookingProofs`): `TypeInv` strengthens `TypeOK` by what each control point
  has established of the request's locals, in particular that a request at `code` or later has
  a provider and a candidate bay.
* `NeverDoubleBooked`: `NoDoubleBooking` is not inductive, since a row is committed long after
  its check. `SafeInv` adds `Clear`: a tuple that has passed its check (`pc = "options"`)
  conflicts with no committed row and with no other checked tuple. The check establishes it,
  because it waits for every conflicting tuple; a row that appears meanwhile is another
  checked tuple; transitions never make an inactive row active.
* `LifecycleFollowed`, `EngineImplementsCalendar`: every step is classified by what it does to
  the table (nothing, one commit, one guarded UPDATE, a service set to NULL); the mapping
  `calendar` keeps resource, time and status, so that a commit is `Reserve` (free by `Clear`), an
  UPDATE is `Move` and the rest are stutters.
* `ToldTheTruth` (`AnswerAgreesWithTable`): `Truthful` says of each control point what the table
  has of the request then, from the COMMIT to the answer. A row is never lost, so a
  CREATED stays true; a request without a row has not committed (`Unbooked`).
* `BaysOfBookingsStay` (`BookedResourceExists`): not inductive, since the foreign key is checked
  before the row is there. `RowInv` adds `Held` (a tuple that passed its checks has a bay that
  is not deleted, which `Locked` keeps so), `AsAsked` (the tuple is the row of the request's locals)
  and `Pristine`.
* `ContentionIsNo500` (`ContentionIs500OnlyByCode`): `AnswerInv` carries the reason of a failure from
  the step that failed to the answer (`Explained`): a fault, an edit, or a code another row has.
* `RefusedOnlyWhatIsTaken` (`SlotTakenMeansTaken`): `Walked` says of every bay that could serve the
  request and is no longer a candidate that it was given up or is `TakenFrom` the request. A bay
  leaves the candidates in one step with the reason; the reason stays true, because a
  row is never lost and keeps its bay and its time (`RowsKept`).
* `OneTransitionWins` (`OneWinner`): every move raises the `Rank` of a status. `Won` says that a
  request which moved a booking left it at a rank above the one it moved it from, so no other
  one finds it in that status again.
* `WithinHours`: while nobody edits, a booking lies on the grid and within the hours of its bay
  (`InsideOpeningHours`). `Placed` and `Fitted` carry it from
  the slots that were computed to the row; `PlaceInv` has it of the rows.
* `StaleOnlyByARace` (`StaleOnlyIfRaced`): `FreshInv` says of a cached list, and of what a browser has
  read, that it is `Current`, or raced, or that a writer's invalidation is due (`ChangeIsDue`): a
  commit makes it due, the writer's next step ends it (`DueEnds`).
* `ScopesOwned`, `ClosedOnce` (`SchedulingProofs`): the types, what a control point has established
  (`Sound`, in particular that who writes for a resource has looked up its owner, who never
  changes), and `HoursFit` and `ExceptionsFit`: each row fits a resource that exists and is its provider's.
  A deletion takes all the rows of a resource only because they are its owner's (`HoursCascade`).
  `OneExceptionPerDay` is inductive with these.
* `FreshAfterEdits` (`StaleOnlyMidEdit`): a step that makes a list stale has written, and neither
  ends its edit nor reports it as done (`EditStep`); reading and putting lists makes none stale
  (`ListedStep`); and the step that ends an edit drops every stale list that has been put and
  counts those still being read as overtaken (`DroppedStep`). So the theorem is about the lists
  that were in the cache, or were read, without an invalidation passing them.
* `BarbersKeepTheirHours` and `ReplacedWhole`: `RowsKnown` says that what a DELETE has found is, as long
  as it is there, of the scope of its request, for identities are not given out again;
  `HoldsAll` that a replacement nobody has been told to be `stale` holds all rows of its scope. So
  at the commit what goes is the scope's, and what is there afterwards is the new week: as
  many rows as spans (`WeekInPlace`, by a bijection).
* `CreatedAttached`: `Owes` says that each service a creation has been asked for is still to be attached,
  is attached, or has been undone by a request that says so (`UndoneStays`).
  `HoursConsistent` and `EditsWhole` put the theorems of `Hours` together, of `Scheduling`.
* `CreatedWhole` (`TenantProofs`): `WholeInv` follows the row through its transaction: its owner is there
  after `AddMember`, and its categories with those still to insert are the ones asked for that exist
  (`Whole`); a category with a row in an open transaction cannot be deleted.
* `RefusedForARace`, `GivenUpWhenFull`: `SearchInv` says that every slug the search has passed is
  some provider's, and that one found free has been `raced` if it is taken now; slugs stay
  (`SlugsStay`). `WholeAndNamed` puts the theorems of `Providers` together, of `Tenant`.
* `MembersTyped`, `OneJoinsPerInvitation`, `JoiningIsOnesOwn`: the second is inductive with the
  types, because every step is either an acceptance or leaves who joined and what is accepted
  alone (`OneStep`).
* `LastOwnerStays`: `Spare` says that a request about to demote an owner has counted another one,
  unless its view is stale; any change of the members makes every such view stale.
* `ExchangedOnce` (`SessionsProofs`): `OneSuccessor` rests on `Rotating`: a request that is
  about to insert a successor has locked a live row (`OnLiveRows`), alone (`Alone`), and no row
  with a successor is live (`ParentsAreRetired`). The guard of the UPDATE gives the first, the
  row lock the second.
* `RevokedForGood` (`RevokedStaysRevoked`), `NeverShortened`, `PruneSpares`,
  `RevocationReaches`: every step changes a row in one of two ways, `Kept` (only its state, never back to live) or `Fresh` (a new row with
  the client and user of its parent). `NeverShortened` adds the dates of every row, `PruneSpares`
  the age of a request (`MaxAge <= Grace` is used here), `RevocationReaches` that a token known
  on arrival and still live is one the statement holds in its snapshot.
* `GuessesAreBounded`, `OneSubmissionWins`, `TwoCodesOnlyIfRaced` (`AuthProofs`): `Sound`
  (what a request has established), `Attempts` (an attempt is counted on the row before it is
  compared, so comparisons never exceed attempts), `OneClaim` (a row is claimed by one request,
  and is accepted then) and `Issuance` (who issues alone finds no live code).
  `NeverReused` (`ConsumedForGood`) and `VerifiedOnlyByItsCode` follow by cases on the step.
  `AlwaysBounded`, `AlwaysOnce`, `OneWorks` and `OnlyByItsCode` carry them to `Auth`.
* `MapsAgree`, `BoundedStaleness` (`SchedulingProofs`): `Lag` relates clocks to versions: a
  list that was read may be outdated only by an edit no older than its read; a cached one
  only by an edit no older than its age and the longest request together.
* `NoneButWhoMay` (`OnlyWhoMayActs`) and `AllWhoMay` (`WhoMayIsLetIn`, in `AccessProofs`): `Sound` says
  what each middleware has established for the next, `Watched` that the history `held` has the
  role of every moment since the request came.

* `DefinitionsAlwaysHold` (`ServicesProofs`, from `CategoriesExist`, `OptionsToChoose`, `NothingInternal`,
  `CatalogKinds` and `PatchesKeepOptions` of `CatalogProofs`): `TablesHold` types the tables and what a
  request has read (`Sound`), has every reference point at a row, and says `Chooses` of every
  definition, also of one whose type does not choose: since its old options stay when a patch changes
  only the type back, they must have been good. `PatchKeeps` is false once requests overlap; until
  then `Alone` has at most one request past its arrival, so that what it has read is what the row
  still holds (`Latest`), and `Kept` follows.
* `AttributesAlwaysFit` (from `OneFormStored` and `AttributesAsAsked`): the one form is what `Sorted`
  builds; that it `Ascends` and holds what was chosen is proved by induction over the alphabet
  (`Picked`). While only services are written, a category's definitions stay: every request that has
  validated holds values that fit some category (`PendingForSome`) and, until two requests overlap,
  the one that its row will have (`PendingForOwn`). The hypothesis `FitsItsCategory` is about the
  services that there are at first.
* `TreesAlwaysHold` (from `OrphanFree`, `NoPatchLost`, `AsLongAsChecked`): `Asserted` says what an edit
  that has passed its two reads knows: the owner, which never changes, and that a group was the
  service's, which no edit makes another's. Every write is one of eight changes of the tables
  (`TreeWritten`), none of which leaves a row without its parent: `NoOrphans` rests on the deletion taking all
  that hangs from a row. `PatchesSurvive` is inductive because an UPDATE sets the fields that were
  sent and no other. `Remembers` follows a reservation: each thing it has read is
  that of a state in its `past`, so that with no edit between two of them both lengths are equal.
* `RowsAndBytesAlwaysAgree` (from `MediaKinds`, `UploadsInOrder`, `NoFileDangles`, `NoLitterInGalleries`):
  `KeysUsed` says that a key is one upload's, or one row's, or the logo's, and nobody else's; so
  who deletes bytes has taken away, or never written, the one row that could name them (`FileStored`).
  A lost answer breaks that, hence `lost = 0`. `Held` names for each stored file of a
  gallery who still answers for it (`FilesTidy`); `Ranked` relates the positions of two uploads
  to the order in which they were counted.
* `AlwaysWithinBounds`: what a request may change is its own provider's (`OwnServices`, `OnlyOwnTree`);
  `Room` says that a request whose count nobody has overtaken still finds room (`LimitUnlessRaced`).

Only model-checked:

* Liveness (`EveryRequestAnswered`, `CreationAnswered`, `ListsSettle`): fairness and ENABLED are out of
  the prover's reach.
* `QuotedAtOneMoment` compares sums over a selection with those of the reference, in the order of the
  choices, and `FiguresAddUp` sums over months. Both are folds, whose definition and whose
  induction take the summing operator as a parameter, which the provers do not instantiate.
  (`Sorted` of `Catalog` is a recursive function, and what it returns is proved.)
* `OffersWhatIsOpen` compares the loop of `Slots` with its reference over local times that repeat or are
  skipped, and `PagesAreComplete` the pages a client has collected with any order of equal rows:
  both need an invariant of what a loop has collected so far, which has not been written.

## Not modelled

* `UpdateProfile` and `RegisterDevice` (one UPDATE of the caller's own row), `CurrentSession` and
  the other reads that decide nothing.
* The decoding and encoding around one service call in the handlers, error texts, logging,
  configuration, and generated code as far as it only carries values: no state of a protocol.
* Hashing, signing, passwords and delivery of e-mail: a token, a secret or a key is an atom.
* Names, descriptions, labels, icons, addresses, locations and currencies; the geographic and
  full-text filters of discovery.
* Several processes: each has its own cache, and an edit through one invalidates only that
  one's. A second process behaves towards the first's cache as `EditCatalog` does, an edit that
  invalidates nothing, for which the bound on staleness is proved.
* A crash of a process ends its requests where they are and empties its cache; its open
  transactions are rolled back. A request that stops taking steps is a behaviour of every safety
  specification here; a rollback is what the faults do.

## Next

The invariant of the loop of `Slots` (what has been offered is what `Expected` has up to the current
offset) and of the client of `Listings` (what has been collected is a prefix of every order its
reads allow), and the sums of `Quote`, which need a form of their own
to be reasoned about.
