# Verification of the coaching calendar backend

This directory models the backend in `src/` (NestJS, Prisma on Postgres,
pg-boss, Google Calendar) in TLA+. TLC checks the models on small instances;
TLAPS proves the invariants for every value of the constants.
`PROJECT.json` lists runs, mutants, hazards, findings and theorems, and maps
every definition to the lines it models.

    tlc -workers 2 -config Contention.cfg MCBookingSystem
    tlapm BookingSystemProofs.tla

## The system

One backend serves many coaches. A **coach** is a business with its own site,
catalog, hours and bookings; an **admin** sees all of them. Clients have no
account: they book through a public form and manage a booking by a mailed
token. The backend runs on Cloud Run: several Node processes at a time, any of
which may be stopped between two queries. All of them share one Postgres
database, which also holds the job queue.

| component | state it keeps | operations | correct when |
|---|---|---|---|
| Bookings (`bookings/`) | `Booking` rows | create, reschedule, cancel by client or coach | no two confirmed bookings of a coach overlap; a booking lies in the coach's hours; both parties hear of every change |
| Notification jobs (`jobs/`) | pg-boss jobs | enqueue, process, retry | every job ends; a completed one reached both parties; retries repeat nothing but mails |
| Google Calendar (`google/`) | events at Google | createMeetEvent, deleteEvent | a booking's link leads to a live event at its time |
| Availability (`availability/`) | weekly rows, overrides of a date | create, update, remove; effective ranges of a date | no stored range is empty or reversed |
| Slots (`slots/`) | none | computeSlots | what is offered can be booked, and what can be booked is offered |
| Auth (`auth/`) | password, `sessionsRevokedAt`, tokens outside | login, forgot and reset password, guard | a revoked session is refused, a fresh one accepted, a used link dead |
| Coaches (`coaches/`) | `Coach` rows, mailed invitations | invite, acceptInvite, setFrontendUrl, revokeSessions, changePassword | one coach per site, one account per invitation |
| Allowed origins (`allowed-origins/`) | a table, a cache per process | add, remove, isAllowed | no process answers from rows older than the TTL |
| Event types (`event-types/`) | `EventType` rows | create, update, archive, remove, reorder | the order is one somebody asked for; a booked type stays |
| Settings (`settings/`) | one row per coach, created when first asked for | get, update | a setting is what the last PATCH of it gave |
| Google connection (`google/`) | `GoogleIntegration` rows, OAuth clients in memory | connect-token, connect, callback, getAuthenticatedClient | a coach's events go to her own calendar and are found there again |
| Notifications (`notifications/`) | none | two mails per job | both parties end up with the appointment as the row has it |
| i18n, templates, config | none | — | — (not modelled, see below) |

How they meet: a booking request reads the event type, the settings and the
hours, reserves the slot in a serializable transaction, deletes a stale Google
event, and enqueues a job. A worker in any process takes the job, reads the
booking again, creates the Meet event in the calendar the coach has connected
if there is no link, saves the link, and sends two mails. Nothing but the database orders requests, workers and admin
changes.

What is hard: every service checks first and writes later, with awaits in
between; only `runSerializable`, the unique columns, the foreign keys and the
row locks make some of those pairs atomic. Processes stop anywhere. Google and
the mail providers fail before or after they acted. Token times are whole
seconds, database times are not. Twice a year a day has 23 or 25 hours. The
list of places is under "hazards" in `PROJECT.json`.

## The modules

The **booking core** is one system in four modules.

- `BookingStore` — the tables requests and workers share, and what Postgres
  promises: a serializable transaction commits only if no transaction that
  committed since its snapshot conflicts with what it read (`MayCommit`,
  `Clash`; external). `UpdateRow` is an autocommitted update beside it.
- `NotificationJobs` — pg-boss and its workers, one action per await of
  `process`: take the job and read the row, insert the event, save the link,
  send the mails. An attempt may fail at each of them; a killed worker leaves
  its job active until it expires. A `Letter` is what a mail tells of the
  appointment: its times, its link and who cancelled it, taken from the row the
  handler holds. `mails` keeps the last letter per job and recipient.
- `Bookings` — the four requests, one action per await: validation, the read of
  the hours, the overlap check, the commit, `deleteEvent`, the update that
  unlinks or cancels, the enqueue. A request may die at any point. `EditSchedule`
  and `Tick` are the coach and the clock.
- `BookingSystem` — composes them and states what they guarantee together.
- `ReservationCalendar` — the abstract specification: a set of reservations, of
  which one at a time is added, moved or released, never onto a taken slot.

A request runs once and is the identity of what it creates: a booking is named
after the request that created it, a job after the request that sent it, an
event after its job and the attempt.

The other components are modules of their own, since they share no state with
the booking core beyond single rows.

- `Availability` — weekly rows and overrides. A PATCH is a read with validation
  and a write of the merged row, so two can overlap.
- `Settings` — the row with the timezone and the notice. Every read upserts it;
  a PATCH reads it and writes the given fields later.
- `Slots` — composes the two with `computeSlots` and with the checks a booking
  meets, over a clock `LocalTime` per timezone, from instants to the date and
  minute shown, which may skip or repeat a minute. A PATCH of the timezone
  changes the clock under the bookings already made.
- `GoogleConnection` — connect flows through the consent screen and calls of
  `createMeetEvent` and `deleteEvent`, of several coaches at a time, one action
  per await. Every flow and call has an `OAuth2Client` of its own
  (`NewOAuthClient`), whose credentials are an account; a state may expire at
  any step before the callback. An account stands for its token and its address.
- `CoachSessions` — one coach's password, sessions and reset links. Time counts
  in ticks, `Second` of them in a second; tokens know the second only. bcrypt
  takes a tick.
- `CoachAccounts` — invitations, accounts and sites; each check is a step of
  its own before the write, which meets the unique columns. A call that is
  answered with an error holds nothing any more (`Refused`), whichever error.
- `SiteRegistry` — the abstract specification of those: a register of whose an
  email is, and whose a site, into which a coach is entered, or in which she is
  moved to a free site, in one step. The mapping is what `findUnique` answers
  for each email and each site (`accountOf`, `ownerOf`).
- `AllowedOrigins` — a table and a cache per instance; checks load the cache in
  two steps (the query reads, the answer arrives), writes invalidate it after
  they committed. Ages instead of dates, saturating, so that the model is finite.
- `EventTypes` — the catalog of one coach; `reorder` takes row locks one by one
  and keeps them, Postgres breaks a deadlock by failing one request.

`MC…` modules give the constants their values. `…Proofs` modules hold theorems.
Operators marked "Mutant" are plausible mistakes; `PROJECT.json` names, for every
property, one that breaks it.

## The runs

| run | checks | bounds |
|---|---|---|
| Contention | `NoDoubleBooking`, `ImplementsCalendar` | 3 requests of any kind, lengths 1 and 2, starts 1–3, two schedules, two attempts of a transaction, any request may die, no workers |
| MeetLinks | `LinkedEventIsLive`, `OneMeetRoom`, `PresentStateIsMailed`, `CancellerIsMailed` | 3 requests of any kind on Meet bookings, one worker, two attempts, mails fail |
| Jobs | `TypeOK`, `CompletedMeansDelivered`, `LinkedRoomIsLast`, `RequestsAreAnswered`, `JobsFinish`, `BookingIsAnnounced`, `MeetLinkEventually` | 2 requests of any kind for one time, two coaches, two attempts of a transaction and of a job, killed worker, Google faults; fairness |
| OriginStaleness | `BoundedStaleness` | 2 instances, 2 checks in flight, one origin, TTL 2, load 2 |
| Schedule | `RangesStayValid`, `OfferedIsBookable`, `OpenTimesAreOffered`, `SettingsChangeByPatch` | 2 weekly rows, whole days that PATCHes cut into shifts, one override, two overlapping PATCHes of hours or settings, two timezones (one skips a minute of one date and repeats one of the next), two notices, one booking, lengths 1 and 2, days of 3 minutes |
| Sessions | `TypeOK`, `ResetSessionWorks`, `RevokedSessionsEnd`, `UsedLinkIsDead` | 3 requests, 2 ticks per second, 3 seconds |
| Catalog | `OrderIsWhole`, `BookedTypesStay`, `CallsAreAnswered` | 3 requests of any kind, two rows and three free ids, one lost connection; fairness |
| Invites | `OneCoachPerSite`, `InviteRedeemedOnce`, `SitesAreKnown`, `ImplementsRegistry` | 4 requests, two addresses besides the admin's, two sites, one removable |
| Accounts | `RoomsInOwnCalendar`, `StatusNamesTheAccount`, `RoomsAreFound` | 2 coaches, 2 Google accounts, 3 connect flows, 3 calendar calls |

Why the bounds are enough: a double booking, a lost link, a stale cache, a
crossed PATCH, a link used twice, a shared site or a borrowed account takes two
actors and the thing they fight over; each instance has one actor more or as many rows as the
code compares at a time. Lengths 1 and 2 with three starts give equal, nested
and disjoint intervals. Two attempts show a first failure and a last one. In Jobs all requests ask for
one time, so that two transactions refuse each other and the second one finds
the slot taken when it starts again; a move books its time anew. Days of three
minutes hold both lengths, a slot up to midnight, a range that leaves no room
for the last step once the clock was set back, and, after a change of the zone,
a booking across midnight: `OfferedIsBookable` fails there when any one of its
exceptions is dropped. The exception of `OpenTimesAreOffered` for a clock set
forward needs longer days; there it is the proof that shows the rest. With
three requests a booking can be moved and cancelled, or cancelled twice, while
its first job is still out. (The properties of MeetLinks also hold
with two workers and one attempt per job, where two jobs of a booking overlap;
both at once is too much for a run.) Three flows let one coach connect a second account
while the other connects her first, and three calls let an event be created and
then deleted from two sides.
`MaxNow`, `MaxAttempts`, `MaxBookings`, `MaxRangeDays`, `RetryLimit`, `Notice`,
`WriteDelay`, `Ttl` and `MaxLoad` are bounds with their meaning at their
declaration.

Deadlock is not checked in runs whose requests are used up: such a system may
stop.

**Fairness.** A started request is carried on by Node's event loop, a queued
job is taken by some live instance, a worker goes on, pg-boss' supervisor
expires an abandoned job: weak fairness of each of those steps. Nobody is
obliged to send a request, edit hours, or fail; a killed worker is replaced
(Cloud Run starts an instance for the next request; the backlog waits for it).
In `EventTypes`, Postgres grants a free lock and breaks a deadlock.

**Disagreements shown by a run.** TLC finds a behaviour against a statement of
the repository (`expect: violation`; the quotations are under "findings"):

- ScheduleStale — the hours are read outside the transaction that the README
  says includes the availability check.
- MovedAfterCancel — a reschedule moves a booking cancelled after its check.
- StaleMeetTime — after a move that crosses the confirmation's job the linked
  event stays at the old time.

**Disagreements without a run.** Met while modelling; the models contain the
behaviour, or it shows in the code at sight:

- `create` accepts a start inside the notice window (`bookings.service.ts:118`,
  against `slots.service.ts:61-63`).
- The job of a confirmation creates an event for a booking that was cancelled
  meanwhile (`notification-jobs.service.ts:144`).
- A process stopped between commit and enqueue loses the job
  (`bookings.service.ts:159`, against `README.md:346-348`).
- `deleteEvent` throws when its client cannot be built, after the move is
  committed (`google-calendar.service.ts:70`, against
  `bookings.service.ts:286-288`).
- A load in flight puts the rows from before a `remove` back into the cache of
  the same instance (`allowed-origins.service.ts:62`).
- Two resets that overlap both succeed with one link
  (`auth.service.ts:103-117`, against `README.md:235-236`); a reset's session
  is dated a second ahead and outlives a revocation in that second.
- When the clock goes back, the last slots of the hours are offered and refused:
  `slots.service.ts:99-102` counts the start by the wall clock,
  `bookings.service.ts:395` the end by the minutes elapsed since midnight. TLC
  finds it on the instance of Schedule when `ClockWentBack` is taken out of
  `OfferedIsBookable`. When it goes forward, a booking may end after the hours,
  for the same reason (`ClockWentForward` in `OpenTimesAreOffered`).
- After a change of the timezone a booking may run across midnight. The query of
  `computeSlots` takes bookings within the asked dates (`slots.service.ts:74-75`)
  and misses it, so an overlapping slot is offered, which
  `slots.service.spec.ts:95` says is excluded; `create` refuses it.
  `OfferedIsBookable` says that an offer overlaps no other bookings (`Straddles`).
- `computeSlots` lists times for moving a booking that is inside its own notice
  window, and `rescheduleByClient` refuses them all
  (`bookings.service.ts:237-241`); and its offers are as long as the event type
  is by now, while a move keeps the booking's length (257-261). So the times
  offered for a booking may be refused; `OfferedIsBookable` speaks of bookings
  that may still be moved and are no longer than the offer.
- After a coach has connected another Google account, the rooms of her former
  bookings are not found and stay (`google-calendar.service.ts:73`);
  `RoomsAreFound` shows that this is the only way to miss one.
- `README.md:246-249` speaks of one central Google account; the code keeps one
  per coach (`google-oauth.service.ts:73`).
- Two creates of event types read the same last position
  (`event-types.service.ts:47`).
- The last serialization failure is rethrown, so the conflict message of
  `runSerializable` is never used (`serializable-transaction.util.ts:28-33`).

## The proofs

`BookingSystemProofs`, for all sets of coaches, requests, workers, schedules,
event types and times (`ASSUME`s beside the constants):

- `Invariance`: `Spec => []IndInv`.
- `TypeCorrect`, `DoubleBookingFree`: `TypeOK` and `NoDoubleBooking` follow.
- `CalendarImplemented`: `Spec => Calendar!Spec`. Each step of the core is a
  step of the abstract calendar or leaves it alone.

`NoDoubleBooking` is not inductive: that a commit finds its slot free follows
only from what happened since the transaction's snapshot. `IndInv` adds that a
request's claim agrees with the row it will write (`RequestInv`), that bookings
are not empty (`RowInv`), that jobs and workers refer to bookings and jobs that
exist (`JobInv`), and `SnapshotInv`: the slot of a transaction Postgres would
still let commit is free. A commit into that slot is a clash and dooms the
transaction, so the invariant survives it; cancellations only free slots, and
the one autocommitted update that touches a row, the unlinking, leaves its time
alone. One step per action, one lemma per action that disturbs a conjunct.

`AllowedOriginsProofs`, for any number of instances, checks and origins:
`CopiesInvariance` (`IndInv`) and `StalenessBounded`. The argument: rows in
flight, and rows in a cache, are wrong only about changes younger than the rows
(`RowsInv`, `CacheInv`); a copy that still answers is at most TTL old and was
at most one load old when it was installed.

`CoachAccountsProofs`, for any number of requests, addresses and sites:
`SitesAreUnique` and `InvitesAreRedeemedOnce`. Nothing the requests looked up
before is assumed to hold still: the argument is the unique columns alone
(`UniqueEmail`, `UniqueSite`). That redemptions are told apart by their rows
needs `OwnRow` of `IndInv`: an `acceptInvite` has answered exactly when the row
it inserted is there, with the email of its token, which no later assignment of
a site changes (`OneAccountPerEmail`). Assumed: the placeholders for no coach
and no site are no members of the sets (`NamesAssumption`).

`RegistryImplemented` there is the refinement, `Spec => Registry!Spec`. By
`IndInv` a look-up has one answer (`IndexedInv`): a coach is found by a value
exactly when she holds it. So the insert changes the register at the email and
the site it takes, which were nobody's (`CreateJoins`), and the update at the
site it takes and the one it gives up (`UpdateMoves`); whatever else a request
does leaves it alone. An account is therefore never lost and keeps its email,
and a site comes free only by a move of its coach.

`GoogleConnectionProofs`, for any number of coaches, accounts, flows and calls:
`Invariance` (`IndInv`), `RoomsStayInOwnCalendar`, `StatusIsTrue` and
`RoomsMissedOnlyAfterSwitch`. None of the three is inductive alone: what is
inserted depends on the credentials of a client set an await earlier, these on a
row, and the row on the flow that stored it. `IndInv` follows an account along
that way: the client of a flow holds the account chosen in it (`FlowInv`), a row
holds an account its coach connected (`IntegrationInv`), and so does the client
of a call under way, whose event, if it deletes one, is its coach's (`CallInv`).
Connections are never undone (`Connected` is stable), so a change of the row
under a call hurts nothing. One lemma per change of a flow or of a call.
Assumed: flows and calls are different things, and `None` is none of them
(`IdsAssumption`).

`BookingMailProofs` builds on the same `IndInv`, for all sets of requests,
workers and events. Four invariants of `BookingSystem` are added to it:

- `MailInv` gives `PresentStateMailed`, `CancellerMailed` and
  `CompletedJobsDelivered`. At most one worker handles a job (`HandlerInv`);
  what a worker holds to send, and what a completed job sent, tells of the row
  or of a state a later change has left (`SentInv`, `CancelledInv`); and at any
  time the present state of a booking is announced by a job or a request still
  owes the announcement (`AnnouncedInv`). The last is the point: a job that has
  read an old row is harmless because the request that changed the row sends its
  job afterwards. Requests and workers may die anywhere.
- `LinkInv` gives `LinksAreLive`. Rows, and requests about to unlink, only name
  events that no attempt will save any more (`Spent`) and that were made for
  their own booking (`NamedInv`), so a deletion never meets an event that is
  about to be linked (`SavingInv`). Assumed: `FaultyRequests = {}`. A request
  that dies between `deleteEvent` and the unlinking leaves a dead link.
- `AttemptInv` gives the action property `LinkedRoomStaysLast`, whatever fails:
  while some handler is about to create or save an event for a booking nobody
  moves, the booking has no link. The handler may have read the row long ago; no
  other handler can have linked it since, as only the booking's own job
  announces it and at most one worker holds that job (`HandlerInv`).
- `RoomInv` gives `OneRoomPerBooking` on top of it: a live event of a booking
  nobody moves is linked or about to be. Assumed: `GoogleFaults = FALSE` and `FaultyWorkers = {}`. An insert whose
  answer is lost, or a worker killed before the link is saved, leaves a room
  that the next attempt does not know of. `LinkedRoomStaysLast` says that this is
  the only window: once the link is saved, nothing makes a second room.

`SlotsProofs`, for any hours, settings, bodies of requests and bookings:

- `HoursStayValid` (`HoursInv`): an update writes the whole row it has checked,
  so whatever another update wrote in between is overwritten (`EditInv`).
- `SettingsAreKept` (`SettingsInv`): the action property. A PATCH that writes has
  found or made the row, and the row is never removed.
- `RangesAgree`: hours computed for many dates are those of each date.
- `OffersAreBookable` (`SlotsInv`): a slot offered is accepted by `create`
  (`CreateAccepts`), and by `rescheduleByClient` for a booking outside its notice
  and no longer than the offer (`MoveAccepts`, `MovedTo`). The move follows from
  the same lemma as the create, `OfferHolds`, about any part of an offer that
  begins with it. Offers count by the wall clock, the check of
  the end counts elapsed minutes. `SetMinuteBounds` relates the two: the minute
  a slot starts at is on its date, at the wanted minute or after, with no more
  elapsed since midnight unless the clock was set back in between
  (`ClockWentBack`). `MissedBookings` shows that a booking the query for the
  asked dates does not find cannot overlap an offer unless it runs across
  midnight. So an offer is never past and overlaps such bookings only
  (`Unhindered`), and is refused only for one of them, or for the hours after the
  clock went back (`Unseen`). Assumed, and checked by TLC for its instance, is
  `CalendarClocks`: dates come in order, none is left out on the way, and what
  the clock skips on an asked date is not the end of it. Zones that change to
  summer time and back satisfy it.
- `NothingIsWithheld` (`SlotsInv`), the converse: a slot that passes what
  `create` and a move ask of a slot (`Admissible`), outside the notice and at a step
  of its range, is offered in every list of dates around it. `RangesAgree` carries the range from the check
  to the list; that the slot fits in it by the wall clock needs that the clock
  was not set forward before it on its date. The same assumption on the clocks.

`CoachSessionsProofs`, for any clock, times to live and number of requests:
`TypeCorrect`, `RevocationEndsSessions`, `ResetSessionIsGood` (`WriteDelay <= 1`)
and `LinksAreSingleUse` (`WriteDelay = 0`). `IndInv` says where dates come from:
each was the present time once and reaches the row within `WriteDelay`
(`DatesInv`), a token's second contains the time it was signed at, or is the
next one for a reset (`TokensInv`), and the date of a reset is past its link's
(`ResetInv`). That a used link stays dead (`SpentInv`) needs dates in the row to
grow, which is lost as soon as an update can be overtaken: hence the bound.

`EventTypesProofs`, for any catalog and number of requests:
`BookedTypesAreKept`, `CommitsOwnTheirRows` (an action property: a commit finds
all rows of its list there and locked by itself) and `OrderStaysWhole`. The
first two follow from `ShapeInv` and `TransactionInv`, which says that what a
transaction has updated so far is there and locked. The third adds what commits
leave behind. Assumed is `WholeOrders`: a list given to `reorder` names every
row of the catalog at the start, or one twice and is refused; a shorter list
mixes two orders, which the code accepts.

`SitesStayKnown` in `CoachAccountsProofs` uses `SitesInv`: the site is known not
only in rows but in every mail and every call past the look-up, and what was
once allowed stays known although it may be removed.

Every invariant of a passing run is thereby proved, both refinements, and the
action properties of the booking core and of the settings. Each strengthened invariant was checked
by TLC on the instance of a run first.

Only model-checked: liveness (`RequestsAreAnswered`, `JobsFinish`,
`BookingIsAnnounced`, `MeetLinkEventually`, `CallsAreAnswered`), which depends on
fairness and ENABLED and is out of the prover's reach.

## What is not modelled

- The wording, layout and language of mails, the calendar file, the choice
  between Gmail and Resend: formatting. Of the content, `Letter` keeps what can
  be out of date or wrong.
- The reason of a cancellation, clients' contact data, prices, names: nothing
  decides on them. `IN_PERSON` and `PHONE` behave alike.
- Settings that only show in mails, and the format of the palette.
- The signature of tokens and the encryption of stored ones.
- A pg-boss job expired while its handler still runs (the handler would have to
  take longer than the expiry).
- Transactions of the booking core carry no clock change; `Slots` has it.
- An UPDATE that takes longer than a bcrypt hash (`WriteDelay = 0`). With
  `WriteDelay = 1` an older `sessionsRevokedAt` can overwrite a newer one, and
  `UsedLinkIsDead` fails.
- Roles and guards as decorators, configuration, logging, API document,
  throttling, migrations, scripts.

## Plan

Done in this order: the booking core and its proofs; allowed origins and its
proof; availability and slots; sessions; event types; accounts and their proof;
what mails tell, and two cancellations; settings and a change of the timezone
under bookings; the Google connection and its proof.

Then the proofs: sessions; event types; hours, settings and offers; what mails
tell, live links and single rooms; known sites; no second room once one is
linked; offers on days the clock goes back, and that none is
withheld; the register of coaches.
