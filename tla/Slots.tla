--------------------------------- MODULE Slots ---------------------------------
(***************************************************************************)
(* The slots a client is offered (slots/slots.service.ts) against the ones *)
(* that create accepts (assertSlotIsBookable), over the working hours of   *)
(* Availability, with the wall clock of the business timezone (Settings)   *)
(* and its changes to and from daylight saving time.                       *)
(*                                                                         *)
(* Instants are numbered in steps of one "minute" of elapsed time; the     *)
(* database stores instants.  Requests to book run one at a time here;     *)
(* BookingSystem is about their races.                                     *)
(***************************************************************************)
EXTENDS Availability, Settings, FiniteSets

CONSTANTS
    LocalTime,       \* per timezone and instant: date and minute of the clock
    Dates,           \* dates clients ask for
    Durations,       \* values of eventType.durationMinutes
    MaxRangeDays,    \* MAX_RANGE_DAYS
    MaxBookings,     \* bound on the bookings of a behaviour
    MaxNow           \* bound on the clock

Zones == DOMAIN LocalTime

SettingsRows == [businessTimezone : Zones, cancellationNoticeHours : Nat]

\* An instant is the same in every zone; the DTO classes validate the rest.
ASSUME SlotsAssumption ==
    /\ \A zone \in Zones : DOMAIN LocalTime[zone] \subseteq Int
    /\ \A zone, other \in Zones : DOMAIN LocalTime[zone] = DOMAIN LocalTime[other]
    /\ Dates \subseteq Int /\ Durations \subseteq Nat \ {0}
    /\ DefaultSettings \in SettingsRows
    /\ SettingsPatches \subseteq [businessTimezone : Zones \cup {NotGiven},
                                 cancellationNoticeHours : Nat \cup {NotGiven}]

VARIABLES
    confirmed,       \* the CONFIRMED bookings: instants of start and end
    now              \* DateTime.now()

vars == <<availabilityVars, settingsVars, confirmed, now>>

Wall == LocalTime[Present.businessTimezone]

Notice == Present.cancellationNoticeHours

Instants == DOMAIN Wall

DateOf(t) == Wall[t].date
MinuteOf(t) == Wall[t].minute

\* day.startOf('day')
StartOfDay(date) ==
    LET wall == Wall
    IN CHOOSE t \in DOMAIN wall :
         wall[t].date = date /\ (t - 1 \in DOMAIN wall => wall[t - 1].date # date)

\* day.set({hour, minute}), luxon's: the first time the clock shows the minute;
\* a minute the clock skips is counted from midnight without the change.
SetMinute(date, minute) ==
    LET wall == Wall
        time == [date |-> date, minute |-> minute]
        shown == {t \in DOMAIN wall : wall[t] = time}
    IN IF shown = {} THEN StartOfDay(date) + minute
       ELSE CHOOSE t \in shown : \A u \in shown : t <= u

Overlap(a, b) == a.startAt < b.endAt /\ a.endAt > b.startAt

Init == AvailabilityInit /\ SettingsInit /\ confirmed = {} /\ now = 0

-------------------------------------------------------------------------------
(* computeSlots *)

\* The steps of one range: as many whole slots as fit, from its start.
StartMinutes(range, duration) ==
    {m \in range.startMinute .. (range.endMinute - duration) :
        (m - range.startMinute) % duration = 0}

\* All slots of the asked dates, in wall-clock time.
CandidateSlots(from, to, duration) ==
    LET ranges == EffectiveRangesForDateRange(from, to)
        starts(date) == UNION {{SetMinute(date, m) : m \in StartMinutes(g, duration)} :
                                  g \in ranges[date]}
    IN {[startAt |-> t, endAt |-> t + duration] : t \in UNION {starts(date) : date \in from .. to}}

\* Mutant: the booking that is being moved stands in its own way.
ExistingBookingsAll(from, to, excluded) ==
    {b \in confirmed : b.startAt >= StartOfDay(from) /\ b.endAt <= StartOfDay(to + 1)}

\* The bookings that lie within the asked dates.
ExistingBookings(from, to, excluded) ==
    {b \in confirmed \ excluded : b.startAt >= StartOfDay(from) /\ b.endAt <= StartOfDay(to + 1)}

ComputeSlots(from, to, duration, excluded) ==
    {s \in CandidateSlots(from, to, duration) :
        /\ s.startAt >= now + Notice
        /\ \A b \in ExistingBookings(from, to, excluded) : ~ Overlap(b, s)}

\* computeSlots refuses the other date ranges.
ValidDateRange(from, to) == from <= to /\ to - from <= MaxRangeDays

-------------------------------------------------------------------------------
(* Booking *)

SameCalendarDay(s) == DateOf(s.startAt) = DateOf(s.endAt)

\* The candidate of assertSlotIsBookable: its start is read off the clock, its
\* end is the time elapsed since midnight.
Candidate(s) ==
    [startMinute |-> MinuteOf(s.startAt),
     endMinute |-> s.endAt - StartOfDay(DateOf(s.startAt))]

WithinSchedule(s) == IsWithinEffectiveRange(DateOf(s.startAt), Candidate(s))

Free(s, excluded) == \A b \in confirmed \ excluded : ~ Overlap(b, s)

SlotIsBookable(s, excluded) == WithinSchedule(s) /\ Free(s, excluded)

\* What create and rescheduleByClient both ask of a slot.
Admissible(s, excluded) ==
    s.startAt >= now /\ SameCalendarDay(s) /\ SlotIsBookable(s, excluded)

CreateAccepts(s) == Admissible(s, {})

\* assertWithinNoticeWindow, of the start of the booking itself.
WithinNoticeWindow(b) == b.startAt >= now + Notice

\* A booking keeps its own length, whatever its event type's is by now.
MovedTo(b, start) == [startAt |-> start, endAt |-> start + (b.endAt - b.startAt)]

MoveAccepts(b, start) == WithinNoticeWindow(b) /\ Admissible(MovedTo(b, start), {b})

Book(s) ==
    /\ Cardinality(confirmed) < MaxBookings
    /\ CreateAccepts(s)
    /\ confirmed' = confirmed \cup {s}
    /\ Ensured
    /\ UNCHANGED <<availabilityVars, patching, now>>

Reschedule(b, start) ==
    /\ b \in confirmed
    /\ MoveAccepts(b, start)
    /\ confirmed' = (confirmed \ {b}) \cup {MovedTo(b, start)}
    /\ Ensured
    /\ UNCHANGED <<availabilityVars, patching, now>>

\* By the coach, or by the client in time.  The row of settings exists since
\* the booking was made.
Cancel(b) ==
    /\ b \in confirmed
    /\ confirmed' = confirmed \ {b}
    /\ UNCHANGED <<availabilityVars, settingsVars, now>>

Tick ==
    /\ now < MaxNow
    /\ now' = now + 1
    /\ UNCHANGED <<availabilityVars, settingsVars, confirmed>>

Slots == {s \in {[startAt |-> t, endAt |-> t + d] : t \in Instants, d \in Durations} : s.endAt \in Instants}

\* Editors and Patchers are the same requests: each edits the hours or the
\* settings.
OnePatchEach == \A e \in Editors \cap Patchers : edit'[e] = NoEdit \/ patching'[e] = NoPatch

Next ==
    \/ AvailabilityNext /\ UNCHANGED <<settingsVars, confirmed, now>> /\ OnePatchEach
    \/ SettingsNext /\ UNCHANGED <<availabilityVars, confirmed, now>> /\ OnePatchEach
    \/ \E s \in Slots :
          \/ Book(s)
          \/ \E b \in confirmed : s = MovedTo(b, s.startAt) /\ Reschedule(b, s.startAt)
    \/ \E b \in confirmed : Cancel(b)
    \/ Tick

Spec == Init /\ [][Next]_vars

-------------------------------------------------------------------------------

\* The booking runs across midnight, as it may after a change of the timezone.
Straddles(b) == b.endAt > StartOfDay(DateOf(b.startAt) + 1)

\* The clock was set back between midnight and t: more time has elapsed than it
\* shows.
ClockWentBack(t) == t - StartOfDay(DateOf(t)) > MinuteOf(t)

\* Nothing that computeSlots knows of stands in the way of s.
Unhindered(s, excluded) ==
    /\ s.startAt >= now
    /\ \A b \in confirmed \ excluded : Overlap(b, s) => Straddles(b)

\* What computeSlots does not see: the hours after the clock was set back, and a
\* booking across midnight, which its query for one of the two dates misses.
Unseen(s, excluded) == ClockWentBack(s.startAt) \/ ~ Free(s, excluded)

\* computeSlots and the checks of create and rescheduleByClient compute ranges,
\* times and conflicts by different code, while hours, timezone and notice change.
\* Yet a slot that is offered is accepted by create at that moment, and its start
\* by rescheduleByClient for any booking that may still be moved, no longer than
\* what is offered (offers have the event type's present length, a move keeps the
\* booking's own).  Offers are refused for what computeSlots does not see only,
\* and then they are not past and overlap bookings across midnight only.  Left out
\* are slots up to midnight, which are offered and which assertSameCalendarDay
\* refuses.
OfferedIsBookable ==
    \A from, to \in Dates, duration \in Durations : ValidDateRange(from, to) =>
        /\ \A s \in ComputeSlots(from, to, duration, {}) :
              SameCalendarDay(s) =>
                  /\ Unhindered(s, {})
                  /\ Unseen(s, {}) \/ CreateAccepts(s)
        /\ \A b \in confirmed : \A s \in ComputeSlots(from, to, duration, {b}) :
              LET moved == MovedTo(b, s.startAt)
              IN moved.endAt <= s.endAt /\ SameCalendarDay(moved) =>
                  /\ Unhindered(moved, {b})
                  /\ WithinNoticeWindow(b) =>
                         Unseen(moved, {b}) \/ MoveAccepts(b, s.startAt)

\* The clock was set forward between midnight and t.
ClockWentForward(t) == t - StartOfDay(DateOf(t)) < MinuteOf(t)

AskedDates == UNION {UNION {from .. to : to \in Dates} : from \in Dates}

\* The hours of the date have a range that holds s and in which its start is a
\* whole number of steps from the start of the range.
OnStep(s) ==
    LET slot == Candidate(s)
    IN \E range \in EffectiveRangesForDate(DateOf(s.startAt)) :
          /\ range.startMinute <= slot.startMinute /\ slot.endMinute <= range.endMinute
          /\ (slot.startMinute - range.startMinute) % (s.endAt - s.startAt) = 0

\* The steps of the asked dates, outside the notice, at which a slot begins:
\* where the clock shows a minute twice, the first one, and none after it was
\* set forward.
Steps ==
    {s \in Slots :
        /\ DateOf(s.startAt) \in AskedDates
        /\ s.startAt >= now + Notice
        /\ OnStep(s)
        /\ s.startAt = SetMinute(DateOf(s.startAt), MinuteOf(s.startAt))
        /\ ~ ClockWentForward(s.startAt)}

\* Nothing is withheld: computeSlots offers every slot outside the notice that
\* passes what create and rescheduleByClient ask of a slot and that begins at a
\* step of the hours, whichever dates around it are asked for, and whichever
\* booking is excluded to be moved there.  Left out are the second time a clock set
\* back shows the minute, and what follows a change forward, when create accepts
\* slots that end after the hours.
OpenTimesAreOffered ==
    LET steps == Steps
    IN \A from, to \in Dates, duration \in Durations, excluded \in {{}} \cup {{b} : b \in confirmed} :
          ValidDateRange(from, to) =>
              LET offered == ComputeSlots(from, to, duration, excluded)
              IN \A s \in steps :
                    /\ s.endAt - s.startAt = duration /\ DateOf(s.startAt) \in from .. to
                    /\ Admissible(s, excluded)
                    => s \in offered

-------------------------------------------------------------------------------
(* Why the two properties hold: what they need of a clock, and of the state. *)

\* t is the first instant of the date.
Begins(wall, date, t) ==
    /\ t \in DOMAIN wall /\ wall[t].date = date
    /\ \A u \in DOMAIN wall : wall[u].date = date => t <= u

\* No date is left out or comes back, and the calendar goes on for a day after
\* any asked date.  On an asked date the clock may be set forward or back; a
\* minute that it skips on an asked date is not the end of the date, and shows
\* later when it is counted from midnight.
CalendarClock(wall) ==
    /\ \A t \in DOMAIN wall : wall[t].date \in Int /\ wall[t].minute \in Nat
    /\ \A t, u \in DOMAIN wall : t <= u =>
         /\ t .. u \subseteq DOMAIN wall
         /\ wall[t].date <= wall[u].date
         /\ \A date \in wall[t].date .. wall[u].date : \E v \in DOMAIN wall : Begins(wall, date, v)
    /\ \A t \in DOMAIN wall : wall[t].date \in AskedDates => t + MinutesPerDay \in DOMAIN wall
    /\ \A date \in AskedDates :
         /\ \E t \in DOMAIN wall : wall[t].date = date + 1
         /\ \E t \in DOMAIN wall :
              /\ Begins(wall, date, t)
              /\ \A m \in 0 .. (MinutesPerDay - 1) :
                   \/ wall[t + m].date = date /\ wall[t + m].minute >= m
                   \/ \E u \in DOMAIN wall : wall[u] = [date |-> date, minute |-> m]

CalendarClocks == \A zone \in Zones : CalendarClock(LocalTime[zone])

PatchInv ==
    /\ settings = NoSettings \/ settings \in SettingsRows
    /\ \A e \in Patchers : patching[e] = NoPatch \/ patching[e] \in SettingsPatches

\* Bookings are made of instants, whatever the zone is by now, and end after they
\* start.
BookedInv ==
    /\ now \in Nat
    /\ \A b \in confirmed :
         b.startAt \in Instants /\ b.endAt \in Instants /\ b.startAt <= b.endAt

SlotsInv == HoursInv /\ SettingsInv /\ PatchInv /\ BookedInv

===============================================================================
