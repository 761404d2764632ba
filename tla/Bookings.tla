------------------------------- MODULE Bookings -------------------------------
(***************************************************************************)
(* BookingsService (bookings/bookings.service.ts): create, cancelByClient, *)
(* cancelByCoach and rescheduleByClient as concurrent requests, one action *)
(* per stretch of code between two awaits that other requests can see.     *)
(*                                                                         *)
(* Time is counted in slots of equal length from midnight of the first     *)
(* day, in the coach's business timezone.                                  *)
(***************************************************************************)
EXTENDS NotificationJobs

CONSTANTS
    Operations,       \* the endpoints a behaviour may call
    EventTypeRows,    \* rows the EventType table may hold when it is read
    StartTimes,       \* values of dto.startAt
    Schedules,        \* effective ranges a coach may have: sets of ranges
    DayLength,        \* slots in a day
    Notice,           \* settings.cancellationNoticeHours, in slots
    MaxNow,           \* bound on the clock
    MaxAttempts,      \* SERIALIZATION_RETRY_ATTEMPTS
    FaultyRequests    \* requests that may die at an await

Ranges == [startMinute : Nat, endMinute : Nat]

AllOperations == {"create", "rescheduleByClient", "cancelByClient", "cancelByCoach"}

ASSUME BookingsAssumptions ==
    /\ Operations \subseteq AllOperations
    /\ EventTypeRows \subseteq [coachId : Coaches, durationMinutes : Nat \ {0},
                                isActive : BOOLEAN, locations : SUBSET Locations]
    /\ StartTimes \subseteq Nat
    /\ Schedules \subseteq SUBSET Ranges
    /\ DayLength \in Nat \ {0}
    /\ Notice \in Nat
    /\ MaxNow \in Nat
    /\ MaxAttempts \in Nat \ {0}
    /\ FaultyRequests \subseteq Requests

VARIABLES
    pc,           \* per request: where it is
    call,         \* per request: the operation and what it read of the row
    attempt,      \* per request: the attempt runSerializable is at
    schedule,     \* per coach: the effective availability ranges
    now           \* DateTime.now()

bookingVars == <<pc, call, attempt, schedule, now>>

-------------------------------------------------------------------------------
(* Types *)

Running == {"availability", "overlap", "commit", "deleteEvent", "clearLink",
            "markCancelled", "enqueue"}

\* "rejected" is an answer with a 4xx status; "failed" is a 5xx or no answer.
Answered == {"ok", "rejected", "failed"}

Calls == [op : AllOperations \cup {"none"}, location : Locations,
          googleEventId : EventIds \cup {NoEvent}]

NoCall == [op |-> "none", location |-> "PHONE", googleEventId |-> NoEvent]

BookingsTypeOK ==
    /\ pc \in [Requests -> Running \cup Answered \cup {"idle"}]
    /\ call \in [Requests -> Calls]
    /\ attempt \in [Requests -> 1 .. MaxAttempts]
    /\ schedule \in [Coaches -> SUBSET Ranges]
    /\ now \in 0 .. MaxNow

BookingsInit ==
    /\ pc = [r \in Requests |-> "idle"]
    /\ call = [r \in Requests |-> NoCall]
    /\ attempt = [r \in Requests |-> 1]
    /\ schedule \in [Coaches -> Schedules]
    /\ now = 0

-------------------------------------------------------------------------------
(* The checks *)

\* A slot that ends exactly at midnight ends on the next date.
SameCalendarDay(start, end) == start \div DayLength = end \div DayLength

\* Of one range: ranges that touch are not joined.
IsWithinEffectiveRange(ranges, c) ==
    \E g \in ranges : g.startMinute <= c.startAt /\ c.endAt <= g.endMinute

WithinNoticeWindow(start) == start >= now + Notice

\* The requested start of a create or a reschedule.
ValidStart(start, duration) ==
    start >= now /\ SameCalendarDay(start, start + duration)

-------------------------------------------------------------------------------
(* Starting a request *)

Goto(r, label) == pc' = [pc EXCEPT ![r] = label]

Reject(r) ==
    /\ Goto(r, "rejected")
    /\ UNCHANGED <<storeVars, jobVars, call, attempt, schedule, now>>

\* create, up to runSerializable.  The handler reads the event type once, so
\* any row the table may hold at that moment is an input.
Create(r, et, location, start) ==
    LET accepted == /\ et.isActive
                    /\ location \in et.locations
                    /\ ValidStart(start, et.durationMinutes)
    IN /\ pc[r] = "idle"
       /\ "create" \in Operations
       /\ IF accepted
          THEN /\ Goto(r, "availability")
               /\ call' = [call EXCEPT ![r] =
                    [op |-> "create", location |-> location, googleEventId |-> NoEvent]]
               /\ claim' = [claim EXCEPT ![r] =
                    [id |-> r, coachId |-> et.coachId, startAt |-> start,
                     endAt |-> start + et.durationMinutes]]
               /\ UNCHANGED <<bookings, tx, jobs, events, jobVars, attempt, schedule, now>>
          ELSE Reject(r)

\* What a handler keeps of the row it read before its first check.
Remember(r, operation, b) ==
    call' = [call EXCEPT ![r] = [op |-> operation, location |-> bookings[b].location,
                                 googleEventId |-> bookings[b].googleEventId]]

\* rescheduleByClient, up to runSerializable: status, notice window and the new
\* start are checked on the row read here.
RescheduleByClient(r, b, start) ==
    LET duration == bookings[b].endAt - bookings[b].startAt
        accepted == /\ Confirmed(b)
                    /\ WithinNoticeWindow(bookings[b].startAt)
                    /\ ValidStart(start, duration)
    IN /\ pc[r] = "idle"
       /\ "rescheduleByClient" \in Operations
       /\ IF accepted
          THEN /\ Goto(r, "availability")
               /\ Remember(r, "rescheduleByClient", b)
               /\ claim' = [claim EXCEPT ![r] =
                    [id |-> b, coachId |-> bookings[b].coachId, startAt |-> start,
                     endAt |-> start + duration]]
               /\ UNCHANGED <<bookings, tx, jobs, events, jobVars, attempt, schedule, now>>
          ELSE Reject(r)

\* applyCancellation begins: the event it read is deleted first.
StartCancellation(r, operation, b) ==
    /\ Goto(r, IF bookings[b].googleEventId # NoEvent THEN "deleteEvent"
               ELSE "markCancelled")
    /\ Remember(r, operation, b)
    /\ claim' = [claim EXCEPT ![r] =
         [id |-> b, coachId |-> bookings[b].coachId,
          startAt |-> bookings[b].startAt, endAt |-> bookings[b].endAt]]
    /\ UNCHANGED <<bookings, tx, jobs, events, jobVars, attempt, schedule, now>>

CancelByClient(r, b) ==
    /\ pc[r] = "idle"
    /\ "cancelByClient" \in Operations
    /\ IF Confirmed(b) /\ WithinNoticeWindow(bookings[b].startAt)
       THEN StartCancellation(r, "cancelByClient", b)
       ELSE Reject(r)

\* Any coach may call; assertCoachOwnsOrIsAdmin answers 404 to the others.
CancelByCoach(r, b, coach) ==
    /\ pc[r] = "idle"
    /\ "cancelByCoach" \in Operations
    /\ IF Confirmed(b) /\ coach \in {bookings[b].coachId, "ADMIN"}
       THEN StartCancellation(r, "cancelByCoach", b)
       ELSE Reject(r)

-------------------------------------------------------------------------------
(* runSerializable(assertSlotIsBookable; write) *)

\* isWithinEffectiveRange reads on this.prisma, outside the transaction.
ReadAvailability(r) ==
    /\ pc[r] = "availability"
    /\ Goto(r, IF IsWithinEffectiveRange(schedule[claim[r].coachId], claim[r])
               THEN "overlap" ELSE "rejected")
    /\ UNCHANGED <<storeVars, jobVars, call, attempt, schedule, now>>

\* The overlap query, the transaction's first statement: it takes the snapshot.
CheckOverlap(r) ==
    /\ pc[r] = "overlap"
    /\ IF Taken(claim[r])
       THEN Goto(r, "rejected") /\ UNCHANGED tx
       ELSE Goto(r, "commit") /\ tx' = [tx EXCEPT ![r] = "open"]
    /\ UNCHANGED <<bookings, claim, jobs, events, jobVars, call, attempt, schedule, now>>

CommitCreate(r) ==
    /\ pc[r] = "commit"
    /\ call[r].op = "create"
    /\ CommitRow(r, [coachId |-> claim[r].coachId, startAt |-> claim[r].startAt,
                     endAt |-> claim[r].endAt, location |-> call[r].location,
                     status |-> "CONFIRMED", cancelledBy |-> "NOBODY",
                     googleEventId |-> NoEvent])
    /\ Goto(r, "enqueue")
    /\ UNCHANGED <<claim, jobs, events, jobVars, call, attempt, schedule, now>>

\* Mutant: the whole row as it was read is written back.
RescheduledWholeRow(row, c) ==
    [row EXCEPT !.startAt = c.startAt, !.endAt = c.endAt, !.status = "CONFIRMED"]

\* The row a reschedule writes: its times only, whatever the status is by now.
Rescheduled(row, c) == [row EXCEPT !.startAt = c.startAt, !.endAt = c.endAt]

CommitReschedule(r) ==
    LET row == bookings[claim[r].id]
    IN /\ pc[r] = "commit"
       /\ call[r].op = "rescheduleByClient"
       /\ CommitRow(r, Rescheduled(row, claim[r]))
       /\ call' = [call EXCEPT ![r].googleEventId = row.googleEventId]
       /\ Goto(r, IF row.location = "GOOGLE_MEET" /\ row.googleEventId # NoEvent
                  THEN "deleteEvent" ELSE "enqueue")
       /\ UNCHANGED <<claim, jobs, events, jobVars, attempt, schedule, now>>

\* Mutant: runSerializable retries without counting its attempts.
RetryForever(r) ==
    /\ pc[r] = "commit"
    /\ tx' = [tx EXCEPT ![r] = "none"]
    /\ Goto(r, "availability")
    /\ UNCHANGED <<bookings, claim, jobs, events, jobVars, call, attempt, schedule, now>>

\* Postgres refuses the transaction with P2034, because it must or for its own
\* reasons (page or relation level predicate locks).  The whole callback runs
\* again, availability included; the last attempt rethrows.
SerializationFailure(r) ==
    /\ pc[r] = "commit"
    /\ tx' = [tx EXCEPT ![r] = "none"]
    /\ IF attempt[r] < MaxAttempts
       THEN Goto(r, "availability") /\ attempt' = [attempt EXCEPT ![r] = @ + 1]
       ELSE Goto(r, "failed") /\ UNCHANGED attempt
    /\ UNCHANGED <<bookings, claim, jobs, events, jobVars, call, schedule, now>>

-------------------------------------------------------------------------------
(* After the transaction, and cancelling *)

\* Mutant: rescheduleByClient forgets to clear the link of the deleted event.
AfterDeleteKeepLink(operation) ==
    IF operation = "rescheduleByClient" THEN "enqueue" ELSE "markCancelled"

\* The row update that follows the deletion of the event.
AfterDelete(operation) ==
    IF operation = "rescheduleByClient" THEN "clearLink" ELSE "markCancelled"

\* googleCalendarService.deleteEvent: Google's own failures are swallowed.
DeleteEvent(r) ==
    /\ pc[r] = "deleteEvent"
    /\ \/ events' = [events EXCEPT ![call[r].googleEventId].state = "deleted"]
       \/ GoogleFaults /\ UNCHANGED events
    /\ Goto(r, AfterDelete(call[r].op))
    /\ UNCHANGED <<bookings, claim, tx, jobs, jobVars, call, attempt, schedule, now>>

\* deleteEvent awaits getAuthenticatedClient outside its .catch: when the
\* integration row cannot be read or its token not decrypted, it throws.
DeleteEventThrows(r) ==
    /\ GoogleFaults
    /\ pc[r] = "deleteEvent"
    /\ Goto(r, "failed")
    /\ UNCHANGED <<storeVars, jobVars, call, attempt, schedule, now>>

ClearLink(r) ==
    LET b == claim[r].id
    IN /\ pc[r] = "clearLink"
       /\ UpdateRow(b, [bookings[b] EXCEPT !.googleEventId = NoEvent])
       /\ Goto(r, "enqueue")
       /\ UNCHANGED <<claim, jobs, events, jobVars, call, attempt, schedule, now>>

Cancelled(row, operation) ==
    [row EXCEPT !.status = "CANCELLED",
                !.cancelledBy = IF operation = "cancelByClient" THEN "CLIENT" ELSE "COACH"]

\* By id: of two cancellations the second overwrites who cancelled.
MarkCancelled(r) ==
    LET b == claim[r].id
    IN /\ pc[r] = "markCancelled"
       /\ UpdateRow(b, Cancelled(bookings[b], call[r].op))
       /\ Goto(r, "enqueue")
       /\ UNCHANGED <<claim, jobs, events, jobVars, call, attempt, schedule, now>>

KindOf(operation) ==
    CASE operation = "create" -> "confirmed"
      [] operation = "rescheduleByClient" -> "rescheduled"
      [] OTHER -> "cancelled"

\* Mutant: the send is not awaited, and may be lost.
FireAndForget(r) ==
    /\ pc[r] = "enqueue"
    /\ Enqueue(r, claim[r].id, KindOf(call[r].op)) \/ UNCHANGED jobs
    /\ Goto(r, "ok")
    /\ UNCHANGED <<bookings, claim, tx, events, jobVars, call, attempt, schedule, now>>

\* notificationJobsService.enqueue, then the answer.
EnqueueNotification(r) ==
    /\ pc[r] = "enqueue"
    /\ Enqueue(r, claim[r].id, KindOf(call[r].op))
    /\ Goto(r, "ok")
    /\ UNCHANGED <<bookings, claim, tx, events, jobVars, call, attempt, schedule, now>>

\* The instance dies or the database drops the connection at an await.  An
\* open transaction rolls back.
RequestDies(r) ==
    /\ r \in FaultyRequests
    /\ pc[r] \in Running
    /\ Goto(r, "failed")
    /\ tx' = [tx EXCEPT ![r] = "none"]
    /\ UNCHANGED <<bookings, claim, jobs, events, jobVars, call, attempt, schedule, now>>

-------------------------------------------------------------------------------
(* The environment *)

\* A coach changes her weekly availability or an override; each is one write.
EditSchedule(c) ==
    /\ \E ranges \in Schedules \ {schedule[c]} :
         schedule' = [schedule EXCEPT ![c] = ranges]
    /\ UNCHANGED <<storeVars, jobVars, pc, call, attempt, now>>

Tick ==
    /\ now < MaxNow
    /\ now' = now + 1
    /\ UNCHANGED <<storeVars, jobVars, pc, call, attempt, schedule>>

-------------------------------------------------------------------------------

StartRequest(r) ==
    \/ \E et \in EventTypeRows, location \in Locations, start \in StartTimes :
         Create(r, et, location, start)
    \/ \E b \in Requests : Exists(b) /\
         \/ \E start \in StartTimes : RescheduleByClient(r, b, start)
         \/ CancelByClient(r, b)
         \/ \E coach \in Coaches \cup {"ADMIN"} : CancelByCoach(r, b, coach)

RequestStep(r) ==
    \/ ReadAvailability(r)
    \/ CheckOverlap(r)
    \/ CommitCreate(r)
    \/ CommitReschedule(r)
    \/ SerializationFailure(r)
    \/ DeleteEvent(r)
    \/ DeleteEventThrows(r)
    \/ ClearLink(r)
    \/ MarkCancelled(r)
    \/ EnqueueNotification(r)

BookingsNext ==
    \/ \E r \in Requests : StartRequest(r) \/ RequestStep(r) \/ RequestDies(r)
    \/ \E c \in Coaches : EditSchedule(c)
    \/ Tick

===============================================================================
