----------------------------- MODULE BookingSystem -----------------------------
(***************************************************************************)
(* The booking backend: concurrent requests (Bookings) and job workers     *)
(* (NotificationJobs) over one store (BookingStore), and what they         *)
(* guarantee together.                                                     *)
(***************************************************************************)
EXTENDS Bookings

vars == <<storeVars, jobVars, bookingVars>>

Init == StoreInit /\ JobsInit /\ BookingsInit

Next ==
    \/ BookingsNext
    \/ JobsNext /\ UNCHANGED bookingVars

Spec == Init /\ [][Next]_vars

\* A started request is carried on by Node's event loop; a queued job is taken
\* by some live instance; pg-boss' supervisor expires abandoned jobs.  Nobody
\* is obliged to send a request, edit a schedule or fail.
Fairness ==
    /\ \A r \in Requests : WF_vars(RequestStep(r))
    /\ \A w \in Workers : WF_vars(WorkerStep(w) /\ UNCHANGED bookingVars)
    /\ \A w \in Workers, j \in Requests : WF_vars(TakeJob(w, j) /\ UNCHANGED bookingVars)
    /\ \A j \in Requests : WF_vars(ExpireJob(j) /\ UNCHANGED bookingVars)

FairSpec == Spec /\ Fairness

-------------------------------------------------------------------------------
(* Safety *)

\* Every variable keeps its type: the shape of rows, jobs and events, and no job
\* is retried more often than retryLimit.
TypeOK == StoreTypeOK /\ JobsTypeOK /\ BookingsTypeOK

\* No two CONFIRMED bookings of a coach overlap, whatever creates, reschedules
\* and cancellations race (README "Booking race safety").
NoDoubleBooking ==
    \A a, b \in Requests :
        a # b /\ Confirmed(a) /\ Confirmed(b) => ~ SameSlot(bookings[a], bookings[b])

\* The reservation a row of the Booking table stands for.
Reservation(row) ==
    CASE row.status = "ABSENT" -> [state |-> "free"]
      [] row.status = "CANCELLED" -> [state |-> "released"]
      [] OTHER -> [coachId |-> row.coachId, startAt |-> row.startAt, endAt |-> row.endAt]

reserved == [b \in Requests |-> Reservation(bookings[b])]

Calendar == INSTANCE ReservationCalendar WITH Ids <- Requests

\* Seen through its CONFIRMED rows the backend is a reservation calendar: each
\* step reserves, moves or releases at most one slot, moving keeps coach and
\* length even on a stale row, and a cancelled booking never comes back.
ImplementsCalendar == Calendar!Spec

\* The Google event a CONFIRMED booking links to exists, except while the
\* request that deleted it is about to unlink or cancel the booking (the order
\* of deleteEvent and the row update in rescheduleByClient, applyCancellation).
LinkedEventIsLive ==
    \A b \in Requests :
        LET e == bookings[b].googleEventId
        IN Confirmed(b) /\ e # NoEvent =>
             \/ events[e].state = "live"
             \/ \E r \in Requests : /\ pc[r] \in {"clearLink", "markCancelled"}
                                    /\ claim[r].id = b
                                    /\ call[r].googleEventId = e

\* A job counts as completed only after both mails went out, although an earlier
\* attempt may have sent one of them and failed on the other (process()).
CompletedMeansDelivered ==
    \A j \in Requests : jobs[j].state = "completed" =>
        \A p \in Recipients : mails[j][p] # NoLetter

\* Some request set out to reschedule booking b.
Moved(b) == \E r \in Requests : call[r].op = "rescheduleByClient" /\ claim[r].id = b

\* While Google answers and no worker is killed, however often the mails of a
\* job fail, a booking that is not rescheduled has at most one Meet room
\* (ensureMeetLink is idempotent under retries).
OneMeetRoom ==
    \A b \in Requests :
        LET rooms == {e \in EventIds : events[e].state = "live" /\ jobs[e[1]].bookingId = b}
        IN Moved(b) \/ \A e, f \in rooms : e = f

\* However workers are killed, jobs expire and Google fails half-way: once a
\* booking that is not rescheduled is linked to its event, no later attempt of any
\* of its jobs creates another one, though an attempt creates its event before
\* it links it (ensureMeetLink's early return, on the row as process() reads it).
LinkedRoomIsLast ==
    [][\A b \in Requests, e \in EventIds :
           /\ Exists(b) /\ bookings[b].googleEventId # NoEvent
           /\ ~ Moved(b)
           /\ jobs[e[1]] # NoJob /\ jobs[e[1]].bookingId = b
           /\ events'[e].state = "live"
           => events[e].state = "live"]_vars

JobsOf(b) == {j \in Requests : jobs[j] # NoJob /\ jobs[j].bookingId = b}

\* Everything that was begun for booking b ended well.
Settled(b) ==
    /\ \A r \in Requests : pc[r] \in Running \cup {"failed"} => claim[r].id # b
    /\ \A j \in JobsOf(b) : jobs[j].state = "completed"

\* However moves, cancellations and jobs with their retries overlap, once all is
\* done both parties of a CONFIRMED booking have been sent a mail with its present
\* times and Meet link: a change is written before its job is sent, and the job
\* reads the row afresh (process, ensureMeetLink).
PresentStateIsMailed ==
    \A b \in Requests : Confirmed(b) /\ Settled(b) =>
        \A p \in Recipients : \E j \in JobsOf(b) :
            /\ jobs[j].kind # "cancelled"
            /\ mails[j][p] = Letter(jobs[j].kind, bookings[b])

\* Two cancellations may both find the booking CONFIRMED, and the second one
\* overwrites who cancelled: once all is done both parties have been told of the
\* canceller that the row names (applyCancellation, buildCancelled).
CancellerIsMailed ==
    \A b \in Requests : bookings[b].status = "CANCELLED" /\ Settled(b) =>
        \A p \in Recipients : \E j \in JobsOf(b) :
            /\ jobs[j].kind = "cancelled"
            /\ mails[j][p].cancelledBy = bookings[b].cancelledBy

-------------------------------------------------------------------------------
(* Why no double booking happens: the inductive invariant *)

Reserving == {"availability", "overlap", "commit"}

\* A create writes a row of its own; a reschedule writes a row that exists and
\* whose coach and length are those of the slot it claims.
ClaimMatchesRow(r) ==
    LET row == bookings[claim[r].id]
    IN \/ /\ call[r].op = "create"
          /\ claim[r].id = r
          /\ row = Absent
       \/ /\ call[r].op = "rescheduleByClient"
          /\ row # Absent
          /\ row.coachId = claim[r].coachId
          /\ row.endAt - row.startAt = claim[r].endAt - claim[r].startAt

\* What is known of a request at each of its steps.
RequestInvOf(r) ==
    /\ pc[r] = "idle" => bookings[r] = Absent
    /\ pc[r] \in Running => claim[r] \in Claims /\ claim[r].startAt < claim[r].endAt
    /\ tx[r] # "none" <=> pc[r] = "commit"
    /\ pc[r] \in Reserving => ClaimMatchesRow(r)
    /\ pc[r] \in Running \ Reserving => Exists(claim[r].id)
    /\ pc[r] = "deleteEvent" => call[r].googleEventId # NoEvent

RequestInv == \A r \in Requests : RequestInvOf(r)

\* No booking is empty or ends before it starts.
RowInv == \A b \in Requests : Exists(b) => bookings[b].startAt < bookings[b].endAt

\* Jobs are about bookings that exist, and workers hold jobs that exist.
JobInv ==
    /\ \A j \in Requests : jobs[j] # NoJob => Exists(jobs[j].bookingId)
    /\ \A w \in Workers : worker[w] # IdleWorker => jobs[worker[w].job] # NoJob

\* The slot of a transaction that Postgres would let commit is still free: what
\* its snapshot showed holds until it commits.
SnapshotInv == \A r \in Requests : tx[r] = "open" => ~ Taken(claim[r])

IndInv == TypeOK /\ RowInv /\ RequestInv /\ JobInv /\ SnapshotInv /\ NoDoubleBooking

-------------------------------------------------------------------------------
(* Why the mails tell the truth *)

Busy(w) == worker[w] # IdleWorker

\* A job is worked on by the one worker it was handed to, and only jobs that
\* announce an appointment create an event for it.
HandlerInv ==
    /\ \A w \in Workers : Busy(w) =>
         /\ jobs[worker[w].job].state = "active"
         /\ worker[w].pc # "send" => jobs[worker[w].job].kind # "cancelled"
    /\ \A v, w \in Workers : Busy(v) /\ Busy(w) /\ worker[v].job = worker[w].job => v = w

\* A request sends one job, about the booking it claims, and is at the steps of
\* its own operation.
SentInvOf(r) ==
    /\ pc[r] # "ok" => jobs[r] = NoJob
    /\ jobs[r] # NoJob => /\ jobs[r].bookingId = claim[r].id
                          /\ jobs[r].kind = KindOf(call[r].op)
    /\ call[r].op = "create" => claim[r].id = r
    /\ pc[r] = "clearLink" => call[r].op = "rescheduleByClient"
    /\ pc[r] = "markCancelled" => call[r].op \in {"cancelByClient", "cancelByCoach"}
    /\ pc[r] = "deleteEvent" => call[r].op \in AllOperations \ {"create"}

SentInv == \A r \in Requests : SentInvOf(r)

\* Who cancelled is written with the cancellation.
CancelledInv ==
    \A b \in Requests : bookings[b].status = "CANCELLED" => bookings[b].cancelledBy \in Cancellers

\* A letter of this kind tells what the row says: who cancelled it, or its times
\* and link.
Tells(letter, kind, row) ==
    IF kind = "cancelled" THEN letter.cancelledBy = row.cancelledBy
    ELSE letter = Letter(kind, row)

\* What job j is about to send, or has sent for good, is true of the booking's
\* row; an attempt that has not read the row yet, or will read it again, is fine.
UpToDate(j) ==
    LET row == bookings[jobs[j].bookingId]
        kind == jobs[j].kind
    IN /\ \A w \in Workers : Busy(w) /\ worker[w].job = j /\ worker[w].pc = "send" =>
            Tells(Letter(kind, worker[w].booking), kind, row)
       /\ jobs[j].state = "completed" =>
            \A p \in Recipients : Tells(mails[j][p], kind, row)

\* Request r has changed booking b and not announced it yet, or has failed.
Owes(r, b) ==
    /\ claim[r].id = b
    /\ \/ pc[r] = "failed"
       \/ /\ pc[r] \in {"deleteEvent", "clearLink", "enqueue"} /\ bookings[b].status = "CONFIRMED"
          /\ KindOf(call[r].op) # "cancelled"
       \/ /\ pc[r] = "enqueue" /\ bookings[b].status = "CANCELLED"
          /\ KindOf(call[r].op) = "cancelled"

\* Job j announces booking b as it is now.
Announces(j, b) ==
    /\ jobs[j] # NoJob /\ jobs[j].bookingId = b
    /\ jobs[j].kind = "cancelled" <=> bookings[b].status = "CANCELLED"
    /\ UpToDate(j)

\* The present state of a booking is announced by a job, or is going to be.
AnnouncedInv ==
    \A b \in Requests : Exists(b) =>
        (\E r \in Requests : Owes(r, b)) \/ (\E j \in Requests : Announces(j, b))

MailInv == HandlerInv /\ SentInv /\ CancelledInv /\ AnnouncedInv

-------------------------------------------------------------------------------
(* Why a booking's Meet link leads to its one live event *)

\* No attempt will create or save event e any more: its job has moved on to the
\* next attempt, or past the steps that do.
Spent(e) ==
    LET job == jobs[e[1]]
    IN /\ job # NoJob
       /\ \/ e[2] < job.retryCount
          \/ /\ e[2] = job.retryCount
             /\ job.state \notin {"created", "retry"}
             /\ \A w \in Workers : Busy(w) /\ worker[w].job = e[1] => worker[w].pc = "send"

\* An event that is linked to booking b was saved by one of b's jobs.
SavedFor(e, b) == Spent(e) /\ jobs[e[1]].bookingId = b

\* The steps of a request that act on the event it remembers.
Unlinking == {"deleteEvent", "clearLink", "markCancelled"}

\* Rows, and requests that unlink, name events saved for their own booking.
NamedInv ==
    /\ \A b \in Requests : Exists(b) /\ bookings[b].googleEventId # NoEvent =>
         SavedFor(bookings[b].googleEventId, b)
    /\ \A r \in Requests : pc[r] \in Unlinking /\ call[r].googleEventId # NoEvent =>
         SavedFor(call[r].googleEventId, claim[r].id)

\* Nobody deletes an event between its creation and the update that links it.
SavingInv ==
    \A w \in Workers : At(w, "saveLink") => events[EventOf(worker[w].job)].state = "live"

LinkInv == NamedInv /\ SavingInv /\ LinkedEventIsLive

\* No worker is about to create or save an event for booking b once it has one.
LinkMissing(b) ==
    \A w \in Workers : At(w, "createEvent") \/ At(w, "saveLink") =>
        (jobs[worker[w].job].bookingId = b => bookings[b].googleEventId = NoEvent)

\* An event is only created for a booking without one, unless it is moved.
AttemptInv ==
    /\ \A r \in Requests : pc[r] = "idle" => call[r].op = "none"
    /\ \A b \in Requests : Moved(b) \/ LinkMissing(b)

\* Every live event of booking b is linked to it, or about to be.
RoomsKnown(b) ==
    \A e \in EventIds : events[e].state = "live" /\ jobs[e[1]].bookingId = b =>
        \/ bookings[b].googleEventId = e
        \/ \E w \in Workers : At(w, "saveLink") /\ EventOf(worker[w].job) = e

\* So it is with every booking that nobody moves.
RoomInv ==
    /\ \A e \in EventIds : events[e].state = "live" => jobs[e[1]] # NoJob
    /\ \A b \in Requests : Moved(b) \/ RoomsKnown(b)

-------------------------------------------------------------------------------
(* Liveness *)

\* Request r has answered with a 500: its last attempt at the transaction failed
\* too, or the deletion of the event it remembers threw.
GaveUp(r) ==
    pc[r] = "failed" /\ (attempt[r] = MaxAttempts \/ call[r].googleEventId # NoEvent)

\* When no request dies half-way, every request that was started is answered: its
\* transaction may be refused, start again and check all again, at a calendar that
\* others have changed by then, but not forever, and the client is let down only
\* when all attempts are used up (runSerializable) or deleteEvent throws.
RequestsAreAnswered ==
    \A r \in Requests :
        pc[r] \in Running ~> pc[r] \in {"ok", "rejected"} \/ GaveUp(r)

\* Every job that was sent is completed or fails for good, even when the
\* instances that take it are killed (retryLimit, expiry).
JobsFinish ==
    \A j \in Requests :
        jobs[j].state # "none" ~> jobs[j].state \in {"completed", "failed"}

\* When no request dies half-way, a CONFIRMED GOOGLE_MEET booking ends up with a
\* Meet link for good, or one of its jobs has used up its attempts: whatever
\* clears the link is followed by a job that sets it again (ensureMeetLink).
MeetLinkEventually ==
    \A b \in Requests :
        <>[](\/ ~ Confirmed(b)
             \/ bookings[b].location # "GOOGLE_MEET"
             \/ bookings[b].googleEventId # NoEvent
             \/ \E j \in Requests : jobs[j].state = "failed" /\ jobs[j].bookingId = b)

\* Every booking is announced: once its row is committed its 'confirmed' job is
\* sent, and the mails of that job go out or its attempts are used up.
BookingIsAnnounced ==
    \A b \in Requests :
        Confirmed(b) ~> \/ \A p \in Recipients : mails[b][p] # NoLetter
                        \/ jobs[b].state = "failed"

-------------------------------------------------------------------------------
(* Statements of the repository that the code does not keep: TLC finds a    *)
(* behaviour against each of them.                                          *)

\* README.md "Booking race safety": the availability check is part of the
\* serializable transaction, so the schedule allows the slot at its snapshot.
ScheduleHoldsAtSnapshot ==
    [][\A r \in Requests : pc[r] = "overlap" /\ pc'[r] = "commit" =>
           IsWithinEffectiveRange(schedule[claim[r].coachId], claim[r])]_vars

\* assertConfirmed (bookingNotActive): a booking that is no longer CONFIRMED
\* cannot be rescheduled.
CancelledIsNotMoved ==
    [][\A b \in Requests : bookings[b].status = "CANCELLED" =>
           bookings'[b].startAt = bookings[b].startAt]_vars

Quiet(b) ==
    /\ \A r \in Requests : pc[r] \in Running => claim[r].id # b
    /\ \A j \in Requests : jobs[j].state \in {"none", "completed", "failed"}

\* rescheduleByClient: the replacement event is created by the notification job,
\* so once everything is done the linked event is at the booking's time.
LinkedEventAtBookedTime ==
    \A b \in Requests :
        LET e == bookings[b].googleEventId
        IN Quiet(b) /\ Confirmed(b) /\ e # NoEvent =>
             events[e].startAt = bookings[b].startAt

===============================================================================
