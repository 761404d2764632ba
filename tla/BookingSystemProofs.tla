-------------------------- MODULE BookingSystemProofs --------------------------
(***************************************************************************)
(* Proofs about BookingSystem for every set of requests, coaches, workers, *)
(* event types and schedules and every retry limit.                        *)
(***************************************************************************)
EXTENDS BookingSystem, TLAPS

USE NoEventAssumption, RetryLimitAssumption, BookingsAssumptions, WorkersAssumption

-------------------------------------------------------------------------------
(* Types *)

\* The empty tables and idle processes of the start are well typed.
LEMMA InitTypeOK == Init => TypeOK
  BY DEF Init, StoreInit, JobsInit, BookingsInit, TypeOK, StoreTypeOK, JobsTypeOK,
         BookingsTypeOK, Events, IdleWorker, NoCall, Calls, Recipients, Locations

-------------------------------------------------------------------------------
(* What the actions that start a request have in common *)

\* Request r goes from idle to label with locals k and slot c; nothing else moves.
Begins(r, label, k, c) ==
    /\ pc[r] = "idle"
    /\ pc' = [pc EXCEPT ![r] = label]
    /\ call' = [call EXCEPT ![r] = k]
    /\ claim' = [claim EXCEPT ![r] = c]
    /\ UNCHANGED <<bookings, tx, jobs, events, worker, mails, attempt, schedule, now>>
    /\ k \in Calls /\ c \in Claims /\ c.startAt < c.endAt
    /\ \/ label = "availability" /\ k.op = "create" /\ c.id = r
       \/ /\ label = "availability" /\ k.op = "rescheduleByClient"
          /\ bookings[c.id] # Absent
          /\ bookings[c.id].coachId = c.coachId
          /\ bookings[c.id].endAt - bookings[c.id].startAt = c.endAt - c.startAt
       \/ /\ label = "deleteEvent" /\ bookings[c.id] # Absent /\ k.googleEventId # NoEvent
          /\ k.op \in {"cancelByClient", "cancelByCoach"}
       \/ /\ label = "markCancelled" /\ bookings[c.id] # Absent
          /\ k.op \in {"cancelByClient", "cancelByCoach"}
    /\ k.op # "create" => k.googleEventId = bookings[c.id].googleEventId

\* A request is rejected at once or begins, with a slot that fits its row.
LEMMA StartCases ==
  ASSUME TypeOK, RowInv, NEW r \in Requests, StartRequest(r)
  PROVE  Reject(r) \/ \E label \in Running, k \in Calls, c \in Claims : Begins(r, label, k, c)
<1> DEFINE Goal == Reject(r) \/ \E label \in Running, k \in Calls, c \in Claims :
                                   Begins(r, label, k, c)
<1> USE DEF TypeOK, StoreTypeOK, BookingsTypeOK
<1>1. ASSUME NEW et \in EventTypeRows, NEW location \in Locations, NEW start \in StartTimes,
             Create(r, et, location, start), ~ Reject(r)
      PROVE  Goal
  <2> DEFINE k == [op |-> "create", location |-> location, googleEventId |-> NoEvent]
             c == [id |-> r, coachId |-> et.coachId, startAt |-> start,
                   endAt |-> start + et.durationMinutes]
  <2>1. et.coachId \in Coaches /\ et.durationMinutes \in Nat \ {0} /\ start \in Nat
    OBVIOUS
  <2>2. k \in Calls /\ c \in Claims /\ c.startAt < c.endAt
    BY <2>1 DEF Calls, AllOperations, Claims
  <2>3. Begins(r, "availability", k, c)
    BY <1>1, <2>2 DEF Create, Goto, Begins, jobVars
  <2>4. QED
    BY <2>2, <2>3 DEF Running
<1>2. ASSUME NEW b \in Requests, Exists(b), NEW start \in StartTimes,
             RescheduleByClient(r, b, start), ~ Reject(r)
      PROVE  Goal
  <2> DEFINE duration == bookings[b].endAt - bookings[b].startAt
             k == [op |-> "rescheduleByClient", location |-> bookings[b].location,
                   googleEventId |-> bookings[b].googleEventId]
             c == [id |-> b, coachId |-> bookings[b].coachId, startAt |-> start,
                   endAt |-> start + duration]
  <2>1. bookings[b] \in Rows /\ bookings[b].startAt < bookings[b].endAt /\ start \in Nat
    BY <1>2 DEF Exists, RowInv
  <2>2. k \in Calls /\ c \in Claims /\ c.startAt < c.endAt /\ c.endAt - c.startAt = duration
    BY <2>1 DEF Calls, AllOperations, Claims, Rows
  <2>3. Begins(r, "availability", k, c)
    BY <1>2, <2>2 DEF RescheduleByClient, Remember, Goto, Begins, jobVars, Exists
  <2>4. QED
    BY <2>2, <2>3 DEF Running
<1>3. ASSUME NEW b \in Requests, Exists(b), NEW op \in {"cancelByClient", "cancelByCoach"},
             StartCancellation(r, op, b), pc[r] = "idle"
      PROVE  Goal
  <2> DEFINE label == IF bookings[b].googleEventId # NoEvent THEN "deleteEvent"
                      ELSE "markCancelled"
             k == [op |-> op, location |-> bookings[b].location,
                   googleEventId |-> bookings[b].googleEventId]
             c == [id |-> b, coachId |-> bookings[b].coachId,
                   startAt |-> bookings[b].startAt, endAt |-> bookings[b].endAt]
  <2>1. bookings[b] \in Rows /\ bookings[b].startAt < bookings[b].endAt
    BY <1>3 DEF Exists, RowInv
  <2>2. k \in Calls /\ c \in Claims /\ c.startAt < c.endAt /\ label \in Running
    BY <2>1 DEF Calls, AllOperations, Claims, Rows, Running
  <2>3. Begins(r, label, k, c)
    BY <1>3, <2>2 DEF StartCancellation, Remember, Goto, Begins, jobVars, Exists
  <2>4. QED
    BY <2>2, <2>3
<1>4. QED
  BY <1>1, <1>2, <1>3 DEF StartRequest, CancelByClient, CancelByCoach

-------------------------------------------------------------------------------
(* Facts about rows, calls and jobs *)

\* The event a handler remembers may be any event id, or none.
LEMMA CallUpdate ==
  ASSUME NEW k \in Calls, NEW e \in EventIds \cup {NoEvent}
  PROVE  [k EXCEPT !.googleEventId = e] \in Calls
  BY DEF Calls

\* deleteEvent leaves a well-typed calendar event.
LEMMA EventUpdate ==
  ASSUME NEW ev \in Events
  PROVE  [ev EXCEPT !.state = "deleted"] \in Events
  BY DEF Events

\* What the code writes into a row (applyCancellation's status, a link, the times
\* of a reschedule) leaves a row, and a row is never Absent.
LEMMA RowUpdate ==
  ASSUME NEW row \in Rows
  PROVE  /\ \A op : /\ Cancelled(row, op) \in Rows
                  /\ Cancelled(row, op).coachId = row.coachId
                  /\ Cancelled(row, op).startAt = row.startAt
                  /\ Cancelled(row, op).endAt = row.endAt
                  /\ Cancelled(row, op).status = "CANCELLED"
         /\ \A e \in EventIds \cup {NoEvent} : [row EXCEPT !.googleEventId = e] \in Rows
         /\ \A c \in Claims : Rescheduled(row, c) \in Rows
         /\ row.googleEventId \in EventIds \cup {NoEvent}
         /\ row # Absent
<1>1. ASSUME NEW op
      PROVE  /\ Cancelled(row, op) \in Rows
             /\ Cancelled(row, op).coachId = row.coachId
             /\ Cancelled(row, op).startAt = row.startAt
             /\ Cancelled(row, op).endAt = row.endAt
             /\ Cancelled(row, op).status = "CANCELLED"
  BY DEF Rows, Cancelled, Cancellers
<1>2. ASSUME NEW e \in EventIds \cup {NoEvent}
      PROVE  [row EXCEPT !.googleEventId = e] \in Rows
  BY DEF Rows
<1>3. ASSUME NEW c \in Claims
      PROVE  Rescheduled(row, c) \in Rows
  BY DEF Rows, Claims, Rescheduled
<1>4. row.googleEventId \in EventIds \cup {NoEvent} /\ row.status # "ABSENT"
  BY DEF Rows
<1>5. row # Absent
  BY <1>4 DEF Absent
<1>6. QED
  BY <1>1, <1>2, <1>3, <1>4, <1>5

\* Setting or clearing the Meet link keeps coach, times and status of a row.
LEMMA LinkUpdate ==
  ASSUME NEW row \in Rows, NEW e \in EventIds \cup {NoEvent}
  PROVE  LET new == [row EXCEPT !.googleEventId = e]
         IN /\ new \in Rows /\ new # Absent /\ new.coachId = row.coachId
            /\ new.startAt = row.startAt /\ new.endAt = row.endAt
            /\ new.status = row.status
<1> DEFINE new == [row EXCEPT !.googleEventId = e]
<1>1. new \in Rows
  BY RowUpdate
<1>2. /\ new.coachId = row.coachId /\ new.startAt = row.startAt
      /\ new.endAt = row.endAt /\ new.status = row.status
  BY DEF Rows
<1>3. QED
  BY <1>1, <1>2, RowUpdate

\* The worker that takes a step of its handler is busy.
LEMMA StepIsBusy ==
  ASSUME NEW w \in Workers, WorkerStep(w) \/ KillWorker(w)
  PROVE  Busy(w)
<1>1. CASE KillWorker(w)
  BY <1>1 DEF KillWorker, Busy
<1>2. CASE WorkerStep(w)
  <2>1. worker[w].pc \in {"createEvent", "saveLink", "send"}
    <3>1. CreateMeetEvent(w) \/ CreateMeetEventFails(w) => At(w, "createEvent")
      BY DEF CreateMeetEvent, CreateMeetEventFails
    <3>2. SaveMeetLink(w) => At(w, "saveLink")
      BY DEF SaveMeetLink
    <3>3. SendMails(w) \/ SendMailsFails(w) => At(w, "send")
      BY DEF SendMails, SendMailsFails
    <3>4. QED
      BY <1>2, <3>1, <3>2, <3>3 DEF WorkerStep, At
  <2>2. IdleWorker.pc = "idle"
    BY DEF IdleWorker
  <2>3. QED
    BY <2>1, <2>2 DEF Busy
<1>3. QED
  BY <1>1, <1>2

\* pg-boss' transitions of a job keep it a job about the same booking, retried at
\* most RetryLimit times.
LEMMA JobUpdate ==
  ASSUME NEW job \in Jobs
  PROVE  /\ FailedAttempt(job) \in Jobs
         /\ \A st \in {"active", "completed"} : [job EXCEPT !.state = st] \in Jobs
         /\ FailedAttempt(job).bookingId = job.bookingId
         /\ job.bookingId \in Requests
         /\ job.retryCount \in 0 .. RetryLimit
         /\ job # NoJob
<1>1. job.bookingId \in Requests /\ job.retryCount \in 0 .. RetryLimit /\ job.state # "none"
  BY DEF Jobs
<1>2. ASSUME NEW st \in {"active", "completed", "failed"}
      PROVE  [job EXCEPT !.state = st] \in Jobs
  BY DEF Jobs
<1>3. CASE job.retryCount < RetryLimit
  <2>1. job.retryCount + 1 \in 0 .. RetryLimit
    BY <1>1, <1>3
  <2>2. [job EXCEPT !.state = "retry", !.retryCount = @ + 1] \in Jobs
    BY <2>1 DEF Jobs
  <2>3. [job EXCEPT !.state = "retry", !.retryCount = @ + 1].bookingId = job.bookingId
    BY DEF Jobs
  <2>4. QED
    BY <1>1, <1>2, <1>3, <2>2, <2>3 DEF FailedAttempt, NoJob
<1>4. CASE ~ (job.retryCount < RetryLimit)
  <2>1. [job EXCEPT !.state = "failed"].bookingId = job.bookingId
    BY DEF Jobs
  <2>2. QED
    BY <1>1, <1>2, <1>4, <2>1 DEF FailedAttempt, NoJob
<1>5. QED
  BY <1>3, <1>4

\* After its transaction, and when cancelling, a request writes a row that exists.
LEMMA WrittenRow ==
  ASSUME TypeOK, RequestInv, NEW r \in Requests, pc[r] \in Running \ Reserving
  PROVE  claim[r] \in Claims /\ claim[r].id \in Requests /\ bookings[claim[r].id] \in Rows
<1>1. claim[r] \in Claims /\ bookings[claim[r].id] # Absent
  BY DEF RequestInv, RequestInvOf, Exists
<1>2. claim[r].id \in Requests
  BY <1>1 DEF Claims
<1>3. QED
  BY <1>1, <1>2 DEF TypeOK, StoreTypeOK

-------------------------------------------------------------------------------
(* Types are kept *)

\* Every step of a request keeps the type invariant.
LEMMA RequestTypeOK ==
  ASSUME TypeOK, RowInv, RequestInv, NEW r \in Requests, RequestStep(r) \/ RequestDies(r)
  PROVE  TypeOK'
<1> USE DEF TypeOK, StoreTypeOK, JobsTypeOK, BookingsTypeOK, storeVars, jobVars, Goto
<1>0. pc[r] \in Running => claim[r] \in Claims
  BY DEF RequestInv, RequestInvOf
<1>1. CASE ReadAvailability(r)
  BY <1>1 DEF ReadAvailability, Running, Answered
<1>2. CASE CheckOverlap(r)
  BY <1>2 DEF CheckOverlap, Running, Answered
<1>3. CASE CommitCreate(r)
  <2> DEFINE row == [coachId |-> claim[r].coachId, startAt |-> claim[r].startAt,
                     endAt |-> claim[r].endAt, location |-> call[r].location,
                     status |-> "CONFIRMED", cancelledBy |-> "NOBODY", googleEventId |-> NoEvent]
  <2>1. claim[r] \in Claims
    BY <1>0, <1>3 DEF CommitCreate, Running
  <2>2. row \in Rows
    BY <2>1 DEF Rows, Claims, Calls, Cancellers
  <2>3. QED
    BY <1>3, <2>2 DEF CommitCreate, CommitRow, Running
<1>4. CASE CommitReschedule(r)
  <2> DEFINE row == bookings[claim[r].id]
  <2>1. claim[r] \in Claims /\ row \in Rows
    BY <1>0, <1>4 DEF CommitReschedule, Running, Reserving, RequestInv, RequestInvOf, ClaimMatchesRow, Claims
  <2>2. Rescheduled(row, claim[r]) \in Rows
    BY <2>1, RowUpdate
  <2>3. [call[r] EXCEPT !.googleEventId = row.googleEventId] \in Calls
    BY <2>1, RowUpdate, CallUpdate
  <2>4. QED
    BY <1>4, <2>2, <2>3 DEF CommitReschedule, CommitRow, Running
<1>5. CASE SerializationFailure(r)
  <2>1. CASE attempt[r] < MaxAttempts
    <3>1. attempt[r] + 1 \in 1 .. MaxAttempts
      BY <2>1
    <3>2. attempt' \in [Requests -> 1 .. MaxAttempts]
      BY <1>5, <2>1, <3>1 DEF SerializationFailure
    <3>3. QED
      BY <1>5, <2>1, <3>2 DEF SerializationFailure, Running
  <2>2. CASE ~ (attempt[r] < MaxAttempts)
    BY <1>5, <2>2 DEF SerializationFailure, Answered
  <2>3. QED
    BY <2>1, <2>2
<1>6. CASE DeleteEvent(r)
  <2>1. call[r].googleEventId \in EventIds
    <3>1. pc[r] = "deleteEvent"
      BY <1>6 DEF DeleteEvent
    <3>2. call[r].googleEventId # NoEvent /\ call[r] \in Calls
      BY <3>1 DEF RequestInv, RequestInvOf
    <3>3. QED
      BY <3>2 DEF Calls
  <2>2. [events[call[r].googleEventId] EXCEPT !.state = "deleted"] \in Events
    BY <2>1, EventUpdate
  <2>3. AfterDelete(call[r].op) \in Running
    BY DEF AfterDelete, Running
  <2>4. events' \in [EventIds -> Events]
    BY <1>6, <2>1, <2>2 DEF DeleteEvent
  <2>5. pc' \in [Requests -> Running \cup Answered \cup {"idle"}]
    BY <1>6, <2>3 DEF DeleteEvent
  <2>6. QED
    BY <1>6, <2>4, <2>5 DEF DeleteEvent
<1>7. CASE ClearLink(r)
  <2>1. claim[r] \in Claims /\ bookings[claim[r].id] \in Rows
    BY <1>7, WrittenRow DEF ClearLink, Running, Reserving
  <2>2. [bookings[claim[r].id] EXCEPT !.googleEventId = NoEvent] \in Rows
    BY <2>1, RowUpdate
  <2>3. QED
    BY <1>7, <2>2 DEF ClearLink, UpdateRow, Running
<1>8. CASE MarkCancelled(r)
  <2>1. claim[r] \in Claims /\ bookings[claim[r].id] \in Rows
    BY <1>8, WrittenRow DEF MarkCancelled, Running, Reserving
  <2>2. Cancelled(bookings[claim[r].id], call[r].op) \in Rows
    BY <2>1, RowUpdate
  <2>3. QED
    BY <1>8, <2>2 DEF MarkCancelled, UpdateRow, Running
<1>9. CASE EnqueueNotification(r)
  <2>1. claim[r].id \in Requests /\ KindOf(call[r].op) \in Kinds
    BY <1>0, <1>9 DEF EnqueueNotification, Running, Claims, KindOf, Kinds
  <2>2. [state |-> "created", bookingId |-> claim[r].id, kind |-> KindOf(call[r].op),
         retryCount |-> 0] \in Jobs
    BY <2>1 DEF Jobs
  <2>3. QED
    BY <1>9, <2>2 DEF EnqueueNotification, Enqueue, Answered
<1>10. CASE RequestDies(r)
  BY <1>10 DEF RequestDies, Answered
<1>11. CASE DeleteEventThrows(r)
  BY <1>11 DEF DeleteEventThrows, Answered, storeVars, jobVars
<1>12. QED
  BY <1>1, <1>2, <1>3, <1>4, <1>5, <1>6, <1>7, <1>8, <1>9, <1>10, <1>11 DEF RequestStep

\* Every step of a worker or of pg-boss keeps the type invariant.
LEMMA JobTypeOK ==
  ASSUME TypeOK, JobInv, JobsNext, UNCHANGED bookingVars
  PROVE  TypeOK'
<1> USE DEF TypeOK, StoreTypeOK, JobsTypeOK, BookingsTypeOK, bookingVars, At
<1>1. ASSUME NEW j \in Requests, jobs[j] \in Jobs
      PROVE  FailedAttempt(jobs[j]) \in Jobs /\ EventOf(j) \in EventIds
  BY <1>1, JobUpdate DEF EventOf, EventIds
<1>2. ASSUME NEW w \in Workers, worker[w] # IdleWorker
      PROVE  worker[w] \in BusyWorkers /\ jobs[worker[w].job] \in Jobs
  BY <1>2 DEF JobInv, BusyWorkers
<1>3. ASSUME NEW w \in Workers, worker[w].pc # "idle"
      PROVE  worker[w] # IdleWorker
  BY <1>3 DEF IdleWorker
<1>4. ASSUME NEW w \in Workers, worker[w] # IdleWorker, NEW sent \in SUBSET Recipients,
             Deliver(w, sent)
      PROVE  mails' \in [Requests -> [Recipients -> Letters \cup {NoLetter}]]
  <2> DEFINE j == worker[w].job
             letter == Letter(jobs[j].kind, worker[w].booking)
  <2>1. j \in Requests /\ worker[w].booking \in Rows
    BY <1>2, <1>4 DEF BusyWorkers
  <2>2. letter \in Letters
    BY <2>1 DEF Letter, Letters, Rows, Cancellers
  <2>3. mails' = [mails EXCEPT ![j] = [p \in Recipients |->
                                        IF p \in sent THEN letter ELSE mails[j][p]]]
    BY <1>4 DEF Deliver
  <2>4. QED
    BY <2>1, <2>2, <2>3
<1>5. ASSUME NEW w \in Workers, NEW j \in Requests, TakeJob(w, j) PROVE TypeOK'
  <2>1. jobs[j] \in Jobs /\ bookings[jobs[j].bookingId] \in Rows
    BY <1>5 DEF TakeJob, JobInv, NoJob, Exists, Jobs
  <2>2. [jobs[j] EXCEPT !.state = "active"] \in Jobs
    BY <2>1 DEF Jobs
  <2>3. QED
    BY <1>5, <2>1, <2>2 DEF TakeJob, BusyWorkers
<1>6. ASSUME NEW w \in Workers, WorkerStep(w) PROVE TypeOK'
  <2> DEFINE j == worker[w].job
  <2>1. worker[w] \in BusyWorkers /\ j \in Requests /\ jobs[j] \in Jobs
    BY <1>2, <1>3, <1>6 DEF WorkerStep, CreateMeetEvent, CreateMeetEventFails, SaveMeetLink,
                            SendMails, SendMailsFails, BusyWorkers
  <2>2. EventOf(j) \in EventIds /\ FailedAttempt(jobs[j]) \in Jobs
    BY <1>1, <2>1
  <2>3. [state |-> "live", startAt |-> worker[w].booking.startAt,
         endAt |-> worker[w].booking.endAt] \in Events
    BY <2>1 DEF Events, BusyWorkers, Rows
  <2>4. CASE CreateMeetEvent(w)
    BY <2>1, <2>2, <2>3, <2>4 DEF CreateMeetEvent, InsertEvent, BusyWorkers
  <2>5. CASE CreateMeetEventFails(w)
    BY <2>1, <2>2, <2>3, <2>5 DEF CreateMeetEventFails, InsertEvent, FailJob
  <2>6. CASE SaveMeetLink(w)
    <3> DEFINE row == [bookings[jobs[j].bookingId] EXCEPT !.googleEventId = EventOf(j)]
    <3>1. jobs[j].bookingId \in Requests /\ bookings[jobs[j].bookingId] \in Rows
      BY <2>1 DEF JobInv, Exists, Jobs, NoJob
    <3>2. row \in Rows
      BY <2>2, <3>1 DEF Rows
    <3>3. [worker[w] EXCEPT !.pc = "send", !.booking = row] \in BusyWorkers
      BY <2>1, <3>2 DEF BusyWorkers
    <3>4. QED
      BY <2>6, <3>1, <3>2, <3>3 DEF SaveMeetLink, UpdateRow
  <2>7. CASE SendMails(w)
    <3>1. [jobs[j] EXCEPT !.state = "completed"] \in Jobs
      BY <2>1 DEF Jobs
    <3>2. mails' \in [Requests -> [Recipients -> Letters \cup {NoLetter}]]
      BY <1>3, <1>4, <2>7 DEF SendMails
    <3>3. QED
      BY <2>1, <2>7, <3>1, <3>2 DEF SendMails, CompleteJob
  <2>8. CASE SendMailsFails(w)
    <3>1. mails' \in [Requests -> [Recipients -> Letters \cup {NoLetter}]]
      BY <1>3, <1>4, <2>8 DEF SendMailsFails
    <3>2. QED
      BY <2>1, <2>2, <2>8, <3>1 DEF SendMailsFails, FailJob
  <2>9. QED
    BY <1>6, <2>4, <2>5, <2>6, <2>7, <2>8 DEF WorkerStep
<1>7. ASSUME NEW w \in Workers, KillWorker(w) PROVE TypeOK'
  <2>1. mails' \in [Requests -> [Recipients -> Letters \cup {NoLetter}]]
    BY <1>4, <1>7 DEF KillWorker
  <2>2. QED
    BY <1>7, <2>1 DEF KillWorker
<1>8. ASSUME NEW j \in Requests, ExpireJob(j) PROVE TypeOK'
  <2>1. jobs[j] \in Jobs
    BY <1>8 DEF ExpireJob, NoJob
  <2>2. QED
    BY <1>1, <1>8, <2>1 DEF ExpireJob, FailJob
<1>9. QED
  BY <1>5, <1>6, <1>7, <1>8 DEF JobsNext

-------------------------------------------------------------------------------
(* What a step does to the rows and to the requests that do not take it *)

\* Rows stay, with their coach and length, and are well-formed.
RowsPersist ==
    \A b \in Requests : bookings[b] # Absent =>
        /\ bookings'[b] # Absent
        /\ bookings'[b].coachId = bookings[b].coachId
        /\ bookings'[b].endAt - bookings'[b].startAt = bookings[b].endAt - bookings[b].startAt

\* The only row a step of request r may add is its own.
AddsOnly(r) == \A b \in Requests : b # r /\ bookings[b] = Absent => bookings'[b] = Absent

\* A step of request r leaves the other requests where they are.
Others(r) ==
    \A s \in Requests \ {r} :
        /\ pc'[s] = pc[s] /\ claim'[s] = claim[s] /\ call'[s] = call[s]
        /\ tx'[s] = "none" <=> tx[s] = "none"

\* An autocommitted update keeps rows and transactions when the new row has the
\* coach and the times of the old one.
LEMMA UpdateEffect ==
  ASSUME TypeOK, RowInv, NEW b \in Requests, bookings[b] \in Rows, NEW row \in Rows,
         UpdateRow(b, row), row.coachId = bookings[b].coachId,
         row.startAt = bookings[b].startAt, row.endAt = bookings[b].endAt
  PROVE  /\ RowsPersist /\ RowInv'
         /\ \A a \in Requests : bookings[a] = Absent => bookings'[a] = Absent
         /\ \A s \in Requests : tx'[s] = "none" <=> tx[s] = "none"
<1> USE DEF TypeOK, StoreTypeOK
<1>1. bookings' = [bookings EXCEPT ![b] = row] /\ row # Absent /\ bookings[b] # Absent
  BY RowUpdate DEF UpdateRow
<1>2. RowsPersist
  BY <1>1 DEF RowsPersist
<1>3. RowInv'
  BY <1>1 DEF RowInv, Exists
<1>4. \A s \in Requests : tx'[s] = "none" <=> tx[s] = "none"
  BY DEF UpdateRow
<1>5. QED
  BY <1>1, <1>2, <1>3, <1>4

\* The row a transaction commits has the coach and the times of its claim.
LEMMA CommitEffect ==
  ASSUME TypeOK, RowInv, RequestInv, NEW r \in Requests, pc[r] = "commit",
         NEW row \in Rows, CommitRow(r, row), row.coachId = claim[r].coachId,
         row.startAt = claim[r].startAt, row.endAt = claim[r].endAt
  PROVE  /\ RowsPersist /\ RowInv' /\ AddsOnly(r)
         /\ bookings' = [bookings EXCEPT ![claim[r].id] = row]
         /\ claim[r] \in Claims /\ claim[r].id \in Requests /\ row # Absent
         /\ \A s \in Requests \ {r} : tx'[s] = "none" <=> tx[s] = "none"
<1> USE DEF TypeOK, StoreTypeOK
<1>1. claim[r] \in Claims /\ claim[r].startAt < claim[r].endAt /\ ClaimMatchesRow(r)
  BY DEF RequestInv, RequestInvOf, Running, Reserving
<1>2. claim[r].id \in Requests /\ row # Absent
  BY <1>1, RowUpdate DEF Claims
<1>3. bookings' = [bookings EXCEPT ![claim[r].id] = row]
  BY DEF CommitRow
<1>4. RowsPersist
  BY <1>1, <1>2, <1>3 DEF RowsPersist, ClaimMatchesRow
<1>5. RowInv'
  BY <1>1, <1>2, <1>3 DEF RowInv, Exists
<1>6. AddsOnly(r)
  BY <1>1, <1>2, <1>3 DEF AddsOnly, ClaimMatchesRow
<1>7. \A s \in Requests \ {r} : tx'[s] = "none" <=> tx[s] = "none"
  BY DEF CommitRow
<1>8. QED
  BY <1>1, <1>2, <1>3, <1>4, <1>5, <1>6, <1>7

\* A step of request r removes no row, keeps each row's coach and length, inserts
\* at most r's own row and leaves the other requests where they are.
LEMMA RequestEffect ==
  ASSUME TypeOK, RowInv, RequestInv, NEW r \in Requests, RequestStep(r) \/ RequestDies(r)
  PROVE  RowsPersist /\ RowInv' /\ AddsOnly(r) /\ Others(r)
<1> USE DEF TypeOK, StoreTypeOK, BookingsTypeOK, storeVars, Goto
<1>0. ASSUME UNCHANGED bookings PROVE RowsPersist /\ RowInv' /\ AddsOnly(r)
  BY <1>0 DEF RowsPersist, RowInv, AddsOnly, Exists
<1>1. CASE ReadAvailability(r)
  BY <1>0, <1>1 DEF ReadAvailability, Others
<1>2. CASE CheckOverlap(r)
  BY <1>0, <1>2 DEF CheckOverlap, Others
<1>3. CASE CommitCreate(r)
  <2> DEFINE row == [coachId |-> claim[r].coachId, startAt |-> claim[r].startAt,
                     endAt |-> claim[r].endAt, location |-> call[r].location,
                     status |-> "CONFIRMED", cancelledBy |-> "NOBODY", googleEventId |-> NoEvent]
  <2>1. claim[r] \in Claims
    BY <1>3 DEF CommitCreate, Running, RequestInv, RequestInvOf
  <2>2. row \in Rows
    BY <2>1 DEF Rows, Claims, Calls, Cancellers
  <2>3. CommitRow(r, row) /\ pc[r] = "commit"
    BY <1>3 DEF CommitCreate
  <2>4. /\ RowsPersist /\ RowInv' /\ AddsOnly(r)
        /\ \A s \in Requests \ {r} : tx'[s] = "none" <=> tx[s] = "none"
    BY <2>2, <2>3, CommitEffect
  <2>5. QED
    BY <1>3, <2>4 DEF CommitCreate, Others
<1>4. CASE CommitReschedule(r)
  <2> DEFINE old == bookings[claim[r].id]
             row == Rescheduled(old, claim[r])
  <2>1. claim[r] \in Claims /\ old \in Rows /\ old.coachId = claim[r].coachId
    BY <1>4 DEF CommitReschedule, Running, Reserving, RequestInv, RequestInvOf, ClaimMatchesRow, Claims
  <2>2. /\ row \in Rows /\ row.coachId = claim[r].coachId
        /\ row.startAt = claim[r].startAt /\ row.endAt = claim[r].endAt
    BY <2>1, RowUpdate DEF Rescheduled, Rows
  <2>3. CommitRow(r, row) /\ pc[r] = "commit"
    BY <1>4 DEF CommitReschedule
  <2>4. /\ RowsPersist /\ RowInv' /\ AddsOnly(r)
        /\ \A s \in Requests \ {r} : tx'[s] = "none" <=> tx[s] = "none"
    BY <2>2, <2>3, CommitEffect
  <2>5. QED
    BY <1>4, <2>4 DEF CommitReschedule, Others
<1>5. CASE SerializationFailure(r)
  BY <1>0, <1>5 DEF SerializationFailure, Others
<1>6. CASE DeleteEvent(r)
  BY <1>0, <1>6 DEF DeleteEvent, Others
<1>7. CASE ClearLink(r)
  <2> DEFINE old == bookings[claim[r].id]
             row == [old EXCEPT !.googleEventId = NoEvent]
  <2>1. claim[r].id \in Requests /\ old \in Rows
    BY <1>7, WrittenRow DEF ClearLink, Running, Reserving
  <2>2. /\ row \in Rows /\ row.coachId = old.coachId
        /\ row.startAt = old.startAt /\ row.endAt = old.endAt
    BY <2>1, RowUpdate DEF Rows
  <2>3. UpdateRow(claim[r].id, row)
    BY <1>7 DEF ClearLink
  <2>4. /\ RowsPersist /\ RowInv' /\ AddsOnly(r)
        /\ \A s \in Requests : tx'[s] = "none" <=> tx[s] = "none"
    BY <2>1, <2>2, <2>3, UpdateEffect DEF AddsOnly
  <2>5. QED
    BY <1>7, <2>4 DEF ClearLink, Others
<1>8. CASE MarkCancelled(r)
  <2> DEFINE old == bookings[claim[r].id]
             row == Cancelled(old, call[r].op)
  <2>1. claim[r].id \in Requests /\ old \in Rows
    BY <1>8, WrittenRow DEF MarkCancelled, Running, Reserving
  <2>2. /\ row \in Rows /\ row.coachId = old.coachId
        /\ row.startAt = old.startAt /\ row.endAt = old.endAt
    BY <2>1, RowUpdate DEF Rows
  <2>3. UpdateRow(claim[r].id, row)
    BY <1>8 DEF MarkCancelled
  <2>4. /\ RowsPersist /\ RowInv' /\ AddsOnly(r)
        /\ \A s \in Requests : tx'[s] = "none" <=> tx[s] = "none"
    BY <2>1, <2>2, <2>3, UpdateEffect DEF AddsOnly
  <2>5. QED
    BY <1>8, <2>4 DEF MarkCancelled, Others
<1>9. CASE EnqueueNotification(r)
  BY <1>0, <1>9 DEF EnqueueNotification, Others
<1>10. CASE RequestDies(r)
  BY <1>0, <1>10 DEF RequestDies, Others
<1>11. CASE DeleteEventThrows(r)
  BY <1>0, <1>11 DEF DeleteEventThrows, Others, storeVars
<1>12. QED
  BY <1>1, <1>2, <1>3, <1>4, <1>5, <1>6, <1>7, <1>8, <1>9, <1>10, <1>11 DEF RequestStep

-------------------------------------------------------------------------------
(* The invariant of the requests is kept *)

\* What is known of a request survives the steps of the other requests.
LEMMA OthersInv ==
  ASSUME TypeOK, RequestInv, NEW r \in Requests, Others(r), RowsPersist, AddsOnly(r),
         NEW s \in Requests \ {r}
  PROVE  RequestInvOf(s)'
<1>1. RequestInvOf(s)
  BY DEF RequestInv
<1>2. /\ pc'[s] = pc[s] /\ claim'[s] = claim[s] /\ call'[s] = call[s]
      /\ tx'[s] = "none" <=> tx[s] = "none"
  BY DEF Others
<1>3. pc[s] = "idle" => bookings'[s] = Absent
  BY <1>1 DEF RequestInvOf, AddsOnly
<1>4. ASSUME pc[s] \in Reserving PROVE ClaimMatchesRow(s)'
  <2>1. claim[s] \in Claims /\ ClaimMatchesRow(s)
    BY <1>1, <1>4 DEF RequestInvOf, Running, Reserving
  <2>2. claim[s].id \in Requests
    BY <2>1 DEF Claims
  <2>3. CASE call[s].op = "create" /\ claim[s].id = s /\ bookings[s] = Absent
    BY <1>2, <2>3 DEF ClaimMatchesRow, AddsOnly
  <2>4. CASE call[s].op = "rescheduleByClient" /\ bookings[claim[s].id] # Absent
    BY <1>2, <2>1, <2>2, <2>4 DEF ClaimMatchesRow, RowsPersist
  <2>5. QED
    BY <2>1, <2>3, <2>4 DEF ClaimMatchesRow
<1>5. ASSUME pc[s] \in Running \ Reserving PROVE Exists(claim[s].id)'
  <2>1. claim[s].id \in Requests /\ bookings[claim[s].id] # Absent
    BY <1>1, <1>5 DEF RequestInvOf, Claims, Exists
  <2>2. QED
    BY <1>2, <2>1 DEF RowsPersist, Exists
<1>6. QED
  BY <1>1, <1>2, <1>3, <1>4, <1>5 DEF RequestInvOf

\* What is known of a request survives its own steps.
LEMMA StepInv ==
  ASSUME TypeOK, RowInv, RequestInv, NEW r \in Requests, RequestStep(r) \/ RequestDies(r)
  PROVE  RequestInvOf(r)'
<1> USE DEF TypeOK, StoreTypeOK, BookingsTypeOK, storeVars, Goto
<1>0. RequestInvOf(r)
  BY DEF RequestInv
<1>a. ASSUME pc[r] \in Reserving
      PROVE  claim[r] \in Claims /\ claim[r].startAt < claim[r].endAt /\ ClaimMatchesRow(r)
  BY <1>0, <1>a DEF RequestInvOf, Running, Reserving
<1>b. ASSUME pc'[r] \in Answered, tx'[r] = "none" PROVE RequestInvOf(r)'
  BY <1>b DEF RequestInvOf, Answered, Running, Reserving
<1>1. CASE ReadAvailability(r)
  <2>1. pc[r] = "availability" /\ tx[r] = "none" /\ tx' = tx /\ claim' = claim /\ call' = call
        /\ bookings' = bookings
    BY <1>0, <1>1 DEF ReadAvailability, RequestInvOf
  <2>2. pc'[r] \in {"overlap", "rejected"}
    BY <1>1 DEF ReadAvailability
  <2>3. ClaimMatchesRow(r)' /\ claim[r] \in Claims /\ claim[r].startAt < claim[r].endAt
    BY <1>a, <2>1 DEF Reserving, ClaimMatchesRow
  <2>4. QED
    BY <1>b, <2>1, <2>2, <2>3 DEF RequestInvOf, Running, Reserving, Answered
<1>2. CASE CheckOverlap(r)
  <2>1. pc[r] = "overlap" /\ tx[r] = "none" /\ claim' = claim /\ call' = call
        /\ bookings' = bookings
    BY <1>0, <1>2 DEF CheckOverlap, RequestInvOf
  <2>2. \/ pc'[r] = "rejected" /\ tx'[r] = "none"
        \/ pc'[r] = "commit" /\ tx'[r] = "open"
    BY <1>2, <2>1 DEF CheckOverlap
  <2>3. ClaimMatchesRow(r)' /\ claim[r] \in Claims /\ claim[r].startAt < claim[r].endAt
    BY <1>a, <2>1 DEF Reserving, ClaimMatchesRow
  <2>4. QED
    BY <1>b, <2>1, <2>2, <2>3 DEF RequestInvOf, Running, Reserving, Answered
<1>3. CASE CommitCreate(r)
  <2> DEFINE row == [coachId |-> claim[r].coachId, startAt |-> claim[r].startAt,
                     endAt |-> claim[r].endAt, location |-> call[r].location,
                     status |-> "CONFIRMED", cancelledBy |-> "NOBODY", googleEventId |-> NoEvent]
  <2>1. claim[r] \in Claims /\ claim[r].id \in Requests /\ claim[r].startAt < claim[r].endAt
    BY <1>a, <1>3 DEF CommitCreate, Reserving, Claims
  <2>2. row \in Rows
    BY <2>1 DEF Rows, Claims, Calls, Cancellers
  <2>3. bookings'[claim[r].id] = row /\ tx'[r] = "none"
    BY <1>3, <2>1 DEF CommitCreate, CommitRow
  <2>4. pc'[r] = "enqueue" /\ claim' = claim
    BY <1>3 DEF CommitCreate
  <2>5. QED
    BY <2>1, <2>2, <2>3, <2>4, RowUpdate DEF RequestInvOf, Running, Reserving, Exists
<1>4. CASE CommitReschedule(r)
  <2> DEFINE old == bookings[claim[r].id]
  <2>1. claim[r] \in Claims /\ claim[r].id \in Requests /\ claim[r].startAt < claim[r].endAt
    BY <1>a, <1>4 DEF CommitReschedule, Reserving, Claims
  <2>2. old \in Rows /\ Rescheduled(old, claim[r]) \in Rows
    BY <1>a, <1>4, <2>1, RowUpdate DEF CommitReschedule, Reserving, ClaimMatchesRow
  <2>3. bookings'[claim[r].id] = Rescheduled(old, claim[r]) /\ tx'[r] = "none"
    BY <1>4, <2>1 DEF CommitReschedule, CommitRow
  <2>4. claim' = claim /\ call'[r].googleEventId = old.googleEventId
    BY <1>4 DEF CommitReschedule, Calls
  <2>5. \/ pc'[r] = "deleteEvent" /\ old.googleEventId # NoEvent
        \/ pc'[r] = "enqueue"
    BY <1>4 DEF CommitReschedule
  <2>6. QED
    BY <2>1, <2>2, <2>3, <2>4, <2>5, RowUpdate DEF RequestInvOf, Running, Reserving, Exists
<1>5. CASE SerializationFailure(r)
  <2>1. pc[r] = "commit" /\ tx'[r] = "none" /\ claim' = claim /\ call' = call
        /\ bookings' = bookings
    BY <1>5 DEF SerializationFailure
  <2>2. pc'[r] \in {"availability", "failed"}
    BY <1>5 DEF SerializationFailure
  <2>3. ClaimMatchesRow(r)' /\ claim[r] \in Claims /\ claim[r].startAt < claim[r].endAt
    BY <1>a, <2>1 DEF Reserving, ClaimMatchesRow
  <2>4. QED
    BY <1>b, <2>1, <2>2, <2>3 DEF RequestInvOf, Running, Reserving, Answered
<1>6. ASSUME pc[r] \in Running \ Reserving, claim' = claim, RowsPersist,
             tx'[r] = "none" <=> tx[r] = "none",
             pc'[r] \in {"clearLink", "markCancelled", "enqueue", "ok"}
      PROVE  RequestInvOf(r)'
  <2>1. /\ claim[r] \in Claims /\ claim[r].startAt < claim[r].endAt /\ tx[r] = "none"
        /\ claim[r].id \in Requests /\ bookings[claim[r].id] # Absent
    BY <1>0, <1>6, WrittenRow DEF RequestInvOf, Running, Reserving, Exists
  <2>2. bookings'[claim[r].id] # Absent
    BY <1>6, <2>1 DEF RowsPersist
  <2>3. QED
    BY <1>6, <2>1, <2>2 DEF RequestInvOf, Running, Reserving, Exists
<1>7. RowsPersist
  BY RequestEffect
<1>8. CASE DeleteEvent(r)
  <2>1. pc'[r] \in {"clearLink", "markCancelled"}
    BY <1>8 DEF DeleteEvent, AfterDelete
  <2>2. QED
    BY <1>6, <1>7, <1>8, <2>1 DEF DeleteEvent, Running, Reserving
<1>9. CASE ClearLink(r)
  <2>1. tx'[r] = "none" <=> tx[r] = "none"
    BY <1>9 DEF ClearLink, UpdateRow
  <2>2. QED
    BY <1>6, <1>7, <1>9, <2>1 DEF ClearLink, Running, Reserving
<1>10. CASE MarkCancelled(r)
  <2>1. tx'[r] = "none" <=> tx[r] = "none"
    BY <1>10 DEF MarkCancelled, UpdateRow
  <2>2. QED
    BY <1>6, <1>7, <1>10, <2>1 DEF MarkCancelled, Running, Reserving
<1>11. CASE EnqueueNotification(r)
  BY <1>6, <1>7, <1>11 DEF EnqueueNotification, Running, Reserving
<1>12. CASE RequestDies(r)
  BY <1>b, <1>12 DEF RequestDies, Answered
<1>13. CASE DeleteEventThrows(r)
  <2>1. tx'[r] = "none" /\ pc'[r] = "failed"
    BY <1>0, <1>13 DEF DeleteEventThrows, RequestInvOf
  <2>2. QED
    BY <1>b, <2>1 DEF Answered
<1>14. QED
  BY <1>1, <1>2, <1>3, <1>4, <1>5, <1>8, <1>9, <1>10, <1>11, <1>12, <1>13 DEF RequestStep

\* Starting a request keeps the invariant and touches neither rows nor jobs.
LEMMA StartInv ==
  ASSUME TypeOK, RowInv, RequestInv, NEW r \in Requests, StartRequest(r)
  PROVE  /\ TypeOK' /\ RowInv' /\ RequestInv'
         /\ UNCHANGED <<bookings, tx, jobs, worker>>
         /\ tx[r] = "none" /\ Others(r)
<1> DEFINE Goal == /\ TypeOK' /\ RowInv' /\ RequestInv'
                   /\ UNCHANGED <<bookings, tx, jobs, worker>>
                   /\ tx[r] = "none" /\ Others(r)
<1> USE DEF TypeOK, StoreTypeOK, JobsTypeOK, BookingsTypeOK, storeVars, jobVars
<1>0. RequestInvOf(r)
  BY DEF RequestInv
<1>1. ASSUME UNCHANGED <<bookings, tx, jobs, worker>>, Others(r), RequestInvOf(r)'
      PROVE  RowInv' /\ RequestInv'
  <2>1. RowsPersist /\ AddsOnly(r) /\ RowInv'
    BY <1>1 DEF RowsPersist, AddsOnly, RowInv, Exists
  <2>2. QED
    BY <1>1, <2>1, OthersInv DEF RequestInv
<1>2. ASSUME Reject(r) PROVE Goal
  <2>1. pc[r] = "idle"
    BY DEF StartRequest, Create, RescheduleByClient, CancelByClient, CancelByCoach
  <2>2. /\ pc' = [pc EXCEPT ![r] = "rejected"]
        /\ UNCHANGED <<bookings, claim, tx, jobs, events, worker, mails, call, attempt,
                       schedule, now>>
    BY <1>2 DEF Reject, Goto
  <2>3. TypeOK' /\ Others(r)
    BY <2>2 DEF Answered, Others
  <2>4. RequestInvOf(r)' /\ tx[r] = "none"
    BY <1>0, <2>1, <2>2 DEF RequestInvOf, Running, Reserving
  <2>5. QED
    BY <1>1, <2>2, <2>3, <2>4
<1>3. ASSUME NEW label \in Running, NEW k \in Calls, NEW c \in Claims, Begins(r, label, k, c)
      PROVE  Goal
  <2>1. /\ pc[r] = "idle"
        /\ pc' = [pc EXCEPT ![r] = label]
        /\ call' = [call EXCEPT ![r] = k]
        /\ claim' = [claim EXCEPT ![r] = c]
        /\ UNCHANGED <<bookings, tx, jobs, events, worker, mails, attempt, schedule, now>>
        /\ c.startAt < c.endAt
    BY <1>3 DEF Begins
  <2>2. TypeOK' /\ Others(r)
    BY <2>1 DEF Others
  <2>3. tx[r] = "none" /\ bookings[r] = Absent
    BY <1>0, <2>1 DEF RequestInvOf
  <2>4. pc'[r] = label /\ call'[r] = k /\ claim'[r] = c /\ tx'[r] = "none"
    BY <2>1, <2>3
  <2>5. CASE label = "availability"
    <3>1. ClaimMatchesRow(r)'
      BY <1>3, <2>1, <2>3, <2>4, <2>5 DEF Begins, ClaimMatchesRow
    <3>2. RequestInvOf(r)'
      BY <2>1, <2>4, <2>5, <3>1 DEF RequestInvOf, Running, Reserving
    <3>3. QED
      BY <1>1, <2>1, <2>2, <2>3, <3>2
  <2>6. CASE label # "availability"
    <3>1. /\ label \in {"deleteEvent", "markCancelled"} /\ bookings[c.id] # Absent
          /\ label = "deleteEvent" => k.googleEventId # NoEvent
      BY <1>3, <2>6 DEF Begins
    <3>2. RequestInvOf(r)'
      BY <2>1, <2>4, <3>1 DEF RequestInvOf, Running, Reserving, Exists
    <3>3. QED
      BY <1>1, <2>1, <2>2, <2>3, <3>2
  <2>7. QED
    BY <2>5, <2>6
<1>4. QED
  BY <1>2, <1>3, StartCases

-------------------------------------------------------------------------------
(* The steps of the workers *)

\* A worker's step keeps the rows' coach, times and status, and every request.
LEMMA JobEffect ==
  ASSUME TypeOK, RowInv, RequestInv, JobInv, JobsNext, UNCHANGED bookingVars
  PROVE  /\ RowInv' /\ RequestInv' /\ claim' = claim
         /\ \A s \in Requests : tx'[s] \in {tx[s], "doomed"}
         /\ \A b \in Requests :
              /\ bookings[b] = Absent <=> bookings'[b] = Absent
              /\ bookings[b] # Absent =>
                   /\ bookings'[b].coachId = bookings[b].coachId
                   /\ bookings'[b].startAt = bookings[b].startAt
                   /\ bookings'[b].endAt = bookings[b].endAt
                   /\ bookings'[b].status = bookings[b].status
<1> DEFINE SameRow(b) == /\ bookings[b] = Absent <=> bookings'[b] = Absent
                         /\ bookings[b] # Absent =>
                              /\ bookings'[b].coachId = bookings[b].coachId
                              /\ bookings'[b].startAt = bookings[b].startAt
                              /\ bookings'[b].endAt = bookings[b].endAt
                              /\ bookings'[b].status = bookings[b].status
           Quiescent == /\ \A b \in Requests : SameRow(b)
                        /\ claim' = claim
                        /\ \A s \in Requests : tx'[s] \in {tx[s], "doomed"}
                        /\ \A s \in Requests : tx'[s] = "none" <=> tx[s] = "none"
<1> USE DEF TypeOK, StoreTypeOK, JobsTypeOK, BookingsTypeOK
<1>1. ASSUME UNCHANGED <<bookings, claim, tx>> PROVE Quiescent
  BY <1>1
<1>2. ASSUME NEW w \in Workers, SaveMeetLink(w) PROVE Quiescent
  <2> DEFINE j == worker[w].job
             b == jobs[j].bookingId
             row == [bookings[b] EXCEPT !.googleEventId = EventOf(j)]
  <2>1. worker[w] \in BusyWorkers /\ j \in Requests /\ jobs[j] \in Jobs
    BY <1>2 DEF SaveMeetLink, At, IdleWorker, BusyWorkers, JobInv
  <2>2. b \in Requests /\ EventOf(j) \in EventIds
    BY <2>1, JobUpdate DEF EventOf, EventIds
  <2>3. bookings[b] \in Rows /\ bookings[b] # Absent
    BY <2>1, <2>2, JobUpdate DEF JobInv, Exists
  <2>4. /\ row \in Rows /\ row.coachId = bookings[b].coachId
        /\ row.startAt = bookings[b].startAt /\ row.endAt = bookings[b].endAt
        /\ row.status = bookings[b].status /\ row # Absent
    BY <2>2, <2>3, LinkUpdate
  <2>5. bookings' = [bookings EXCEPT ![b] = row] /\ claim' = claim
    BY <1>2 DEF SaveMeetLink, UpdateRow
  <2>6. \A a \in Requests : SameRow(a)
    BY <2>2, <2>3, <2>4, <2>5
  <2>7. \A s \in Requests : tx'[s] \in {tx[s], "doomed"} /\ (tx'[s] = "none" <=> tx[s] = "none")
    BY <1>2 DEF SaveMeetLink, UpdateRow
  <2>8. QED
    BY <2>5, <2>6, <2>7
<1>3. Quiescent
  BY <1>1, <1>2 DEF JobsNext, WorkerStep, CreateMeetEvent, CreateMeetEventFails, SendMails,
                    SendMailsFails, KillWorker, TakeJob, ExpireJob
<1>4. RowInv'
  BY <1>3 DEF RowInv, Exists
<1>5. RequestInv'
  <2> SUFFICES ASSUME NEW r \in Requests PROVE RequestInvOf(r)'
    BY DEF RequestInv
  <2>1. RequestInvOf(r) /\ pc' = pc /\ call' = call /\ claim' = claim
    BY <1>3 DEF RequestInv, bookingVars
  <2>2. claim[r] \in Claims => claim[r].id \in Requests
    BY DEF Claims
  <2>3. pc[r] \in Reserving => ClaimMatchesRow(r)'
    <3>1. SUFFICES ASSUME pc[r] \in Reserving PROVE ClaimMatchesRow(r)'
      OBVIOUS
    <3>2. claim[r].id \in Requests /\ ClaimMatchesRow(r)
      BY <2>1, <2>2, <3>1 DEF RequestInvOf, Running, Reserving
    <3>3. SameRow(claim[r].id)
      BY <1>3, <3>2
    <3>4. QED
      BY <2>1, <3>2, <3>3 DEF ClaimMatchesRow
  <2>4. pc[r] \in Running \ Reserving => Exists(claim[r].id)'
    BY <1>3, <2>1, <2>2 DEF RequestInvOf, Exists
  <2>5. QED
    BY <1>3, <2>1, <2>3, <2>4 DEF RequestInvOf
<1>6. QED
  BY <1>3, <1>4, <1>5

\* Jobs are kept, and point to bookings that exist.
LEMMA JobInvKept ==
  ASSUME TypeOK, RowInv, RequestInv, JobInv, Next
  PROVE  JobInv'
<1> DEFINE RowsStay == \A b \in Requests : bookings[b] # Absent => bookings'[b] # Absent
           JobsStay == \A j \in Requests : jobs[j] # NoJob =>
                         /\ jobs'[j] # NoJob
                         /\ jobs'[j].bookingId = jobs[j].bookingId
           NoNewJob == \A j \in Requests : jobs[j] = NoJob => jobs'[j] = NoJob
           SameWorkers == worker' = worker
<1> USE DEF TypeOK, StoreTypeOK, JobsTypeOK, BookingsTypeOK
<1>1. ASSUME NEW j \in Requests, jobs[j] # NoJob
      PROVE  jobs[j] \in Jobs /\ jobs[j].bookingId \in Requests
  BY <1>1, JobUpdate
<1>2. ASSUME NEW w \in Workers, worker[w] # IdleWorker
      PROVE  worker[w].job \in Requests /\ jobs[worker[w].job] # NoJob
  BY <1>2 DEF BusyWorkers, JobInv
<1>3. ASSUME RowsStay, JobsStay, NoNewJob, SameWorkers PROVE JobInv'
  BY <1>1, <1>2, <1>3 DEF JobInv, Exists
<1>4. CASE BookingsNext
  <2>1. ASSUME NEW r \in Requests, StartRequest(r) PROVE JobInv'
    <3>1. UNCHANGED <<bookings, jobs, worker>>
      BY <2>1, StartInv
    <3>2. QED
      BY <1>3, <3>1
  <2>2. ASSUME NEW r \in Requests, EnqueueNotification(r) PROVE JobInv'
    <3>1. claim[r].id \in Requests /\ bookings[claim[r].id] # Absent
      BY <2>2, WrittenRow, RowUpdate DEF EnqueueNotification, Running, Reserving
    <3>2. /\ jobs' = [jobs EXCEPT ![r] = [state |-> "created", bookingId |-> claim[r].id,
                                          kind |-> KindOf(call[r].op), retryCount |-> 0]]
          /\ bookings' = bookings /\ worker' = worker
      BY <2>2 DEF EnqueueNotification, Enqueue, jobVars
    <3>3. jobs'[r] # NoJob /\ jobs'[r].bookingId = claim[r].id
      BY <3>2 DEF NoJob
    <3>4. \A j \in Requests \ {r} : jobs'[j] = jobs[j]
      BY <3>2
    <3>5. QED
      BY <1>2, <3>1, <3>2, <3>3, <3>4 DEF JobInv, Exists
  <2>3. ASSUME NEW r \in Requests, RequestStep(r) \/ RequestDies(r), ~ EnqueueNotification(r)
        PROVE  JobInv'
    <3>1. RowsStay
      BY <2>3, RequestEffect DEF RowsPersist
    <3>2. UNCHANGED <<jobs, worker>>
      BY <2>3 DEF RequestStep, RequestDies, ReadAvailability, CheckOverlap, CommitCreate,
                  CommitReschedule, SerializationFailure, DeleteEvent, DeleteEventThrows,
                  ClearLink, MarkCancelled, storeVars, jobVars
    <3>3. QED
      BY <1>3, <3>1, <3>2
  <2>4. ASSUME NEW c \in Coaches, EditSchedule(c) PROVE JobInv'
    BY <1>3, <2>4 DEF EditSchedule, storeVars, jobVars
  <2>5. CASE Tick
    BY <1>3, <2>5 DEF Tick, storeVars, jobVars
  <2>6. QED
    BY <1>4, <2>1, <2>2, <2>3, <2>4, <2>5 DEF BookingsNext
<1>5. CASE JobsNext /\ UNCHANGED bookingVars
  <2>1. RowsStay
    BY <1>5, JobEffect
  <2>2. ASSUME NEW j \in Requests, jobs[j] # NoJob, NEW job \in Jobs,
               job.bookingId = jobs[j].bookingId, jobs' = [jobs EXCEPT ![j] = job]
        PROVE  JobsStay /\ NoNewJob
    BY <2>2, JobUpdate
  <2>3. ASSUME NEW j \in Requests, jobs[j] # NoJob, FailJob(j)
        PROVE  JobsStay /\ NoNewJob
    BY <1>1, <2>2, <2>3, JobUpdate DEF FailJob
  <2>4. ASSUME NEW j \in Requests, jobs[j] # NoJob, NEW st \in {"active", "completed"},
               jobs' = [jobs EXCEPT ![j].state = st]
        PROVE  JobsStay /\ NoNewJob
    <3>1. /\ [jobs[j] EXCEPT !.state = st] \in Jobs
          /\ [jobs[j] EXCEPT !.state = st].bookingId = jobs[j].bookingId
      BY <1>1, <2>4, JobUpdate DEF Jobs
    <3>2. QED
      BY <2>2, <2>4, <3>1
  <2>5. ASSUME JobsStay, NoNewJob, NEW w \in Workers, NEW v,
               worker' = [worker EXCEPT ![w] = v],
               v = IdleWorker \/ (v.job \in Requests /\ jobs'[v.job] # NoJob)
        PROVE  JobInv'
    <3>1. \A j \in Requests : jobs'[j] # NoJob => bookings'[jobs'[j].bookingId] # Absent
      BY <1>1, <2>1, <2>5 DEF JobInv, Exists
    <3>2. \A u \in Workers : worker'[u] # IdleWorker => jobs'[worker'[u].job] # NoJob
      BY <1>2, <2>5
    <3>3. QED
      BY <3>1, <3>2 DEF JobInv, Exists
  <2>6. ASSUME NEW w \in Workers, NEW j \in Requests, TakeJob(w, j) PROVE JobInv'
    <3>1. jobs[j] # NoJob /\ jobs' = [jobs EXCEPT ![j].state = "active"]
      BY <2>6 DEF TakeJob, NoJob
    <3>2. JobsStay /\ NoNewJob
      BY <2>4, <3>1
    <3> DEFINE row == bookings[jobs[j].bookingId]
               v == [pc |-> IF NeedsMeetLink(jobs[j].kind, row) THEN "createEvent" ELSE "send",
                     job |-> j, booking |-> row]
    <3>3. worker' = [worker EXCEPT ![w] = v] /\ v.job = j
      BY <2>6 DEF TakeJob
    <3>4. jobs'[v.job] # NoJob
      BY <3>1, <3>2, <3>3 DEF JobsStay
    <3> HIDE DEF v
    <3>5. \A u \in Workers : worker'[u] # IdleWorker => jobs'[worker'[u].job] # NoJob
      BY <1>2, <3>2, <3>3, <3>4 DEF JobsStay
    <3>6. \A i \in Requests : jobs'[i] # NoJob => bookings'[jobs'[i].bookingId] # Absent
      BY <1>1, <2>1, <3>2 DEF JobsStay, NoNewJob, JobInv, Exists
    <3>7. QED
      BY <3>5, <3>6 DEF JobInv, Exists
  <2>7. ASSUME NEW w \in Workers, WorkerStep(w) PROVE JobInv'
    <3> DEFINE j == worker[w].job
    <3>1. j \in Requests /\ jobs[j] # NoJob /\ worker[w] \in BusyWorkers
      BY <1>2, <2>7, StepIsBusy DEF Busy
    <3>2. ASSUME UNCHANGED jobs PROVE JobsStay /\ NoNewJob
      BY <3>2
    <3>3. CASE CreateMeetEvent(w)
      <4>1. [worker[w] EXCEPT !.pc = "saveLink"].job = j
        BY <3>1 DEF BusyWorkers
      <4>2. QED
        BY <2>5, <3>1, <3>2, <3>3, <4>1 DEF CreateMeetEvent
    <3>4. CASE SaveMeetLink(w)
      <4>1. worker' \in [Workers -> UNION {BusyWorkers, {IdleWorker}}] /\ jobs' = jobs
        BY <1>5, <3>4, JobTypeOK DEF SaveMeetLink
      <4>2. worker'[w].job = j /\ \A u \in Workers \ {w} : worker'[u] = worker[u]
        BY <3>1, <3>4 DEF SaveMeetLink, BusyWorkers
      <4>3. worker' = [worker EXCEPT ![w] = worker'[w]]
        BY <4>1, <4>2
      <4>4. QED
        BY <2>5, <3>1, <3>2, <4>1, <4>2, <4>3
    <3>5. CASE CreateMeetEventFails(w) \/ SendMailsFails(w)
      BY <2>3, <2>5, <3>1, <3>5 DEF CreateMeetEventFails, SendMailsFails
    <3>6. CASE SendMails(w)
      BY <2>4, <2>5, <3>1, <3>6 DEF SendMails, CompleteJob
    <3>7. QED
      BY <2>7, <3>3, <3>4, <3>5, <3>6 DEF WorkerStep
  <2>8. ASSUME NEW w \in Workers, KillWorker(w) PROVE JobInv'
    BY <2>5, <2>8 DEF KillWorker
  <2>9. ASSUME NEW j \in Requests, ExpireJob(j) PROVE JobInv'
    <3>1. jobs[j] # NoJob /\ FailJob(j) /\ worker' = worker
      BY <2>9 DEF ExpireJob, NoJob
    <3>2. QED
      BY <1>3, <2>1, <2>3, <3>1
  <2>10. QED
    BY <1>5, <2>6, <2>7, <2>8, <2>9 DEF JobsNext
<1>6. QED
  BY <1>4, <1>5 DEF Next

-------------------------------------------------------------------------------
(* No double booking *)

\* The overlap query does not depend on which booking asks.
LEMMA SameSlotSymmetric ==
  ASSUME NEW a, NEW b, a.startAt \in Nat, a.endAt \in Nat, b.startAt \in Nat, b.endAt \in Nat
  PROVE  SameSlot(a, b) <=> SameSlot(b, a)
  BY DEF SameSlot, Overlaps

\* A step that confirms and moves no booking, and opens no transaction, keeps
\* both invariants: it can only take bookings away.
LEMMA OnlyCancels ==
  ASSUME TypeOK, RequestInv, SnapshotInv, NoDoubleBooking,
         \A b \in Requests : Confirmed(b)' =>
            /\ Confirmed(b)
            /\ bookings'[b].coachId = bookings[b].coachId
            /\ bookings'[b].startAt = bookings[b].startAt
            /\ bookings'[b].endAt = bookings[b].endAt,
         \A s \in Requests : tx'[s] = "open" => tx[s] = "open" /\ claim'[s] = claim[s]
  PROVE  SnapshotInv' /\ NoDoubleBooking'
<1>1. SnapshotInv'
  BY DEF SnapshotInv, Taken, SameSlot, Overlaps, Confirmed
<1>2. NoDoubleBooking'
  BY DEF NoDoubleBooking, SameSlot, Overlaps, Confirmed
<1>3. QED
  BY <1>1, <1>2

\* A transaction that Postgres lets commit takes a slot that is free, and every
\* transaction left open claims another one.
LEMMA CommitSafe ==
  ASSUME TypeOK, RowInv, RequestInv, SnapshotInv, NoDoubleBooking,
         NEW r \in Requests, pc[r] = "commit", NEW row \in Rows, CommitRow(r, row),
         row.coachId = claim[r].coachId, row.startAt = claim[r].startAt,
         row.endAt = claim[r].endAt, claim' = claim
  PROVE  SnapshotInv' /\ NoDoubleBooking'
<1> DEFINE id == claim[r].id
<1>1. bookings' = [bookings EXCEPT ![id] = row] /\ claim[r] \in Claims /\ id \in Requests
  BY CommitEffect
<1>2. ~ Taken(claim[r])
  BY DEF SnapshotInv, CommitRow, MayCommit
<1>3. bookings'[id] = row /\ \A b \in Requests \ {id} : bookings'[b] = bookings[b]
  BY <1>1 DEF TypeOK, StoreTypeOK
<1>4. ASSUME NEW c PROVE SameSlot(row, c) <=> SameSlot(claim[r], c)
  BY DEF SameSlot, Overlaps
<1>5. ASSUME NEW c PROVE SameSlot(c, row) <=> SameSlot(c, claim[r])
  BY DEF SameSlot, Overlaps
<1>6. NoDoubleBooking'
  <2> SUFFICES ASSUME NEW a \in Requests, NEW b \in Requests, a # b, Confirmed(a)', Confirmed(b)'
               PROVE  ~ SameSlot(bookings'[a], bookings'[b])
    BY DEF NoDoubleBooking
  <2>1. ASSUME NEW c \in Requests \ {id}, Confirmed(c)' PROVE ~ SameSlot(bookings[c], row)
    BY <1>2, <1>3, <1>5, <2>1 DEF Taken, Confirmed
  <2>2. ASSUME NEW c \in Requests \ {id}, Confirmed(c)' PROVE bookings[c] \in Rows
    BY <1>3, <2>2 DEF TypeOK, StoreTypeOK, Confirmed, Absent
  <2>3. CASE b = id
    BY <1>3, <2>1, <2>3
  <2>4. CASE a = id
    BY <1>3, <2>1, <2>2, <2>4, SameSlotSymmetric DEF Rows
  <2>5. CASE a # id /\ b # id
    BY <1>3, <2>5 DEF NoDoubleBooking, Confirmed
  <2>6. QED
    BY <2>3, <2>4, <2>5
<1>7. SnapshotInv'
  <2> SUFFICES ASSUME NEW s \in Requests, tx'[s] = "open", Taken(claim[s])' PROVE FALSE
    BY DEF SnapshotInv
  <2>1. s # r /\ tx[s] = "open" /\ ~ Clash(s, r)
    BY DEF CommitRow, TypeOK, StoreTypeOK
  <2>2. ~ Taken(claim[s]) /\ claim[s] \in Claims
    BY <2>1 DEF SnapshotInv, RequestInv, RequestInvOf, Running
  <2>3. PICK b \in Requests \ {claim[s].id} : Confirmed(b)' /\ SameSlot(bookings'[b], claim[s])
    BY DEF Taken
  <2>4. CASE b = id
    <3>1. SameSlot(claim[r], claim[s])
      BY <1>3, <1>4, <2>3, <2>4
    <3>2. SameSlot(claim[s], claim[r])
      BY <1>1, <2>2, <3>1, SameSlotSymmetric DEF Claims
    <3>3. QED
      BY <2>1, <3>2 DEF Clash
  <2>5. CASE b # id
    BY <1>3, <2>2, <2>3, <2>5 DEF Taken, Confirmed
  <2>6. QED
    BY <2>4, <2>5
<1>8. QED
  BY <1>6, <1>7

\* No step puts two CONFIRMED bookings, or a CONFIRMED booking and the slot of a
\* transaction that may still commit, into one slot.
LEMMA SafetyKept ==
  ASSUME IndInv, Next
  PROVE  SnapshotInv' /\ NoDoubleBooking'
<1> USE DEF IndInv
<1>1. CASE BookingsNext
  <2>1. ASSUME NEW r \in Requests, StartRequest(r) PROVE SnapshotInv' /\ NoDoubleBooking'
    <3>1. UNCHANGED <<bookings, tx>> /\ tx[r] = "none" /\ Others(r)
      BY <2>1, StartInv
    <3>2. QED
      BY <3>1, OnlyCancels DEF Confirmed, Others
  <2>2. ASSUME NEW r \in Requests, CheckOverlap(r) PROVE SnapshotInv' /\ NoDoubleBooking'
    <3>1. UNCHANGED <<bookings, claim>> /\ tx \in [Requests -> {"none", "open", "doomed"}]
      BY <2>2 DEF CheckOverlap, TypeOK, StoreTypeOK
    <3>2. \A s \in Requests : tx'[s] = "open" => tx[s] = "open" \/ ~ Taken(claim[s])
      BY <2>2, <3>1 DEF CheckOverlap
    <3>3. QED
      BY <3>1, <3>2 DEF SnapshotInv, NoDoubleBooking, Taken, Confirmed
  <2>3. ASSUME NEW r \in Requests, CommitCreate(r) PROVE SnapshotInv' /\ NoDoubleBooking'
    <3> DEFINE row == [coachId |-> claim[r].coachId, startAt |-> claim[r].startAt,
                       endAt |-> claim[r].endAt, location |-> call[r].location,
                       status |-> "CONFIRMED", cancelledBy |-> "NOBODY", googleEventId |-> NoEvent]
    <3>1. claim[r] \in Claims /\ call[r] \in Calls
      BY <2>3 DEF CommitCreate, Running, RequestInv, RequestInvOf, TypeOK, BookingsTypeOK
    <3>2. row \in Rows
      BY <3>1 DEF Rows, Claims, Calls, Cancellers
    <3>3. CommitRow(r, row) /\ pc[r] = "commit" /\ claim' = claim
      BY <2>3 DEF CommitCreate
    <3>4. QED
      BY <3>2, <3>3, CommitSafe
  <2>4. ASSUME NEW r \in Requests, CommitReschedule(r) PROVE SnapshotInv' /\ NoDoubleBooking'
    <3> DEFINE old == bookings[claim[r].id]
               row == Rescheduled(old, claim[r])
    <3>1. claim[r] \in Claims /\ old \in Rows /\ old.coachId = claim[r].coachId
      BY <2>4 DEF CommitReschedule, Running, Reserving, RequestInv, RequestInvOf,
                  ClaimMatchesRow, Claims, TypeOK, StoreTypeOK
    <3>2. /\ row \in Rows /\ row.coachId = claim[r].coachId
          /\ row.startAt = claim[r].startAt /\ row.endAt = claim[r].endAt
      BY <3>1, RowUpdate DEF Rescheduled, Rows
    <3>3. CommitRow(r, row) /\ pc[r] = "commit" /\ claim' = claim
      BY <2>4 DEF CommitReschedule
    <3>4. QED
      BY <3>2, <3>3, CommitSafe
  <2>5. ASSUME NEW r \in Requests, ClearLink(r) PROVE SnapshotInv' /\ NoDoubleBooking'
    <3> DEFINE b == claim[r].id
               row == [bookings[b] EXCEPT !.googleEventId = NoEvent]
    <3>1. b \in Requests /\ bookings[b] \in Rows
      BY <2>5, WrittenRow DEF ClearLink, Running, Reserving
    <3>2. bookings' = [bookings EXCEPT ![b] = row] /\ claim' = claim
      BY <2>5 DEF ClearLink, UpdateRow
    <3>3. \A s \in Requests : tx'[s] = "open" => tx[s] = "open"
      BY <2>5 DEF ClearLink, UpdateRow
    <3>4. QED
      BY <3>1, <3>2, <3>3, LinkUpdate, OnlyCancels DEF Confirmed, TypeOK, StoreTypeOK
  <2>6. ASSUME NEW r \in Requests, MarkCancelled(r) PROVE SnapshotInv' /\ NoDoubleBooking'
    <3> DEFINE b == claim[r].id
               row == Cancelled(bookings[b], call[r].op)
    <3>1. b \in Requests /\ bookings[b] \in Rows
      BY <2>6, WrittenRow DEF MarkCancelled, Running, Reserving
    <3>2. bookings' = [bookings EXCEPT ![b] = row] /\ claim' = claim
      BY <2>6 DEF MarkCancelled, UpdateRow
    <3>3. \A s \in Requests : tx'[s] = "open" => tx[s] = "open"
      BY <2>6 DEF MarkCancelled, UpdateRow
    <3>4. row.status = "CANCELLED"
      BY <3>1, RowUpdate
    <3>5. QED
      BY <3>1, <3>2, <3>3, <3>4, OnlyCancels DEF Confirmed, TypeOK, StoreTypeOK
  <2>7. ASSUME NEW r \in Requests,
               \/ ReadAvailability(r) \/ SerializationFailure(r) \/ DeleteEvent(r)
               \/ DeleteEventThrows(r) \/ EnqueueNotification(r) \/ RequestDies(r)
        PROVE  SnapshotInv' /\ NoDoubleBooking'
    <3>1. UNCHANGED <<bookings, claim>>
      BY <2>7 DEF ReadAvailability, SerializationFailure, DeleteEvent, EnqueueNotification,
                  DeleteEventThrows, RequestDies, storeVars
    <3>2. \A s \in Requests : tx'[s] = "open" => tx[s] = "open"
      BY <2>7 DEF ReadAvailability, SerializationFailure, DeleteEvent, EnqueueNotification,
                  DeleteEventThrows, RequestDies, storeVars, TypeOK, StoreTypeOK
    <3>3. QED
      BY <3>1, <3>2, OnlyCancels DEF Confirmed
  <2>8. ASSUME Tick \/ \E c \in Coaches : EditSchedule(c)
        PROVE  SnapshotInv' /\ NoDoubleBooking'
    <3>1. UNCHANGED <<bookings, claim, tx>>
      BY <2>8 DEF Tick, EditSchedule, storeVars
    <3>2. QED
      BY <3>1, OnlyCancels DEF Confirmed
  <2>9. QED
    BY <1>1, <2>1, <2>2, <2>3, <2>4, <2>5, <2>6, <2>7, <2>8 DEF BookingsNext, RequestStep
<1>2. CASE JobsNext /\ UNCHANGED bookingVars
  <2>1. /\ claim' = claim
        /\ \A s \in Requests : tx'[s] = "open" => tx[s] = "open"
    BY <1>2, JobEffect
  <2>2. \A b \in Requests : Confirmed(b)' =>
            /\ Confirmed(b)
            /\ bookings'[b].coachId = bookings[b].coachId
            /\ bookings'[b].startAt = bookings[b].startAt
            /\ bookings'[b].endAt = bookings[b].endAt
    BY <1>2, JobEffect DEF Confirmed, Absent
  <2>3. QED
    BY <2>1, <2>2, OnlyCancels
<1>3. QED
  BY <1>1, <1>2 DEF Next

-------------------------------------------------------------------------------
(* The inductive invariant *)

\* The inductive invariant holds in the initial states.
LEMMA InitInv == Init => IndInv
<1> SUFFICES ASSUME Init PROVE IndInv
  OBVIOUS
<1>1. TypeOK
  BY InitTypeOK
<1>2. RowInv /\ SnapshotInv /\ NoDoubleBooking /\ JobInv
  BY DEF Init, StoreInit, JobsInit, RowInv, Exists, SnapshotInv, NoDoubleBooking, JobInv,
         Confirmed, Absent, IdleWorker
<1>3. RequestInv
  BY DEF Init, StoreInit, BookingsInit, RequestInv, RequestInvOf, Running, Reserving
<1>4. QED
  BY <1>1, <1>2, <1>3 DEF IndInv

\* Every step keeps the inductive invariant.
LEMMA NextInv == IndInv /\ [Next]_vars => IndInv'
<1> SUFFICES ASSUME IndInv, [Next]_vars PROVE IndInv'
  OBVIOUS
<1> USE DEF IndInv
<1>1. CASE UNCHANGED vars
  BY <1>1 DEF vars, storeVars, jobVars, bookingVars, TypeOK, StoreTypeOK, JobsTypeOK,
     BookingsTypeOK, RowInv, RequestInv, RequestInvOf, ClaimMatchesRow, JobInv, SnapshotInv,
     NoDoubleBooking, Exists, Confirmed, Taken
<1>2. CASE Next
  <2>1. JobInv' /\ SnapshotInv' /\ NoDoubleBooking'
    BY <1>2, JobInvKept, SafetyKept
  <2>2. ASSUME NEW r \in Requests, StartRequest(r) PROVE TypeOK' /\ RowInv' /\ RequestInv'
    BY <2>2, StartInv
  <2>3. ASSUME NEW r \in Requests, RequestStep(r) \/ RequestDies(r)
        PROVE  TypeOK' /\ RowInv' /\ RequestInv'
    <3>1. TypeOK' /\ RowInv' /\ RowsPersist /\ AddsOnly(r) /\ Others(r)
      BY <2>3, RequestTypeOK, RequestEffect
    <3>2. RequestInvOf(r)'
      BY <2>3, StepInv
    <3>3. RequestInv'
      BY <3>1, <3>2, OthersInv DEF RequestInv
    <3>4. QED
      BY <3>1, <3>3
  <2>4. ASSUME NEW c \in Coaches, EditSchedule(c) PROVE TypeOK' /\ RowInv' /\ RequestInv'
    <3>1. PICK ranges \in Schedules : schedule' = [schedule EXCEPT ![c] = ranges]
      BY <2>4 DEF EditSchedule
    <3>2. UNCHANGED <<bookings, claim, tx, jobs, events, worker, mails, pc, call, attempt, now>>
      BY <2>4 DEF EditSchedule, storeVars, jobVars
    <3>3. schedule' \in [Coaches -> SUBSET Ranges]
      BY <3>1 DEF TypeOK, BookingsTypeOK
    <3>4. TypeOK'
      BY <3>2, <3>3 DEF TypeOK, StoreTypeOK, JobsTypeOK, BookingsTypeOK
    <3>5. QED
      BY <3>2, <3>4 DEF RowInv, RequestInv, RequestInvOf, ClaimMatchesRow, Exists
  <2>5. ASSUME Tick PROVE TypeOK' /\ RowInv' /\ RequestInv'
    <3>1. UNCHANGED <<bookings, claim, tx, jobs, events, worker, mails, pc, call, attempt, schedule>>
      BY <2>5 DEF Tick, storeVars, jobVars
    <3>2. now' \in 0 .. MaxNow
      BY <2>5 DEF Tick, TypeOK, BookingsTypeOK
    <3>3. TypeOK'
      BY <3>1, <3>2 DEF TypeOK, StoreTypeOK, JobsTypeOK, BookingsTypeOK
    <3>4. RowInv'
      BY <3>1 DEF RowInv, Exists
    <3>5. RequestInv'
      BY <3>1 DEF RequestInv, RequestInvOf, ClaimMatchesRow, Exists
    <3>6. QED
      BY <3>3, <3>4, <3>5
  <2>6. ASSUME JobsNext, UNCHANGED bookingVars PROVE TypeOK' /\ RowInv' /\ RequestInv'
    BY <2>6, JobTypeOK, JobEffect
  <2>7. QED
    BY <1>2, <2>1, <2>2, <2>3, <2>4, <2>5, <2>6 DEF Next, BookingsNext
<1>3. QED
  BY <1>1, <1>2

\* The inductive invariant holds in every reachable state of the backend, for
\* every number of requests, workers, coaches and retries.
THEOREM Invariance == Spec => []IndInv
  BY InitInv, NextInv, PTL DEF Spec

\* Every variable of the backend keeps its type; in particular a job is never
\* retried more often than retryLimit.
THEOREM TypeCorrect == Spec => []TypeOK
<1>1. IndInv => TypeOK
  BY DEF IndInv
<1>2. QED
  BY <1>1, Invariance, PTL

\* create and rescheduleByClient never double-book a coach, however many
\* requests race and whichever of them die (README "Booking race safety").
THEOREM DoubleBookingFree == Spec => []NoDoubleBooking
<1>1. IndInv => NoDoubleBooking
  BY DEF IndInv
<1>2. QED
  BY <1>1, Invariance, PTL

-------------------------------------------------------------------------------
(* The backend implements the reservation calendar *)

\* CONFIRMED rows, and only they, stand for a reserved slot.
LEMMA ReservedSlots ==
  ASSUME NEW row \in Rows \cup {Absent}
  PROVE  /\ Reservation(row) \in Calendar!Slots <=> row.status = "CONFIRMED"
         /\ Reservation(row) = Calendar!Free <=> row = Absent
         /\ row.status = "CANCELLED" => Reservation(row) = Calendar!Released
         /\ row.status = "CONFIRMED" =>
              /\ Reservation(row).coachId = row.coachId
              /\ Reservation(row).startAt = row.startAt
              /\ Reservation(row).endAt = row.endAt
<1> USE DEF Calendar!Slots, Calendar!Free, Calendar!Released
<1>1. [state |-> "free"] \notin Calendar!Slots /\ [state |-> "released"] \notin Calendar!Slots
  OBVIOUS
<1>2. [state |-> "released"] # [state |-> "free"]
  OBVIOUS
<1>3. CASE row = Absent
  BY <1>1, <1>3 DEF Reservation, Absent
<1>4. CASE row \in Rows /\ row.status = "CANCELLED"
  BY <1>1, <1>2, <1>4, RowUpdate DEF Reservation
<1>5. CASE row \in Rows /\ row.status = "CONFIRMED"
  <2>1. Reservation(row) = [coachId |-> row.coachId, startAt |-> row.startAt,
                            endAt |-> row.endAt]
    BY <1>5 DEF Reservation
  <2>2. Reservation(row) \in Calendar!Slots
    BY <1>5, <2>1 DEF Rows
  <2>3. row # Absent
    BY <1>5, RowUpdate
  <2>4. /\ Reservation(row).coachId = row.coachId /\ Reservation(row).startAt = row.startAt
        /\ Reservation(row).endAt = row.endAt
    BY <2>1
  <2>5. Reservation(row) # [state |-> "free"]
    BY <1>1, <2>2
  <2>6. QED
    BY <1>5, <2>2, <2>3, <2>4, <2>5
<1>6. QED
  BY <1>3, <1>4, <1>5 DEF Rows

\* A write of one row changes one reservation.
LEMMA OneReservation ==
  ASSUME TypeOK, NEW b \in Requests, NEW row, bookings' = [bookings EXCEPT ![b] = row]
  PROVE  /\ reserved' = [reserved EXCEPT ![b] = Reservation(row)]
         /\ reserved'[b] = Reservation(row) /\ reserved[b] = Reservation(bookings[b])
<1>1. \A a \in Requests : bookings'[a] = IF a = b THEN row ELSE bookings[a]
  BY DEF TypeOK, StoreTypeOK
<1>2. /\ reserved = [a \in Requests |-> Reservation(bookings[a])]
      /\ reserved' = [a \in Requests |-> Reservation(bookings'[a])]
  BY DEF reserved
<1>3. \A a \in Requests : Reservation(bookings'[a]) =
                            IF a = b THEN Reservation(row) ELSE Reservation(bookings[a])
  BY <1>1
<1>4. reserved' = [a \in Requests |-> IF a = b THEN Reservation(row) ELSE reserved[a]]
  BY <1>2, <1>3
<1>5. QED
  BY <1>2, <1>4

\* A commit that confirms the slot it claims takes a slot nobody else has.
LEMMA TakesClaimedSlot ==
  ASSUME IndInv, NEW r \in Requests, pc[r] = "commit", NEW row \in Rows,
         CommitRow(r, row), row.status = "CONFIRMED", row.coachId = claim[r].coachId,
         row.startAt = claim[r].startAt, row.endAt = claim[r].endAt
  PROVE  Calendar!TakesFreeSlot(claim[r].id)
<1> DEFINE id == claim[r].id
<1> USE DEF IndInv
<1>1. /\ bookings' = [bookings EXCEPT ![id] = row] /\ id \in Requests /\ claim[r] \in Claims
      /\ claim[r].startAt \in Nat /\ claim[r].endAt \in Nat
  BY CommitEffect DEF Claims
<1>2. reserved' = [reserved EXCEPT ![id] = Reservation(row)] /\ reserved'[id] = Reservation(row)
  BY <1>1, OneReservation
<1>3. Reservation(row) \in Calendar!Slots
  BY ReservedSlots
<1>4. ~ Taken(claim[r])
  BY DEF CommitRow, MayCommit, SnapshotInv
<1>5. ASSUME NEW b \in Requests \ {id}, reserved[b] \in Calendar!Slots
      PROVE  ~ Calendar!Collide(reserved[b], Reservation(row))
  <2>1. bookings[b] \in Rows \cup {Absent} /\ reserved[b] = Reservation(bookings[b])
    BY DEF TypeOK, StoreTypeOK, reserved
  <2>2. bookings[b].status = "CONFIRMED"
    BY <1>5, <2>1, ReservedSlots
  <2>3. ~ SameSlot(bookings[b], claim[r])
    BY <1>1, <1>4, <1>5, <2>2 DEF Taken, Confirmed
  <2>4. bookings[b] \in Rows
    BY <2>1, <2>2 DEF Absent
  <2>5. bookings[b].startAt \in Nat /\ bookings[b].endAt \in Nat
    BY <2>4 DEF Rows
  <2>6. /\ reserved[b].coachId = bookings[b].coachId
        /\ reserved[b].startAt = bookings[b].startAt /\ reserved[b].endAt = bookings[b].endAt
    BY <2>1, <2>2, ReservedSlots
  <2>7. /\ Reservation(row).coachId = row.coachId
        /\ Reservation(row).startAt = row.startAt /\ Reservation(row).endAt = row.endAt
    BY ReservedSlots
  <2>8. QED
    BY <1>1, <2>3, <2>5, <2>6, <2>7 DEF SameSlot, Overlaps, Calendar!Collide
<1>6. QED
  BY <1>2, <1>3, <1>5 DEF Calendar!TakesFreeSlot

\* A step that keeps the status, the coach and the times of every row is a
\* stuttering step of the calendar.
LEMMA SameReservations ==
  ASSUME \A b \in Requests : /\ bookings'[b].status = bookings[b].status
                             /\ bookings'[b].coachId = bookings[b].coachId
                             /\ bookings'[b].startAt = bookings[b].startAt
                             /\ bookings'[b].endAt = bookings[b].endAt
  PROVE  reserved' = reserved
<1>1. \A b \in Requests : Reservation(bookings'[b]) = Reservation(bookings[b])
  BY DEF Reservation
<1>2. QED
  BY <1>1 DEF reserved

\* create's commit reserves a slot.
LEMMA CreateReserves ==
  ASSUME IndInv, NEW r \in Requests, CommitCreate(r)
  PROVE  Calendar!Reserve(r)
<1> DEFINE row == [coachId |-> claim[r].coachId, startAt |-> claim[r].startAt,
                   endAt |-> claim[r].endAt, location |-> call[r].location,
                   status |-> "CONFIRMED", cancelledBy |-> "NOBODY", googleEventId |-> NoEvent]
<1>1. claim[r] \in Claims /\ claim[r].id = r /\ bookings[r] = Absent
  BY DEF IndInv, CommitCreate, RequestInv, RequestInvOf, ClaimMatchesRow, Running, Reserving
<1>2. call[r].location \in Locations
  BY DEF IndInv, TypeOK, BookingsTypeOK, Calls
<1>3. row \in Rows /\ CommitRow(r, row) /\ pc[r] = "commit"
  BY <1>1, <1>2 DEF CommitCreate, Rows, Claims, Cancellers
<1>4. Calendar!TakesFreeSlot(r)
  BY <1>1, <1>3, TakesClaimedSlot
<1>5. reserved[r] = Calendar!Free
  BY <1>1, ReservedSlots DEF reserved
<1>6. QED
  BY <1>4, <1>5 DEF Calendar!Reserve

\* rescheduleByClient's commit moves a reservation, unless the booking was
\* cancelled meanwhile: then the calendar does not change.
LEMMA RescheduleMoves ==
  ASSUME IndInv, NEW r \in Requests, CommitReschedule(r)
  PROVE  Calendar!Move(claim[r].id) \/ UNCHANGED reserved
<1> DEFINE id == claim[r].id
           old == bookings[id]
           row == Rescheduled(old, claim[r])
<1> USE DEF IndInv
<1>1. /\ claim[r] \in Claims /\ old # Absent /\ old.coachId = claim[r].coachId
      /\ old.endAt - old.startAt = claim[r].endAt - claim[r].startAt
  BY DEF CommitReschedule, RequestInv, RequestInvOf, ClaimMatchesRow, Running, Reserving
<1>2. id \in Requests
  BY <1>1 DEF Claims
<1>3. old \in Rows
  BY <1>1, <1>2 DEF TypeOK, StoreTypeOK
<1>4. row \in Rows
  BY <1>1, <1>3, RowUpdate
<1>5. /\ row.coachId = old.coachId /\ row.status = old.status
      /\ row.startAt = claim[r].startAt /\ row.endAt = claim[r].endAt
  BY <1>1, <1>3 DEF Rescheduled, Rows
<1>6. CommitRow(r, row) /\ pc[r] = "commit" /\ bookings' = [bookings EXCEPT ![id] = row]
  BY DEF CommitReschedule, CommitRow
<1>7. /\ reserved' = [reserved EXCEPT ![id] = Reservation(row)]
      /\ reserved'[id] = Reservation(row) /\ reserved[id] = Reservation(old)
  BY <1>2, <1>6, OneReservation
<1>8. CASE old.status = "CONFIRMED"
  <2>1. Calendar!TakesFreeSlot(id)
    BY <1>1, <1>4, <1>5, <1>6, <1>8, TakesClaimedSlot
  <2>2. /\ reserved[id] \in Calendar!Slots /\ Reservation(row).coachId = row.coachId
        /\ Reservation(row).startAt = row.startAt /\ Reservation(row).endAt = row.endAt
        /\ Reservation(old).coachId = old.coachId
        /\ Reservation(old).startAt = old.startAt /\ Reservation(old).endAt = old.endAt
    BY <1>3, <1>4, <1>5, <1>7, <1>8, ReservedSlots
  <2>3. /\ reserved'[id].coachId = reserved[id].coachId
        /\ reserved'[id].endAt - reserved'[id].startAt = reserved[id].endAt - reserved[id].startAt
    BY <1>1, <1>5, <1>7, <2>2
  <2>4. QED
    BY <2>1, <2>2, <2>3 DEF Calendar!Move
<1>9. CASE old.status = "CANCELLED"
  <2>1. Reservation(row) = Reservation(old)
    BY <1>3, <1>4, <1>5, <1>9, ReservedSlots
  <2>2. reserved' = reserved
    BY <1>2, <1>7, <2>1 DEF reserved
  <2>3. QED
    BY <2>2
<1>10. QED
  BY <1>3, <1>8, <1>9 DEF Rows

\* applyCancellation's update releases a reservation; a second cancellation of
\* the same booking changes nothing.
LEMMA CancellationReleases ==
  ASSUME IndInv, NEW r \in Requests, MarkCancelled(r)
  PROVE  Calendar!Release(claim[r].id) \/ UNCHANGED reserved
<1> DEFINE id == claim[r].id
           row == Cancelled(bookings[id], call[r].op)
<1> USE DEF IndInv
<1>1. id \in Requests /\ bookings[id] \in Rows
  BY WrittenRow DEF MarkCancelled, Running, Reserving
<1>2. row \in Rows /\ row.status = "CANCELLED"
  BY <1>1, RowUpdate
<1>3. bookings' = [bookings EXCEPT ![id] = row]
  BY DEF MarkCancelled, UpdateRow
<1>4. /\ reserved' = [reserved EXCEPT ![id] = Reservation(row)]
      /\ reserved[id] = Reservation(bookings[id])
  BY <1>1, <1>3, OneReservation
<1>5. Reservation(row) = Calendar!Released
  BY <1>2, ReservedSlots
<1>6. CASE bookings[id].status = "CONFIRMED"
  BY <1>1, <1>4, <1>5, <1>6, ReservedSlots DEF Calendar!Release
<1>7. CASE bookings[id].status = "CANCELLED"
  <2>1. Reservation(row) = reserved[id]
    BY <1>1, <1>4, <1>5, <1>7, ReservedSlots
  <2>2. QED
    BY <1>1, <1>4, <2>1 DEF reserved
<1>8. QED
  BY <1>1, <1>6, <1>7 DEF Rows

\* A step of a request reserves, moves or releases one slot, or nothing.
LEMMA RequestCalendarStep ==
  ASSUME IndInv, NEW r \in Requests, RequestStep(r)
  PROVE  Calendar!Next \/ UNCHANGED reserved
<1> USE DEF IndInv
<1>1. CASE CommitCreate(r)
  BY <1>1, CreateReserves DEF Calendar!Next
<1>2. CASE CommitReschedule(r)
  <2>1. claim[r].id \in Requests
    BY <1>2 DEF CommitReschedule, RequestInv, RequestInvOf, Running, Claims
  <2>2. QED
    BY <1>2, <2>1, RescheduleMoves DEF Calendar!Next
<1>3. CASE MarkCancelled(r)
  <2>1. claim[r].id \in Requests
    BY <1>3, WrittenRow DEF MarkCancelled, Running, Reserving
  <2>2. QED
    BY <1>3, <2>1, CancellationReleases DEF Calendar!Next
<1>4. CASE ClearLink(r)
  <2> DEFINE id == claim[r].id
             row == [bookings[id] EXCEPT !.googleEventId = NoEvent]
  <2>1. id \in Requests /\ bookings[id] \in Rows
    BY <1>4, WrittenRow DEF ClearLink, Running, Reserving
  <2>2. bookings' = [bookings EXCEPT ![id] = row]
    BY <1>4 DEF ClearLink, UpdateRow
  <2>3. /\ row.coachId = bookings[id].coachId /\ row.status = bookings[id].status
        /\ row.startAt = bookings[id].startAt /\ row.endAt = bookings[id].endAt
    BY <2>1, LinkUpdate
  <2>4. \A b \in Requests : bookings'[b] = IF b = id THEN row ELSE bookings[b]
    BY <2>2 DEF TypeOK, StoreTypeOK
  <2>5. QED
    BY <2>3, <2>4, SameReservations
<1>5. CASE \/ ReadAvailability(r) \/ CheckOverlap(r) \/ SerializationFailure(r)
           \/ DeleteEvent(r) \/ DeleteEventThrows(r) \/ EnqueueNotification(r)
  <2>1. UNCHANGED bookings
    BY <1>5 DEF ReadAvailability, CheckOverlap, SerializationFailure, DeleteEvent,
                DeleteEventThrows, EnqueueNotification, storeVars
  <2>2. QED
    BY <2>1, SameReservations
<1>6. QED
  BY <1>1, <1>2, <1>3, <1>4, <1>5 DEF RequestStep

\* So does every step of the backend.
LEMMA CalendarStep ==
  ASSUME IndInv, [Next]_vars
  PROVE  [Calendar!Next]_reserved
<1> USE DEF IndInv
<1>1. CASE UNCHANGED bookings
  BY <1>1, SameReservations
<1>2. ASSUME NEW r \in Requests, RequestStep(r) PROVE [Calendar!Next]_reserved
  BY <1>2, RequestCalendarStep
<1>3. ASSUME NEW r \in Requests, StartRequest(r) \/ RequestDies(r)
      PROVE  UNCHANGED bookings
  BY <1>3, StartInv DEF RequestDies
<1>4. ASSUME Tick \/ \E c \in Coaches : EditSchedule(c) PROVE UNCHANGED bookings
  BY <1>4 DEF Tick, EditSchedule, storeVars
<1>5. CASE JobsNext /\ UNCHANGED bookingVars
  <2>1. \A b \in Requests : /\ bookings'[b].coachId = bookings[b].coachId
                            /\ bookings'[b].startAt = bookings[b].startAt
                            /\ bookings'[b].endAt = bookings[b].endAt
                            /\ bookings'[b].status = bookings[b].status
    BY <1>5, JobEffect
  <2>2. QED
    BY <2>1, SameReservations
<1>6. CASE UNCHANGED vars
  BY <1>1, <1>6 DEF vars, storeVars
<1>7. QED
  BY <1>1, <1>2, <1>3, <1>4, <1>5, <1>6 DEF Next, BookingsNext

\* The backend implements the calendar a client is promised: races, serialization
\* failures, retries and deaths of requests and workers never show as anything
\* but a slot reserved, moved or released in one step.
THEOREM CalendarImplemented == Spec => ImplementsCalendar
<1>1. Init => Calendar!Init
  BY DEF Init, StoreInit, Calendar!Init, Calendar!Free, reserved, Reservation, Absent
<1>2. IndInv /\ [Next]_vars => [Calendar!Next]_reserved
  BY CalendarStep
<1>3. QED
  BY <1>1, <1>2, Invariance, PTL DEF Spec, ImplementsCalendar, Calendar!Spec

===============================================================================
