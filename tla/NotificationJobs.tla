--------------------------- MODULE NotificationJobs ---------------------------
(***************************************************************************)
(* NotificationJobsService (jobs/notification-jobs.service.ts): the        *)
(* booking-notification queue on pg-boss, the worker that takes one job at *)
(* a time, the Google Meet event it creates (google-calendar.service.ts)   *)
(* and the two mails it sends (notifications.service.ts, email.service.ts).*)
(*                                                                         *)
(* A worker is one running instance of the backend (boss.work, batchSize   *)
(* 1).  pg-boss itself is external: a job is handed to one worker, a       *)
(* handler that throws fails the attempt, and the job of a dead instance   *)
(* fails when it expires.                                                  *)
(***************************************************************************)
EXTENDS BookingStore

CONSTANTS
    Workers,         \* instances of the backend that work the queue
    FaultyWorkers,   \* those that may be killed while they hold a job
    GoogleFaults     \* TRUE when the Google API may fail

ASSUME WorkersAssumption == FaultyWorkers \subseteq Workers
ASSUME GoogleFaultsAssumption == GoogleFaults \in BOOLEAN

VARIABLES
    worker,          \* per worker: the job it holds and the row it read
    mails            \* per job and recipient: the last mail that went out

jobVars == <<worker, mails>>

Recipients == {"client", "coach"}

IdleWorker == [pc |-> "idle"]

BusyWorkers == [pc : {"createEvent", "saveLink", "send"}, job : Requests,
                booking : Rows]

\* What a mail tells its reader that a property is about: the appointment and
\* its link, and who cancelled it.
Letters == [startAt : Nat, endAt : Nat, meetLink : EventIds \cup {NoEvent},
            cancelledBy : Cancellers \cup {"NOBODY"}]

NoLetter == [cancelledBy |-> "none"]

JobsTypeOK ==
    /\ worker \in [Workers -> BusyWorkers \cup {IdleWorker}]
    /\ mails \in [Requests -> [Recipients -> Letters \cup {NoLetter}]]

JobsInit ==
    /\ worker = [w \in Workers |-> IdleWorker]
    /\ mails = [j \in Requests |-> [p \in Recipients |-> NoLetter]]

-------------------------------------------------------------------------------
(* The queue *)

\* Mutant: a singletonKey per booking and kind.
EnqueueOnce(j, b, kind) ==
    jobs' = IF \E i \in Requests : jobs[i] # NoJob /\ jobs[i].bookingId = b /\ jobs[i].kind = kind
            THEN jobs
            ELSE [jobs EXCEPT ![j] = [state |-> "created", bookingId |-> b,
                                      kind |-> kind, retryCount |-> 0]]

\* enqueue: boss.send inserts a job for request j.
Enqueue(j, b, kind) ==
    jobs' = [jobs EXCEPT ![j] = [state |-> "created", bookingId |-> b,
                                 kind |-> kind, retryCount |-> 0]]

\* Mutant: one attempt too many.
FailedAttemptOffByOne(job) ==
    IF job.retryCount <= RetryLimit
    THEN [job EXCEPT !.state = "retry", !.retryCount = @ + 1]
    ELSE [job EXCEPT !.state = "failed"]

\* Mutant: attempts that are not counted.
FailedAttemptUncounted(job) == [job EXCEPT !.state = "retry"]

\* pg-boss fails an attempt: another one while the limit allows.
FailedAttempt(job) ==
    IF job.retryCount < RetryLimit
    THEN [job EXCEPT !.state = "retry", !.retryCount = @ + 1]
    ELSE [job EXCEPT !.state = "failed"]

FailJob(j) == jobs' = [jobs EXCEPT ![j] = FailedAttempt(@)]

CompleteJob(j) == jobs' = [jobs EXCEPT ![j].state = "completed"]

Held(j) == \E w \in Workers : worker[w] # IdleWorker /\ worker[w].job = j

-------------------------------------------------------------------------------
(* The handler *)

At(w, step) == worker[w].pc = step

\* Mutant: a rescheduled booking gets no new link.
NeedsMeetLinkWhenConfirmed(kind, row) ==
    kind = "confirmed" /\ row.location = "GOOGLE_MEET" /\ row.googleEventId = NoEvent

\* Mutant: ensureMeetLink without its early return for a linked booking.
NeedsMeetLinkAlways(kind, row) ==
    kind \in {"confirmed", "rescheduled"} /\ row.location = "GOOGLE_MEET"

\* ensureMeetLink is called for these kinds, and acts on these rows.
NeedsMeetLink(kind, row) ==
    /\ kind \in {"confirmed", "rescheduled"}
    /\ row.location = "GOOGLE_MEET"
    /\ row.googleEventId = NoEvent

\* pg-boss hands job j to an idle worker, whose handler reads the booking.
\* No code deletes a booking, so the handler's "not found" branch is dead.
TakeJob(w, j) ==
    /\ At(w, "idle")
    /\ jobs[j].state \in {"created", "retry"}
    /\ jobs' = [jobs EXCEPT ![j].state = "active"]
    /\ LET row == bookings[jobs[j].bookingId]
       IN worker' = [worker EXCEPT ![w] =
            [pc |-> IF NeedsMeetLink(jobs[j].kind, row) THEN "createEvent"
                    ELSE "send",
             job |-> j, booking |-> row]]
    /\ UNCHANGED <<bookings, claim, tx, events, mails>>

\* The event this attempt of job j inserts.
EventOf(j) == <<j, jobs[j].retryCount>>

InsertEvent(e, row) ==
    events' = [events EXCEPT ![e] = [state |-> "live", startAt |-> row.startAt,
                                     endAt |-> row.endAt]]

\* createMeetEvent returns an id and a link.
CreateMeetEvent(w) ==
    /\ At(w, "createEvent")
    /\ InsertEvent(EventOf(worker[w].job), worker[w].booking)
    /\ worker' = [worker EXCEPT ![w].pc = "saveLink"]
    /\ UNCHANGED <<bookings, claim, tx, jobs, mails>>

\* createMeetEvent throws: the coach is not connected or Google refused, or the
\* event was inserted but its answer was lost or carried no Meet link.
CreateMeetEventFails(w) ==
    /\ GoogleFaults
    /\ At(w, "createEvent")
    /\ \/ InsertEvent(EventOf(worker[w].job), worker[w].booking)
       \/ UNCHANGED events
    /\ FailJob(worker[w].job)
    /\ worker' = [worker EXCEPT ![w] = IdleWorker]
    /\ UNCHANGED <<bookings, claim, tx, mails>>

\* Mutant: the handler goes on with the row it had read.
SaveMeetLinkKeepRow(w) ==
    /\ At(w, "saveLink")
    /\ LET j == worker[w].job
           b == jobs[j].bookingId
       IN UpdateRow(b, [bookings[b] EXCEPT !.googleEventId = EventOf(j)])
    /\ worker' = [worker EXCEPT ![w].pc = "send"]
    /\ UNCHANGED <<claim, jobs, events, mails>>

\* booking.update({meetLink, googleEventId}), by id: the handler goes on with
\* the row it got back.
SaveMeetLink(w) ==
    /\ At(w, "saveLink")
    /\ LET j == worker[w].job
           b == jobs[j].bookingId
           row == [bookings[b] EXCEPT !.googleEventId = EventOf(j)]
       IN /\ UpdateRow(b, row)
          /\ worker' = [worker EXCEPT ![w].pc = "send", ![w].booking = row]
    /\ UNCHANGED <<claim, jobs, events, mails>>

\* buildContext and the builders: both recipients are told of the row the
\* handler holds; a cancellation that is not the client's is the coach's.
Letter(kind, row) ==
    [startAt |-> row.startAt, endAt |-> row.endAt, meetLink |-> row.googleEventId,
     cancelledBy |-> CASE kind # "cancelled" -> "NOBODY"
                       [] row.cancelledBy = "CLIENT" -> "CLIENT"
                       [] OTHER -> "COACH"]

\* The mails of worker w's attempt that reach the recipients in sent.
Deliver(w, sent) ==
    LET j == worker[w].job
        letter == Letter(jobs[j].kind, worker[w].booking)
    IN mails' = [mails EXCEPT ![j] = [p \in Recipients |->
                                        IF p \in sent THEN letter ELSE @[p]]]

\* notifyBooking...: Promise.all of both mails, and both are accepted.
SendMails(w) ==
    /\ At(w, "send")
    /\ Deliver(w, Recipients)
    /\ CompleteJob(worker[w].job)
    /\ worker' = [worker EXCEPT ![w] = IdleWorker]
    /\ UNCHANGED <<bookings, claim, tx, events>>

\* Mutant: Promise.allSettled, whose rejections nobody looks at.
SendMailsSettled(w) ==
    /\ At(w, "send")
    /\ \E sent \in SUBSET Recipients : Deliver(w, sent)
    /\ CompleteJob(worker[w].job)
    /\ worker' = [worker EXCEPT ![w] = IdleWorker]
    /\ UNCHANGED <<bookings, claim, tx, events>>

\* One of the sends is rejected.  Promise.all does not call back the other one,
\* and a provider may have sent a mail it reports as failed.
SendMailsFails(w) ==
    /\ At(w, "send")
    /\ \E sent \in SUBSET Recipients : Deliver(w, sent)
    /\ FailJob(worker[w].job)
    /\ worker' = [worker EXCEPT ![w] = IdleWorker]
    /\ UNCHANGED <<bookings, claim, tx, events>>

\* The instance is killed (Cloud Run scales to zero, SIGKILL after the drain).
\* Mails of the step it was in may have gone out.
KillWorker(w) ==
    /\ w \in FaultyWorkers
    /\ worker[w] # IdleWorker
    /\ IF At(w, "send")
       THEN \E sent \in SUBSET Recipients : Deliver(w, sent)
       ELSE UNCHANGED mails
    /\ worker' = [worker EXCEPT ![w] = IdleWorker]
    /\ UNCHANGED <<bookings, claim, tx, jobs, events>>

\* pg-boss expires an active job whose worker is gone.
ExpireJob(j) ==
    /\ jobs[j].state = "active"
    /\ ~ Held(j)
    /\ FailJob(j)
    /\ UNCHANGED <<bookings, claim, tx, events, worker, mails>>

WorkerStep(w) ==
    \/ CreateMeetEvent(w)
    \/ CreateMeetEventFails(w)
    \/ SaveMeetLink(w)
    \/ SendMails(w)
    \/ SendMailsFails(w)

JobsNext ==
    \/ \E w \in Workers : WorkerStep(w) \/ KillWorker(w)
    \/ \E w \in Workers, j \in Requests : TakeJob(w, j)
    \/ \E j \in Requests : ExpireJob(j)

===============================================================================
