--------------------------- MODULE BookingMailProofs ---------------------------
(***************************************************************************)
(* Proofs that the mails about a booking tell the truth and that its Meet  *)
(* link leads to a live event, on top of the inductive invariant IndInv of *)
(* BookingSystemProofs: for any number of requests, workers and retries,   *)
(* with requests that die, workers that are killed and a Google API that   *)
(* fails, unless a theorem says otherwise.                                 *)
(***************************************************************************)
EXTENDS BookingSystemProofs

-------------------------------------------------------------------------------
(* Jobs and workers *)

\* A busy worker holds a job that exists, about a booking that exists.
LEMMA BusyFacts ==
  ASSUME IndInv, NEW w \in Workers, Busy(w)
  PROVE  /\ worker[w] \in BusyWorkers /\ worker[w].job \in Requests
         /\ jobs[worker[w].job] \in Jobs /\ jobs[worker[w].job] # NoJob
         /\ worker[w].booking \in Rows
         /\ jobs[worker[w].job].bookingId \in Requests
         /\ bookings[jobs[worker[w].job].bookingId] \in Rows
<1> DEFINE j == worker[w].job
<1>1. worker[w] \in BusyWorkers /\ j \in Requests /\ worker[w].booking \in Rows
  BY DEF Busy, IndInv, TypeOK, JobsTypeOK, BusyWorkers
<1>2. jobs[j] # NoJob /\ jobs[j] \in Jobs
  BY <1>1 DEF Busy, IndInv, JobInv, TypeOK, StoreTypeOK
<1>3. jobs[j].bookingId \in Requests
  BY <1>2 DEF Jobs
<1>4. bookings[jobs[j].bookingId] \in Rows
  BY <1>1, <1>2, <1>3 DEF IndInv, JobInv, TypeOK, StoreTypeOK, Exists
<1>5. QED
  BY <1>1, <1>2, <1>3, <1>4

\* A failed attempt is tried again under the next number, or was the last one.
LEMMA FailEffect ==
  ASSUME NEW job \in Jobs
  PROVE  LET new == FailedAttempt(job)
         IN /\ new \in Jobs /\ new.bookingId = job.bookingId /\ new.kind = job.kind
            /\ \/ new.state = "retry" /\ new.retryCount = job.retryCount + 1
               \/ new.state = "failed" /\ new.retryCount = job.retryCount
<1>1. job.retryCount \in 0 .. RetryLimit /\ FailedAttempt(job) \in Jobs
  BY JobUpdate
<1>2. CASE job.retryCount < RetryLimit
  <2> DEFINE new == [job EXCEPT !.state = "retry", !.retryCount = job.retryCount + 1]
  <2>1. /\ new.bookingId = job.bookingId /\ new.kind = job.kind /\ new.state = "retry"
        /\ new.retryCount = job.retryCount + 1
    BY DEF Jobs
  <2>2. FailedAttempt(job) = new
    BY <1>2 DEF FailedAttempt
  <2>3. QED
    BY <1>1, <2>1, <2>2
<1>3. CASE ~ (job.retryCount < RetryLimit)
  <2> DEFINE new == [job EXCEPT !.state = "failed"]
  <2>1. /\ new.bookingId = job.bookingId /\ new.kind = job.kind /\ new.state = "failed"
        /\ new.retryCount = job.retryCount
    BY DEF Jobs
  <2>2. FailedAttempt(job) = new
    BY <1>3 DEF FailedAttempt
  <2>3. QED
    BY <1>1, <2>1, <2>2
<1>4. QED
  BY <1>2, <1>3

\* A change of its state leaves the rest of a job alone.
LEMMA StateEffect ==
  ASSUME NEW job \in Jobs, NEW st \in {"active", "completed"},
         NEW new, new = [job EXCEPT !.state = st]
  PROVE  /\ new \in Jobs /\ new.bookingId = job.bookingId /\ new.kind = job.kind
         /\ new.state = st /\ new.retryCount = job.retryCount
<1>1. new \in Jobs
  BY JobUpdate
<1>2. QED
  BY DEF Jobs

\* Worker w goes to state v and its job j to state job; no other job is touched.
Moves(w, v, j, job) ==
    /\ worker' = [worker EXCEPT ![w] = v]
    /\ jobs' = [jobs EXCEPT ![j] = job]
    /\ job \in Jobs /\ job.bookingId = jobs[j].bookingId /\ job.kind = jobs[j].kind
    /\ \A i \in Requests \ {j} : mails'[i] = mails[i]

\* A worker that holds job j lets go of it.
Drops(w, j, job) == Busy(w) /\ worker[w].job = j /\ Moves(w, IdleWorker, j, job)

\* Every step of the queue and its workers, as what it does to one job: it is
\* taken, worked on, let go of, or expires.
LEMMA JobSteps ==
  ASSUME IndInv, JobsNext
  PROVE  \/ \E w \in Workers, j \in Requests : TakeJob(w, j)
         \/ \E w \in Workers : CreateMeetEvent(w) \/ SaveMeetLink(w)
         \/ \E w \in Workers : SendMails(w)
         \/ \E w \in Workers : CreateMeetEventFails(w) \/ SendMailsFails(w) \/ KillWorker(w)
         \/ \E j \in Requests : ExpireJob(j)
BY DEF JobsNext, WorkerStep

\* Taking a job: a worker that was idle, and a row as it is now.
LEMMA TakeEffect ==
  ASSUME IndInv, NEW w \in Workers, NEW j \in Requests, TakeJob(w, j)
  PROVE  LET row == bookings[jobs[j].bookingId]
             v == worker'[w]
             job == jobs'[j]
         IN /\ Moves(w, v, j, job) /\ ~ Busy(w) /\ v \in BusyWorkers /\ v.job = j /\ v.booking = row
            /\ jobs[j] \in Jobs /\ jobs[j] # NoJob /\ jobs[j].bookingId \in Requests /\ row \in Rows
            /\ job.state = "active" /\ job.retryCount = jobs[j].retryCount
            /\ v.pc = IF NeedsMeetLink(jobs[j].kind, row) THEN "createEvent" ELSE "send"
            /\ jobs[j].state \in {"created", "retry"}
            /\ UNCHANGED <<bookings, claim, events, mails>>
<1> DEFINE row == bookings[jobs[j].bookingId]
           step == IF NeedsMeetLink(jobs[j].kind, row) THEN "createEvent" ELSE "send"
           v == [pc |-> step, job |-> j, booking |-> row]
<1>1. jobs[j] \in Jobs /\ jobs[j] # NoJob /\ jobs[j].state \in {"created", "retry"}
  BY DEF TakeJob, IndInv, TypeOK, StoreTypeOK, NoJob, Jobs
<1>2. jobs[j].bookingId \in Requests /\ row \in Rows
  BY <1>1 DEF Jobs, IndInv, JobInv, TypeOK, StoreTypeOK, Exists
<1>3. jobs' = [jobs EXCEPT ![j] = [jobs[j] EXCEPT !.state = "active"]]
      /\ jobs'[j] = [jobs[j] EXCEPT !.state = "active"]
  BY DEF TakeJob, IndInv, TypeOK, StoreTypeOK
<1>4. worker' = [worker EXCEPT ![w] = v] /\ worker'[w] = v
  BY DEF TakeJob, IndInv, TypeOK, JobsTypeOK
<1>5. v \in BusyWorkers
  BY <1>2 DEF BusyWorkers
<1>6. ~ Busy(w)
  BY DEF TakeJob, At, Busy, IndInv, TypeOK, JobsTypeOK, BusyWorkers
<1>7. /\ jobs'[j] \in Jobs /\ jobs'[j].bookingId = jobs[j].bookingId /\ jobs'[j].kind = jobs[j].kind
      /\ jobs'[j].state = "active" /\ jobs'[j].retryCount = jobs[j].retryCount
  BY <1>1, <1>3, StateEffect
<1>8. UNCHANGED <<bookings, claim, events, mails>>
  BY DEF TakeJob
<1>9. Moves(w, worker'[w], j, jobs'[j])
  BY <1>3, <1>4, <1>7, <1>8 DEF Moves
<1>10. QED
  BY <1>1, <1>2, <1>4, <1>5, <1>6, <1>7, <1>8, <1>9

\* A step that creates or saves an event keeps the worker at its job.
LEMMA EventEffect ==
  ASSUME IndInv, NEW w \in Workers, CreateMeetEvent(w) \/ SaveMeetLink(w)
  PROVE  LET j == worker[w].job
             v == worker'[w]
         IN /\ Moves(w, v, j, jobs[j]) /\ Busy(w) /\ v \in BusyWorkers /\ v.job = j
            /\ CreateMeetEvent(w) => v.pc = "saveLink" /\ worker[w].pc = "createEvent"
                                     /\ UNCHANGED bookings
            /\ SaveMeetLink(w) => /\ v.pc = "send" /\ worker[w].pc = "saveLink"
                                  /\ v.booking = [bookings[jobs[j].bookingId] EXCEPT !.googleEventId = EventOf(j)]
                                  /\ bookings' = [bookings EXCEPT ![jobs[j].bookingId] = v.booking]
                                  /\ UNCHANGED events
            /\ UNCHANGED <<claim, jobs, mails>>
<1> DEFINE j == worker[w].job
           row == [bookings[jobs[j].bookingId] EXCEPT !.googleEventId = EventOf(j)]
<1>1. /\ Busy(w) /\ worker[w] \in BusyWorkers /\ j \in Requests /\ jobs[j] \in Jobs
      /\ bookings[jobs[j].bookingId] \in Rows
  BY StepIsBusy, BusyFacts DEF WorkerStep
<1>2. /\ worker \in [Workers -> BusyWorkers \cup {IdleWorker}]
      /\ jobs \in [Requests -> Jobs \cup {NoJob}]
  BY DEF IndInv, TypeOK, JobsTypeOK, StoreTypeOK
<1>3. UNCHANGED <<claim, jobs, mails>> /\ jobs' = [jobs EXCEPT ![j] = jobs[j]]
  BY <1>2 DEF CreateMeetEvent, SaveMeetLink
<1>4. CASE CreateMeetEvent(w)
  <2>1. worker' = [worker EXCEPT ![w] = [worker[w] EXCEPT !.pc = "saveLink"]]
        /\ worker'[w] = [worker[w] EXCEPT !.pc = "saveLink"]
    BY <1>2, <1>4 DEF CreateMeetEvent
  <2>2. worker'[w] \in BusyWorkers /\ worker'[w].pc = "saveLink" /\ worker'[w].job = j
    BY <1>1, <2>1 DEF BusyWorkers
  <2>3. Moves(w, worker'[w], j, jobs[j])
    BY <1>1, <1>3, <2>1 DEF Moves
  <2>4. worker[w].pc = "createEvent" /\ UNCHANGED bookings /\ ~ SaveMeetLink(w)
    BY <1>4 DEF CreateMeetEvent, SaveMeetLink, At
  <2>5. QED
    BY <1>1, <1>3, <2>2, <2>3, <2>4
<1>5. CASE SaveMeetLink(w)
  <2>0. row \in Rows
    <3>1. EventOf(j) \in EventIds
      BY <1>1, JobUpdate DEF EventOf, EventIds
    <3>2. QED
      BY <1>1, <3>1, RowUpdate
  <2> HIDE DEF row
  <2>1. worker' = [worker EXCEPT ![w].pc = "send", ![w].booking = row]
    BY <1>5 DEF SaveMeetLink, row
  <2>2. worker' = [worker EXCEPT ![w] = [worker[w] EXCEPT !.pc = "send", !.booking = row]]
        /\ worker'[w] = [worker[w] EXCEPT !.pc = "send", !.booking = row]
    BY <1>2, <2>1
  <2>3. /\ worker'[w] \in BusyWorkers /\ worker'[w].pc = "send" /\ worker'[w].job = j
        /\ worker'[w].booking = row
    <3> DEFINE old == worker[w]
               new == worker'[w]
    <3>1. old \in BusyWorkers /\ new = [old EXCEPT !.pc = "send", !.booking = row]
      BY <1>1, <2>2
    <3> HIDE DEF old, new
    <3>2. new \in BusyWorkers /\ new.pc = "send" /\ new.job = old.job /\ new.booking = row
      BY <2>0, <3>1 DEF BusyWorkers
    <3>3. QED
      BY <3>2 DEF old, new
  <2>4. Moves(w, worker'[w], j, jobs[j])
    BY <1>1, <1>3, <2>2 DEF Moves
  <2>5. worker[w].pc = "saveLink" /\ UNCHANGED events /\ ~ CreateMeetEvent(w)
        /\ bookings' = [bookings EXCEPT ![jobs[j].bookingId] = row]
    BY <1>5 DEF CreateMeetEvent, SaveMeetLink, At, UpdateRow, row
  <2>6. QED
    BY <1>1, <1>3, <2>3, <2>4, <2>5 DEF row
<1>6. QED
  BY <1>4, <1>5

\* The mails of an attempt go to its own job.
LEMMA DeliverEffect ==
  ASSUME IndInv, NEW w \in Workers, Busy(w), NEW sent \in SUBSET Recipients, Deliver(w, sent)
  PROVE  LET j == worker[w].job
             letter == Letter(jobs[j].kind, worker[w].booking)
         IN /\ \A i \in Requests \ {j} : mails'[i] = mails[i]
            /\ \A p \in Recipients : mails'[j][p] = IF p \in sent THEN letter ELSE mails[j][p]
<1>1. worker[w].job \in Requests /\ mails \in [Requests -> [Recipients -> Letters \cup {NoLetter}]]
  BY BusyFacts DEF IndInv, TypeOK, JobsTypeOK
<1>2. QED
  BY <1>1 DEF Deliver

\* An attempt that ends, well or not, lets go of its job.
LEMMA DropEffect ==
  ASSUME IndInv, NEW w \in Workers,
         SendMails(w) \/ CreateMeetEventFails(w) \/ SendMailsFails(w) \/ KillWorker(w)
  PROVE  LET j == worker[w].job
             job == jobs'[j]
         IN /\ Drops(w, j, job)
            /\ SendMails(w) => /\ job.state = "completed" /\ worker[w].pc = "send"
                               /\ job.retryCount = jobs[j].retryCount
                               /\ \A p \in Recipients :
                                    mails'[j][p] = Letter(jobs[j].kind, worker[w].booking)
            /\ ~ SendMails(w) => \/ job = FailedAttempt(jobs[j])
                                 \/ job = jobs[j] /\ w \in FaultyWorkers
            /\ UNCHANGED <<bookings, claim>>
<1> DEFINE j == worker[w].job
<1>1. Busy(w) /\ worker[w] \in BusyWorkers /\ j \in Requests /\ jobs[j] \in Jobs
  BY StepIsBusy, BusyFacts DEF WorkerStep
<1>2. worker' = [worker EXCEPT ![w] = IdleWorker] /\ UNCHANGED <<bookings, claim>>
  BY DEF SendMails, CreateMeetEventFails, SendMailsFails, KillWorker
<1>3. /\ jobs \in [Requests -> Jobs \cup {NoJob}]
  BY DEF IndInv, TypeOK, StoreTypeOK
<1>4. \A i \in Requests \ {j} : mails'[i] = mails[i]
  <2>1. UNCHANGED mails \/ \E sent \in SUBSET Recipients : Deliver(w, sent)
    BY DEF SendMails, CreateMeetEventFails, SendMailsFails, KillWorker
  <2>2. QED
    BY <1>1, <2>1, DeliverEffect
<1>5. CASE SendMails(w)
  <2>1. jobs' = [jobs EXCEPT ![j] = [jobs[j] EXCEPT !.state = "completed"]]
        /\ jobs'[j] = [jobs[j] EXCEPT !.state = "completed"]
    BY <1>1, <1>3, <1>5 DEF SendMails, CompleteJob
  <2>2. /\ jobs'[j] \in Jobs /\ jobs'[j].bookingId = jobs[j].bookingId /\ jobs'[j].kind = jobs[j].kind
        /\ jobs'[j].state = "completed" /\ jobs'[j].retryCount = jobs[j].retryCount
    BY <1>1, <2>1, StateEffect
  <2>3. \A p \in Recipients : mails'[j][p] = Letter(jobs[j].kind, worker[w].booking)
    BY <1>1, <1>5, DeliverEffect DEF SendMails
  <2>4. worker[w].pc = "send"
    BY <1>5 DEF SendMails, At
  <2>5. QED
    BY <1>1, <1>2, <1>4, <1>5, <2>1, <2>2, <2>3, <2>4 DEF Drops, Moves
<1>6. CASE ~ SendMails(w) /\ FailJob(j)
  <2>1. jobs' = [jobs EXCEPT ![j] = FailedAttempt(jobs[j])] /\ jobs'[j] = FailedAttempt(jobs[j])
    BY <1>1, <1>3, <1>6 DEF FailJob
  <2>2. /\ jobs'[j] \in Jobs /\ jobs'[j].bookingId = jobs[j].bookingId /\ jobs'[j].kind = jobs[j].kind
    BY <1>1, <2>1, FailEffect
  <2>3. QED
    BY <1>1, <1>2, <1>4, <1>6, <2>1, <2>2 DEF Drops, Moves
<1>7. CASE ~ SendMails(w) /\ KillWorker(w)
  <2>1. jobs' = [jobs EXCEPT ![j] = jobs[j]] /\ jobs'[j] = jobs[j] /\ w \in FaultyWorkers
    BY <1>1, <1>3, <1>7 DEF KillWorker
  <2>2. QED
    BY <1>1, <1>2, <1>4, <1>7, <2>1 DEF Drops, Moves
<1>8. QED
  BY <1>5, <1>6, <1>7 DEF CreateMeetEventFails, SendMailsFails

\* A job that expires is held by nobody.
LEMMA ExpireEffect ==
  ASSUME IndInv, NEW j \in Requests, ExpireJob(j)
  PROVE  /\ jobs[j] \in Jobs /\ jobs[j].state = "active"
         /\ jobs' = [jobs EXCEPT ![j] = jobs'[j]] /\ jobs'[j] = FailedAttempt(jobs[j])
         /\ \A w \in Workers : Busy(w) => worker[w].job # j
         /\ UNCHANGED <<bookings, claim, events, worker, mails>>
<1>1. jobs[j] \in Jobs /\ jobs \in [Requests -> Jobs \cup {NoJob}]
  BY DEF ExpireJob, IndInv, TypeOK, StoreTypeOK, NoJob
<1>2. QED
  BY <1>1 DEF ExpireJob, FailJob, Held, Busy

-------------------------------------------------------------------------------
(* A job has one handler *)

\* Worker w holds job j, or takes it while nobody does.
MayHold(w, j) == \/ Busy(w) /\ worker[w].job = j
                 \/ ~ Busy(w) /\ jobs[j].state # "active"

\* No other worker holds the job that worker w holds or takes.
LEMMA OneHolder ==
  ASSUME HandlerInv, NEW w \in Workers, NEW j \in Requests, MayHold(w, j)
  PROVE  \A u \in Workers \ {w} : Busy(u) => worker[u].job # j
BY DEF HandlerInv, MayHold

\* Where a handler may go: nowhere, or on with its active job.
GoesOn(v, j, job) == \/ v = IdleWorker
                     \/ /\ v \in BusyWorkers /\ v.job = j /\ job.state = "active"
                        /\ v.pc # "send" => job.kind # "cancelled"

\* A worker that goes on with its job, or lets go of it, keeps HandlerInv.
LEMMA MoveKeepsHandler ==
  ASSUME IndInv, HandlerInv, NEW w \in Workers, NEW j \in Requests, NEW v, NEW job,
         Moves(w, v, j, job), MayHold(w, j), GoesOn(v, j, job)
  PROVE  /\ HandlerInv'
         /\ \A u \in Workers \ {w} : worker'[u] = worker[u] /\ (Busy(u) => worker[u].job # j)
<1>1. \A u \in Workers \ {w} : Busy(u) => worker[u].job # j
  BY OneHolder
<1>2. /\ \A u \in Workers : worker'[u] = IF u = w THEN v ELSE worker[u]
      /\ \A i \in Requests : jobs'[i] = IF i = j THEN job ELSE jobs[i]
  BY DEF Moves, IndInv, TypeOK, JobsTypeOK, StoreTypeOK
<1>3. ASSUME NEW u \in Workers, u # w
      PROVE  /\ Busy(u)' <=> Busy(u)
             /\ Busy(u) => jobs'[worker'[u].job] = jobs[worker[u].job] /\ worker'[u] = worker[u]
  BY <1>1, <1>2, <1>3, BusyFacts DEF Busy
<1>4. Busy(w)' => v \in BusyWorkers /\ v.job = j /\ job.state = "active"
                  /\ (v.pc # "send" => job.kind # "cancelled")
  BY <1>2 DEF Busy, GoesOn
<1>5. ASSUME NEW u \in Workers, Busy(u)'
      PROVE  /\ jobs'[worker'[u].job].state = "active"
             /\ worker'[u].pc # "send" => jobs'[worker'[u].job].kind # "cancelled"
  BY <1>2, <1>3, <1>4, <1>5 DEF HandlerInv
<1>6. ASSUME NEW t \in Workers, NEW u \in Workers, Busy(t)', Busy(u)',
             worker'[t].job = worker'[u].job
      PROVE  t = u
  BY <1>1, <1>2, <1>3, <1>4, <1>6 DEF HandlerInv
<1>7. HandlerInv'
  BY <1>5, <1>6 DEF HandlerInv
<1>8. QED
  BY <1>1, <1>2, <1>7

\* The steps of worker w.
StepsOf(w) ==
    \/ \E j \in Requests : TakeJob(w, j)
    \/ CreateMeetEvent(w) \/ SaveMeetLink(w)
    \/ SendMails(w) \/ CreateMeetEventFails(w) \/ SendMailsFails(w) \/ KillWorker(w)

\* Every step of a worker is such a move.
LEMMA WorkerMoves ==
  ASSUME IndInv, HandlerInv, NEW w \in Workers, StepsOf(w)
  PROVE  \E j \in Requests : \E v, job :
              Moves(w, v, j, job) /\ MayHold(w, j) /\ GoesOn(v, j, job) /\ jobs[j] # NoJob
<1> DEFINE Goal == \E j \in Requests : \E v, job :
              Moves(w, v, j, job) /\ MayHold(w, j) /\ GoesOn(v, j, job) /\ jobs[j] # NoJob
<1>1. ASSUME NEW j \in Requests, TakeJob(w, j) PROVE Goal
  <2>1. /\ Moves(w, worker'[w], j, jobs'[j]) /\ ~ Busy(w) /\ worker'[w] \in BusyWorkers
        /\ worker'[w].job = j /\ jobs'[j].state = "active" /\ jobs[j] # NoJob
        /\ jobs[j].state \in {"created", "retry"}
        /\ worker'[w].pc # "send" => NeedsMeetLink(jobs[j].kind, bookings[jobs[j].bookingId])
    BY <1>1, TakeEffect
  <2>2. MayHold(w, j)
    BY <2>1 DEF MayHold
  <2>3. jobs'[j].kind = jobs[j].kind
    BY <2>1 DEF Moves
  <2>4. GoesOn(worker'[w], j, jobs'[j])
    BY <2>1, <2>3 DEF GoesOn, NeedsMeetLink
  <2>5. QED
    BY <2>1, <2>2, <2>4
<1>2. ASSUME CreateMeetEvent(w) \/ SaveMeetLink(w) PROVE Goal
  <2> DEFINE j == worker[w].job
  <2>1. /\ Moves(w, worker'[w], j, jobs[j]) /\ Busy(w) /\ worker'[w] \in BusyWorkers
        /\ worker'[w].job = j /\ worker[w].pc # "send"
    BY <1>2, EventEffect
  <2>2. j \in Requests /\ jobs[j] # NoJob
    BY <2>1, BusyFacts
  <2>3. jobs[j].state = "active" /\ jobs[j].kind # "cancelled"
    BY <2>1 DEF HandlerInv
  <2>4. MayHold(w, j) /\ GoesOn(worker'[w], j, jobs[j])
    BY <2>1, <2>3 DEF MayHold, GoesOn
  <2>5. QED
    BY <2>1, <2>2, <2>4
<1>3. ASSUME SendMails(w) \/ CreateMeetEventFails(w) \/ SendMailsFails(w) \/ KillWorker(w)
      PROVE  Goal
  <2> DEFINE j == worker[w].job
  <2>1. Busy(w) /\ Moves(w, IdleWorker, j, jobs'[j])
    BY <1>3, DropEffect DEF Drops
  <2>2. j \in Requests /\ jobs[j] # NoJob
    BY <2>1, BusyFacts
  <2>3. MayHold(w, j) /\ GoesOn(IdleWorker, j, jobs'[j])
    BY <2>1 DEF MayHold, GoesOn
  <2>4. QED
    BY <2>1, <2>2, <2>3
<1>4. QED
  BY <1>1, <1>2, <1>3 DEF StepsOf

\* Every step of the queue is such a move, or the expiry of a job nobody holds.
LEMMA JobMoves ==
  ASSUME IndInv, HandlerInv, JobsNext
  PROVE  \/ \E w \in Workers, j \in Requests : \E v, job :
              Moves(w, v, j, job) /\ MayHold(w, j) /\ GoesOn(v, j, job) /\ jobs[j] # NoJob
         \/ \E j \in Requests : ExpireJob(j)
<1>1. (\E w \in Workers : StepsOf(w)) \/ \E j \in Requests : ExpireJob(j)
  BY JobSteps DEF StepsOf
<1>2. QED
  BY <1>1, WorkerMoves

\* A job that expires is held by nobody, so HandlerInv does not mention it.
LEMMA ExpireKeepsHandler ==
  ASSUME IndInv, HandlerInv, NEW j \in Requests, ExpireJob(j)
  PROVE  HandlerInv'
<1>1. /\ jobs' = [jobs EXCEPT ![j] = jobs'[j]] /\ worker' = worker
      /\ \A w \in Workers : Busy(w) => worker[w].job # j
  BY ExpireEffect
<1>2. ASSUME NEW w \in Workers, Busy(w)'
      PROVE  jobs'[worker'[w].job] = jobs[worker[w].job] /\ Busy(w)
  <2>1. Busy(w)
    BY <1>1, <1>2 DEF Busy
  <2>2. worker[w].job \in Requests /\ worker[w].job # j
    BY <1>1, <2>1, BusyFacts
  <2>3. QED
    BY <1>1, <2>1, <2>2 DEF IndInv, TypeOK, StoreTypeOK
<1>3. QED
  BY <1>1, <1>2 DEF HandlerInv, Busy

-------------------------------------------------------------------------------
(* What the steps of a request do *)

\* Request r goes to another step of its handler and nobody else sees a change.
Turns(r) ==
    /\ UNCHANGED <<bookings, jobs, events, call>>
    /\ \/ pc'[r] = "failed" /\ (r \in FaultyRequests \/ pc[r] \in {"commit", "deleteEvent"})
       \/ pc[r] \in Reserving /\ pc'[r] \in Reserving \cup {"rejected"}

\* A step of a running request, as one of a few kinds; its slot, its operation
\* and the other requests stay as they are.
LEMMA RequestCases ==
  ASSUME IndInv, NEW r \in Requests, RequestStep(r) \/ RequestDies(r)
  PROVE  /\ pc[r] \in Running /\ claim[r] \in Claims /\ claim[r].id \in Requests
         /\ UNCHANGED <<claim, worker, mails>>
         /\ \A s \in Requests \ {r} : pc'[s] = pc[s] /\ call'[s] = call[s]
         /\ call'[r].op = call[r].op
         /\ \/ Turns(r)
            \/ CommitCreate(r) \/ CommitReschedule(r) \/ ClearLink(r) \/ MarkCancelled(r)
            \/ DeleteEvent(r) \/ EnqueueNotification(r)
<1>1. pc[r] \in Running
  BY DEF RequestStep, RequestDies, ReadAvailability, CheckOverlap, CommitCreate,
         CommitReschedule, SerializationFailure, DeleteEvent, DeleteEventThrows, ClearLink,
         MarkCancelled, EnqueueNotification, Running
<1>2. claim[r] \in Claims /\ claim[r].id \in Requests
  BY <1>1 DEF IndInv, RequestInv, RequestInvOf, Claims
<1>3. UNCHANGED <<claim, worker, mails>>
  BY DEF RequestStep, RequestDies, ReadAvailability, CheckOverlap, CommitCreate,
         CommitReschedule, SerializationFailure, DeleteEvent, DeleteEventThrows, ClearLink,
         MarkCancelled, EnqueueNotification, storeVars, jobVars
<1>4. pc \in [Requests -> Running \cup Answered \cup {"idle"}] /\ call \in [Requests -> Calls]
  BY DEF IndInv, TypeOK, BookingsTypeOK
<1>5. CASE \/ ReadAvailability(r) \/ CheckOverlap(r) \/ SerializationFailure(r)
           \/ DeleteEventThrows(r) \/ RequestDies(r)
  <2>1. \E l \in Reserving \cup {"rejected", "failed"} :
          /\ pc' = [pc EXCEPT ![r] = l]
          /\ l = "failed" => r \in FaultyRequests \/ pc[r] \in {"commit", "deleteEvent"}
          /\ l # "failed" => pc[r] \in Reserving
    BY <1>5 DEF ReadAvailability, CheckOverlap, SerializationFailure, DeleteEventThrows,
                RequestDies, Goto, Reserving
  <2>2. UNCHANGED <<bookings, jobs, events, call>>
    BY <1>5 DEF ReadAvailability, CheckOverlap, SerializationFailure, DeleteEventThrows,
                RequestDies, storeVars
  <2>3. Turns(r)
    BY <1>4, <2>1, <2>2 DEF Turns
  <2>4. \A s \in Requests \ {r} : pc'[s] = pc[s] /\ call'[s] = call[s]
    BY <1>4, <2>1, <2>2
  <2>5. QED
    BY <1>1, <1>2, <1>3, <2>2, <2>3, <2>4
<1>6. CASE \/ CommitCreate(r) \/ ClearLink(r) \/ MarkCancelled(r)
           \/ DeleteEvent(r) \/ EnqueueNotification(r)
  <2>1. call' = call /\ \E l : pc' = [pc EXCEPT ![r] = l]
    BY <1>6 DEF CommitCreate, ClearLink, MarkCancelled, DeleteEvent, EnqueueNotification, Goto
  <2>2. QED
    BY <1>1, <1>2, <1>3, <1>4, <1>6, <2>1
<1>7. CASE CommitReschedule(r)
  <2>1. \E l : pc' = [pc EXCEPT ![r] = l]
    BY <1>7 DEF CommitReschedule, Goto
  <2>2. \E e : call' = [call EXCEPT ![r].googleEventId = e]
    BY <1>7 DEF CommitReschedule
  <2>3. \A s \in Requests \ {r} : call'[s] = call[s]
    BY <1>4, <2>2
  <2>4. call'[r].op = call[r].op
    BY <1>4, <2>2 DEF Calls
  <2>5. QED
    BY <1>1, <1>2, <1>3, <1>4, <1>7, <2>1, <2>3, <2>4
<1>8. QED
  BY <1>5, <1>6, <1>7 DEF RequestStep

\* create's commit: a new CONFIRMED row without a link.
LEMMA CreateEffect ==
  ASSUME IndInv, NEW r \in Requests, CommitCreate(r)
  PROVE  /\ claim[r].id = r /\ bookings[r] = Absent
         /\ \A a \in Requests \ {r} : bookings'[a] = bookings[a]
         /\ bookings'[r].status = "CONFIRMED" /\ bookings'[r].googleEventId = NoEvent
         /\ pc'[r] = "enqueue" /\ call[r].op = "create" /\ UNCHANGED <<jobs, events, call>>
<1>1. claim[r].id = r /\ bookings[r] = Absent
  BY DEF IndInv, CommitCreate, RequestInv, RequestInvOf, ClaimMatchesRow, Running, Reserving
<1>2. /\ bookings \in [Requests -> Rows \cup {Absent}]
      /\ pc \in [Requests -> Running \cup Answered \cup {"idle"}]
  BY DEF IndInv, TypeOK, StoreTypeOK, BookingsTypeOK
<1>3. QED
  BY <1>1, <1>2 DEF CommitCreate, CommitRow, Goto

\* What the other writes leave alone.
Rewrites(r) ==
    LET b == claim[r].id
    IN /\ b \in Requests /\ bookings[b] \in Rows /\ bookings'[b] \in Rows
       /\ \A a \in Requests \ {b} : bookings'[a] = bookings[a]
       /\ UNCHANGED <<jobs, events>>

\* rescheduleByClient's commit: the times change, status and link do not.
LEMMA RescheduleEffect ==
  ASSUME IndInv, NEW r \in Requests, CommitReschedule(r)
  PROVE  LET old == bookings[claim[r].id]
             new == bookings'[claim[r].id]
         IN /\ Rewrites(r) /\ call[r].op = "rescheduleByClient" /\ pc[r] = "commit"
            /\ new.status = old.status /\ new.cancelledBy = old.cancelledBy
            /\ new.googleEventId = old.googleEventId
            /\ call'[r].googleEventId = old.googleEventId
            /\ pc'[r] \in {"deleteEvent", "enqueue"}
<1> DEFINE id == claim[r].id
           old == bookings[id]
           new == Rescheduled(old, claim[r])
<1>1. claim[r] \in Claims /\ id \in Requests /\ old \in Rows
  <2>1. claim[r] \in Claims /\ old # Absent
    BY DEF IndInv, CommitReschedule, RequestInv, RequestInvOf, ClaimMatchesRow, Running, Reserving
  <2>2. id \in Requests
    BY <2>1 DEF Claims
  <2>3. QED
    BY <2>1, <2>2 DEF IndInv, TypeOK, StoreTypeOK
<1>2. new \in Rows
  BY <1>1, RowUpdate
<1>3. /\ new.status = old.status /\ new.cancelledBy = old.cancelledBy
      /\ new.googleEventId = old.googleEventId
  BY <1>1 DEF Rescheduled, Rows
<1>4. /\ bookings \in [Requests -> Rows \cup {Absent}]
      /\ pc \in [Requests -> Running \cup Answered \cup {"idle"}]
      /\ call \in [Requests -> Calls]
  BY DEF IndInv, TypeOK, StoreTypeOK, BookingsTypeOK
<1>5. bookings' = [bookings EXCEPT ![id] = new] /\ UNCHANGED <<jobs, events>>
  BY DEF CommitReschedule, CommitRow
<1>6. bookings'[id] = new /\ \A a \in Requests \ {id} : bookings'[a] = bookings[a]
  BY <1>1, <1>4, <1>5
<1>7. Rewrites(r)
  BY <1>1, <1>2, <1>5, <1>6 DEF Rewrites
<1>8. pc'[r] \in {"deleteEvent", "enqueue"} /\ call[r].op = "rescheduleByClient" /\ pc[r] = "commit"
  BY <1>4 DEF CommitReschedule, Goto
<1>9. call'[r].googleEventId = old.googleEventId
  BY <1>4 DEF CommitReschedule, Calls
<1>10. QED
  BY <1>3, <1>6, <1>7, <1>8, <1>9

\* Unlinking: the row stays what it was but for the link.
LEMMA ClearEffect ==
  ASSUME IndInv, NEW r \in Requests, ClearLink(r)
  PROVE  LET old == bookings[claim[r].id]
             new == bookings'[claim[r].id]
         IN /\ Rewrites(r) /\ pc[r] = "clearLink" /\ pc'[r] = "enqueue" /\ call' = call
            /\ new.status = old.status /\ new.cancelledBy = old.cancelledBy
            /\ new.googleEventId = NoEvent
<1> DEFINE id == claim[r].id
           old == bookings[id]
           new == [old EXCEPT !.googleEventId = NoEvent]
<1>1. id \in Requests /\ old \in Rows
  BY WrittenRow DEF IndInv, ClearLink, Running, Reserving
<1>2. /\ new \in Rows /\ new.status = old.status /\ new.cancelledBy = old.cancelledBy
      /\ new.googleEventId = NoEvent
  BY <1>1 DEF Rows
<1>3. /\ bookings \in [Requests -> Rows \cup {Absent}]
      /\ pc \in [Requests -> Running \cup Answered \cup {"idle"}]
  BY DEF IndInv, TypeOK, StoreTypeOK, BookingsTypeOK
<1>4. bookings' = [bookings EXCEPT ![id] = new] /\ UNCHANGED <<jobs, events, call>>
  BY DEF ClearLink, UpdateRow
<1>5. bookings'[id] = new /\ \A a \in Requests \ {id} : bookings'[a] = bookings[a]
  BY <1>1, <1>3, <1>4
<1>6. Rewrites(r)
  BY <1>1, <1>2, <1>4, <1>5 DEF Rewrites
<1>7. pc[r] = "clearLink" /\ pc'[r] = "enqueue"
  BY <1>3 DEF ClearLink, Goto
<1>8. QED
  BY <1>2, <1>4, <1>5, <1>6, <1>7

\* Cancelling: status and canceller change, the link does not.
LEMMA CancelEffect ==
  ASSUME IndInv, NEW r \in Requests, MarkCancelled(r)
  PROVE  LET old == bookings[claim[r].id]
             new == bookings'[claim[r].id]
         IN /\ Rewrites(r) /\ pc[r] = "markCancelled" /\ pc'[r] = "enqueue" /\ call' = call
            /\ new.status = "CANCELLED" /\ new.cancelledBy \in Cancellers
            /\ new.googleEventId = old.googleEventId
<1> DEFINE id == claim[r].id
           old == bookings[id]
           new == Cancelled(old, call[r].op)
<1>1. id \in Requests /\ old \in Rows
  BY WrittenRow DEF IndInv, MarkCancelled, Running, Reserving
<1>2. /\ new \in Rows /\ new.status = "CANCELLED" /\ new.cancelledBy \in Cancellers
      /\ new.googleEventId = old.googleEventId
  <2>1. new \in Rows /\ new.status = "CANCELLED"
    BY <1>1, RowUpdate
  <2>2. new.cancelledBy \in Cancellers /\ new.googleEventId = old.googleEventId
    BY <1>1 DEF Rows, Cancelled, Cancellers
  <2>3. QED
    BY <2>1, <2>2
<1>3. /\ bookings \in [Requests -> Rows \cup {Absent}]
      /\ pc \in [Requests -> Running \cup Answered \cup {"idle"}]
  BY DEF IndInv, TypeOK, StoreTypeOK, BookingsTypeOK
<1>4. bookings' = [bookings EXCEPT ![id] = new] /\ UNCHANGED <<jobs, events, call>>
  BY DEF MarkCancelled, UpdateRow
<1>5. bookings'[id] = new /\ \A a \in Requests \ {id} : bookings'[a] = bookings[a]
  BY <1>1, <1>3, <1>4
<1>6. Rewrites(r)
  BY <1>1, <1>2, <1>4, <1>5 DEF Rewrites
<1>7. pc[r] = "markCancelled" /\ pc'[r] = "enqueue"
  BY <1>3 DEF MarkCancelled, Goto
<1>8. QED
  BY <1>2, <1>4, <1>5, <1>6, <1>7

\* Deleting the event the request remembers, or trying to.
LEMMA DeleteEffect ==
  ASSUME IndInv, NEW r \in Requests, DeleteEvent(r)
  PROVE  LET e == call[r].googleEventId
         IN /\ pc[r] = "deleteEvent" /\ pc'[r] = AfterDelete(call[r].op)
            /\ e \in EventIds /\ bookings[claim[r].id] \in Rows
            /\ UNCHANGED <<bookings, jobs, call>>
            /\ \A f \in EventIds \ {e} : events'[f] = events[f]
            /\ events'[e].state \in {"deleted", events[e].state}
<1>1. pc[r] = "deleteEvent" /\ UNCHANGED <<bookings, jobs, call>>
  BY DEF DeleteEvent
<1>2. bookings[claim[r].id] \in Rows
  BY <1>1, WrittenRow DEF IndInv, Running, Reserving
<1>3. call[r].googleEventId \in EventIds
  BY <1>1 DEF IndInv, TypeOK, BookingsTypeOK, Calls, RequestInv, RequestInvOf
<1>4. pc'[r] = AfterDelete(call[r].op)
  BY DEF IndInv, TypeOK, BookingsTypeOK, DeleteEvent, Goto
<1>5. events \in [EventIds -> Events]
  BY DEF IndInv, TypeOK, StoreTypeOK
<1>6. \A f \in EventIds \ {call[r].googleEventId} : events'[f] = events[f]
  BY <1>3, <1>5 DEF DeleteEvent
<1>7. events'[call[r].googleEventId].state \in {"deleted", events[call[r].googleEventId].state}
  BY <1>3, <1>5 DEF DeleteEvent, Events
<1>8. QED
  BY <1>1, <1>2, <1>3, <1>4, <1>6, <1>7

\* Sending the request's job.
LEMMA EnqueueEffect ==
  ASSUME IndInv, NEW r \in Requests, EnqueueNotification(r)
  PROVE  /\ pc[r] = "enqueue" /\ pc'[r] = "ok" /\ UNCHANGED <<bookings, events, call>>
         /\ jobs'[r].state = "created" /\ jobs'[r].bookingId = claim[r].id
         /\ jobs'[r].kind = KindOf(call[r].op) /\ jobs'[r].retryCount = 0
         /\ jobs'[r] # NoJob
         /\ \A j \in Requests \ {r} : jobs'[j] = jobs[j]
<1>1. /\ jobs \in [Requests -> Jobs \cup {NoJob}]
      /\ pc \in [Requests -> Running \cup Answered \cup {"idle"}]
  BY DEF IndInv, TypeOK, StoreTypeOK, BookingsTypeOK
<1>2. [state |-> "created", bookingId |-> claim[r].id,
       kind |-> KindOf(call[r].op), retryCount |-> 0] # NoJob
  BY DEF NoJob
<1>3. /\ jobs'[r] = [state |-> "created", bookingId |-> claim[r].id,
                     kind |-> KindOf(call[r].op), retryCount |-> 0]
      /\ \A j \in Requests \ {r} : jobs'[j] = jobs[j]
  BY <1>1 DEF EnqueueNotification, Enqueue
<1>4. pc[r] = "enqueue" /\ pc'[r] = "ok" /\ UNCHANGED <<bookings, events, call>>
  BY <1>1 DEF EnqueueNotification, Goto
<1>5. QED
  BY <1>2, <1>3, <1>4

\* The first step of a request only sets its own locals.
LEMMA StartEffect ==
  ASSUME IndInv, NEW r \in Requests, StartRequest(r)
  PROVE  /\ UNCHANGED <<bookings, jobs, events, worker, mails>> /\ pc[r] = "idle"
         /\ \A s \in Requests \ {r} : pc'[s] = pc[s] /\ call'[s] = call[s] /\ claim'[s] = claim[s]
         /\ \/ pc'[r] = "rejected" /\ call'[r] = call[r] /\ claim'[r] = claim[r]
            \/ /\ pc'[r] = "availability" /\ call'[r].op = "create" /\ claim'[r].id = r
            \/ /\ pc'[r] = "availability" /\ call'[r].op = "rescheduleByClient"
               /\ call'[r].googleEventId = bookings[claim'[r].id].googleEventId
            \/ /\ pc'[r] \in {"deleteEvent", "markCancelled"}
               /\ call'[r].op \in {"cancelByClient", "cancelByCoach"}
               /\ claim'[r].id \in Requests /\ bookings[claim'[r].id] \in Rows
               /\ call'[r].googleEventId = bookings[claim'[r].id].googleEventId
<1>1. /\ pc \in [Requests -> Running \cup Answered \cup {"idle"}]
      /\ call \in [Requests -> Calls] /\ claim \in [Requests -> Claims \cup {NoClaim}]
      /\ bookings \in [Requests -> Rows \cup {Absent}]
  BY DEF IndInv, TypeOK, StoreTypeOK, BookingsTypeOK
<1>2. pc[r] = "idle"
  BY DEF StartRequest, Create, RescheduleByClient, CancelByClient, CancelByCoach
<1>3. CASE Reject(r)
  <2>1. UNCHANGED <<bookings, jobs, events, worker, mails, call, claim>>
        /\ pc' = [pc EXCEPT ![r] = "rejected"]
    BY <1>3 DEF Reject, storeVars, jobVars, Goto
  <2>2. QED
    BY <1>1, <1>2, <2>1
<1>4. ASSUME NEW label \in Running, NEW k \in Calls, NEW c \in Claims, Begins(r, label, k, c)
      PROVE  /\ UNCHANGED <<bookings, jobs, events, worker, mails>>
             /\ \A s \in Requests \ {r} : pc'[s] = pc[s] /\ call'[s] = call[s] /\ claim'[s] = claim[s]
             /\ pc'[r] = label /\ call'[r] = k /\ claim'[r] = c
             /\ c.id \in Requests
  BY <1>1, <1>4 DEF Begins, Claims
<1>5. ASSUME NEW label \in Running, NEW k \in Calls, NEW c \in Claims, Begins(r, label, k, c)
      PROVE  \/ label = "availability" /\ k.op = "create" /\ c.id = r
             \/ /\ label = "availability" /\ k.op = "rescheduleByClient"
                /\ k.googleEventId = bookings[c.id].googleEventId
             \/ /\ label \in {"deleteEvent", "markCancelled"}
                /\ k.op \in {"cancelByClient", "cancelByCoach"}
                /\ bookings[c.id] \in Rows
                /\ k.googleEventId = bookings[c.id].googleEventId
  BY <1>1, <1>4, <1>5 DEF Begins
<1>6. Reject(r) \/ \E label \in Running, k \in Calls, c \in Claims : Begins(r, label, k, c)
  BY StartCases DEF IndInv
<1>7. QED
  BY <1>2, <1>3, <1>4, <1>5, <1>6

-------------------------------------------------------------------------------
(* Every step of the backend, sorted for the invariants below *)

\* A step that changes nothing but the clock, a schedule or a transaction.
Idles == UNCHANGED <<bookings, claim, jobs, events, worker, mails, pc, call>>

\* A step of the queue changes no request.
JobsStep == JobsNext /\ UNCHANGED bookingVars

\* What a step of the backend can be.
LEMMA StepKinds ==
  ASSUME [Next]_vars
  PROVE  \/ Idles \/ JobsStep
         \/ \E r \in Requests : StartRequest(r)
         \/ \E r \in Requests : RequestStep(r) \/ RequestDies(r)
<1>1. CASE UNCHANGED vars
  BY <1>1 DEF vars, storeVars, jobVars, bookingVars, Idles
<1>2. ASSUME Tick \/ \E c \in Coaches : EditSchedule(c) PROVE Idles
  BY <1>2 DEF Tick, EditSchedule, storeVars, jobVars, Idles
<1>3. QED
  BY <1>1, <1>2 DEF Next, BookingsNext, JobsStep

\* The queue never changes what a job is about, and loses and invents none.
LEMMA JobsKeepSubject ==
  ASSUME IndInv, HandlerInv, JobsStep
  PROVE  /\ UNCHANGED <<claim, pc, call>>
         /\ \A i \in Requests : /\ jobs'[i] = NoJob <=> jobs[i] = NoJob
                                /\ jobs'[i].bookingId = jobs[i].bookingId
                                /\ jobs'[i].kind = jobs[i].kind
<1> DEFINE Kept == \A i \in Requests : /\ jobs'[i] = NoJob <=> jobs[i] = NoJob
                                       /\ jobs'[i].bookingId = jobs[i].bookingId
                                       /\ jobs'[i].kind = jobs[i].kind
<1>1. ASSUME NEW j \in Requests, NEW job \in Jobs, jobs[j] # NoJob,
             jobs' = [jobs EXCEPT ![j] = job],
             job.bookingId = jobs[j].bookingId, job.kind = jobs[j].kind
      PROVE  Kept
  <2>1. job # NoJob
    BY <1>1, JobUpdate
  <2>2. QED
    BY <1>1, <2>1 DEF IndInv, TypeOK, StoreTypeOK
<1>2. ASSUME NEW j \in Requests, ExpireJob(j) PROVE Kept
  <2>1. /\ jobs[j] \in Jobs /\ jobs' = [jobs EXCEPT ![j] = jobs'[j]]
        /\ jobs'[j] = FailedAttempt(jobs[j])
    BY <1>2, ExpireEffect
  <2>2. /\ jobs'[j] \in Jobs /\ jobs'[j].bookingId = jobs[j].bookingId
        /\ jobs'[j].kind = jobs[j].kind /\ jobs[j] # NoJob
    BY <2>1, FailEffect, JobUpdate
  <2>3. QED
    BY <1>1, <2>1, <2>2
<1>3. ASSUME NEW w \in Workers, NEW j \in Requests, NEW v, NEW job, Moves(w, v, j, job),
             jobs[j] # NoJob
      PROVE  Kept
  BY <1>1, <1>3 DEF Moves
<1>4. Kept
  BY <1>2, <1>3, JobMoves DEF JobsStep
<1>5. UNCHANGED <<claim, pc, call>>
  BY JobEffect DEF IndInv, JobsStep, bookingVars
<1>6. QED
  BY <1>4, <1>5

\* HandlerInv is inductive on top of IndInv and SentInv: a request that sends
\* its job sends one nobody holds.
LEMMA HandlerInvKept ==
  ASSUME IndInv, HandlerInv, SentInv, [Next]_vars
  PROVE  HandlerInv'
<1>1. ASSUME UNCHANGED worker,
             \A w \in Workers : Busy(w) => jobs'[worker[w].job] = jobs[worker[w].job]
      PROVE  HandlerInv'
  BY <1>1 DEF HandlerInv, Busy
<1>2. CASE Idles
  BY <1>1, <1>2 DEF Idles
<1>3. ASSUME NEW r \in Requests, StartRequest(r) PROVE HandlerInv'
  BY <1>1, <1>3, StartEffect
<1>4. ASSUME NEW r \in Requests, RequestStep(r) \/ RequestDies(r) PROVE HandlerInv'
  <2>1. UNCHANGED worker
    BY <1>4, RequestCases
  <2>2. CASE UNCHANGED jobs
    BY <1>1, <2>1, <2>2
  <2>3. CASE EnqueueNotification(r)
    <3>1. pc[r] = "enqueue" /\ \A j \in Requests \ {r} : jobs'[j] = jobs[j]
      BY <2>3, EnqueueEffect
    <3>2. jobs[r] = NoJob
      BY <3>1 DEF SentInv, SentInvOf
    <3>3. \A w \in Workers : Busy(w) => worker[w].job \in Requests \ {r}
      BY <3>2, BusyFacts
    <3>4. QED
      BY <1>1, <2>1, <3>1, <3>3
  <2>4. UNCHANGED jobs \/ EnqueueNotification(r)
    BY <1>4, RequestCases, RescheduleEffect, ClearEffect, CancelEffect, CreateEffect,
       DeleteEffect DEF Turns, Rewrites
  <2>5. QED
    BY <2>2, <2>3, <2>4
<1>5. CASE JobsStep
  BY <1>5, JobMoves, MoveKeepsHandler, ExpireKeepsHandler DEF JobsStep
<1>6. QED
  BY <1>2, <1>3, <1>4, <1>5, StepKinds

\* Requests keep to the steps of their operation and send one job each.
LEMMA SentInvKept ==
  ASSUME IndInv, HandlerInv, SentInv, [Next]_vars
  PROVE  SentInv'
<1>1. ASSUME NEW s \in Requests, pc'[s] = pc[s], claim'[s] = claim[s], call'[s].op = call[s].op,
             jobs'[s] = NoJob <=> jobs[s] = NoJob,
             jobs'[s].bookingId = jobs[s].bookingId, jobs'[s].kind = jobs[s].kind
      PROVE  SentInvOf(s)'
  BY <1>1 DEF SentInv, SentInvOf
<1>2. CASE Idles
  BY <1>1, <1>2 DEF Idles, SentInv
<1>3. CASE JobsStep
  BY <1>1, <1>3, JobsKeepSubject DEF SentInv
<1>4. ASSUME NEW r \in Requests, StartRequest(r) PROVE SentInv'
  <2>1. /\ \A s \in Requests \ {r} : SentInvOf(s)'
        /\ pc[r] = "idle" /\ UNCHANGED jobs
    BY <1>1, <1>4, StartEffect
  <2>2. SentInvOf(r) /\ jobs'[r] = NoJob
    BY <2>1 DEF SentInv, SentInvOf
  <2>3. SentInvOf(r)'
    BY <1>4, <2>2, StartEffect DEF SentInvOf, AllOperations
  <2>4. QED
    BY <2>1, <2>3 DEF SentInv
<1>5. ASSUME NEW r \in Requests, RequestStep(r) \/ RequestDies(r) PROVE SentInv'
  <2>1. /\ pc[r] \in Running /\ UNCHANGED claim /\ call'[r].op = call[r].op
        /\ \A s \in Requests \ {r} : pc'[s] = pc[s] /\ call'[s] = call[s]
    BY <1>5, RequestCases
  <2>2. SentInvOf(r) /\ jobs[r] = NoJob /\ call[r] \in Calls
    BY <2>1 DEF SentInv, SentInvOf, Running, IndInv, TypeOK, BookingsTypeOK
  <2>3. ASSUME UNCHANGED jobs,
               pc'[r] = "clearLink" => call[r].op = "rescheduleByClient",
               pc'[r] = "markCancelled" => call[r].op \in {"cancelByClient", "cancelByCoach"},
               pc'[r] = "deleteEvent" => call[r].op = "rescheduleByClient"
        PROVE  SentInv'
    <3>1. SentInvOf(r)'
      BY <2>1, <2>2, <2>3 DEF SentInvOf, AllOperations
    <3>2. QED
      BY <1>1, <2>1, <2>3, <3>1 DEF SentInv
  <2>4. CASE Turns(r)
    BY <2>3, <2>4 DEF Turns, Reserving
  <2>5. CASE CommitCreate(r)
    BY <2>3, <2>5, CreateEffect
  <2>6. CASE CommitReschedule(r)
    BY <2>3, <2>6, RescheduleEffect DEF Rewrites
  <2>7. CASE ClearLink(r)
    BY <2>3, <2>7, ClearEffect DEF Rewrites
  <2>8. CASE MarkCancelled(r)
    BY <2>3, <2>8, CancelEffect DEF Rewrites
  <2>9. CASE DeleteEvent(r)
    <3>1. pc[r] = "deleteEvent" /\ pc'[r] = AfterDelete(call[r].op) /\ UNCHANGED jobs
      BY <2>9, DeleteEffect
    <3>2. call[r].op \in AllOperations \ {"create"}
      BY <2>2, <3>1 DEF SentInvOf
    <3>3. QED
      BY <2>3, <3>1, <3>2 DEF AfterDelete, AllOperations
  <2>10. CASE EnqueueNotification(r)
    <3>1. /\ pc'[r] = "ok" /\ call' = call /\ jobs'[r].bookingId = claim[r].id
          /\ jobs'[r].kind = KindOf(call[r].op)
          /\ \A j \in Requests \ {r} : jobs'[j] = jobs[j]
      BY <2>10, EnqueueEffect
    <3>2. SentInvOf(r)'
      BY <2>1, <2>2, <3>1 DEF SentInvOf
    <3>3. QED
      BY <1>1, <2>1, <3>1, <3>2 DEF SentInv
  <2>11. QED
    BY <1>5, <2>4, <2>5, <2>6, <2>7, <2>8, <2>9, <2>10, RequestCases
<1>6. QED
  BY <1>2, <1>3, <1>4, <1>5, StepKinds

\* A worker's update of a row leaves everything but the link alone.
LEMMA LinkOnly ==
  ASSUME IndInv, JobsStep, NEW b \in Requests, bookings[b] # Absent
  PROVE  /\ bookings'[b].status = bookings[b].status
         /\ bookings'[b].cancelledBy = bookings[b].cancelledBy
         /\ \/ bookings'[b] = bookings[b]
            \/ \E w \in Workers : SaveMeetLink(w) /\ jobs[worker[w].job].bookingId = b
<1>1. ASSUME NEW w \in Workers, SaveMeetLink(w) PROVE
         LET a == jobs[worker[w].job].bookingId
             old == bookings[a]
             new == bookings'[a]
         IN /\ \A c \in Requests \ {a} : bookings'[c] = bookings[c]
            /\ a \in Requests /\ new.status = old.status /\ new.cancelledBy = old.cancelledBy
  <2> DEFINE a == jobs[worker[w].job].bookingId
             new == [bookings[a] EXCEPT !.googleEventId = EventOf(worker[w].job)]
  <2>1. Busy(w) /\ bookings' = [bookings EXCEPT ![a] = new]
    BY <1>1, EventEffect
  <2>2. a \in Requests /\ bookings[a] \in Rows
    BY <2>1, BusyFacts
  <2>3. new.status = bookings[a].status /\ new.cancelledBy = bookings[a].cancelledBy
    BY <2>2 DEF Rows
  <2>4. QED
    BY <2>1, <2>2, <2>3 DEF IndInv, TypeOK, StoreTypeOK
<1>2. \/ UNCHANGED bookings
      \/ \E w \in Workers : SaveMeetLink(w)
  BY JobSteps, TakeEffect, EventEffect, DropEffect, ExpireEffect DEF JobsStep
<1>3. QED
  BY <1>1, <1>2

\* Only applyCancellation writes the status CANCELLED, with who cancelled.
LEMMA CancelledInvKept ==
  ASSUME IndInv, HandlerInv, CancelledInv, [Next]_vars
  PROVE  CancelledInv'
<1>1. ASSUME NEW b \in Requests, bookings'[b].status = bookings[b].status,
             bookings'[b].cancelledBy = bookings[b].cancelledBy,
             bookings'[b].status = "CANCELLED"
      PROVE  bookings'[b].cancelledBy \in Cancellers
  BY <1>1 DEF CancelledInv
<1>2. ASSUME NEW b \in Requests, bookings'[b].status = "CANCELLED", bookings'[b] = bookings[b]
      PROVE  bookings'[b].cancelledBy \in Cancellers
  BY <1>1, <1>2
<1>3. CASE UNCHANGED bookings
  BY <1>2, <1>3 DEF CancelledInv
<1>4. CASE JobsStep
  <2>1. \A b \in Requests : bookings[b] = Absent => bookings'[b] = Absent
    BY <1>4, JobEffect DEF JobsStep, IndInv
  <2>2. ASSUME NEW b \in Requests, bookings'[b].status = "CANCELLED"
        PROVE  bookings'[b].cancelledBy \in Cancellers
    BY <1>1, <1>4, <2>1, <2>2, LinkOnly DEF Absent
  <2>3. QED
    BY <2>2 DEF CancelledInv
<1>5. ASSUME NEW r \in Requests, RequestStep(r) \/ RequestDies(r), ~ UNCHANGED bookings
      PROVE  CancelledInv'
  <2>1. CommitCreate(r) \/ CommitReschedule(r) \/ ClearLink(r) \/ MarkCancelled(r)
    BY <1>5, RequestCases, DeleteEffect, EnqueueEffect DEF Turns
  <2>2. CASE CommitCreate(r)
    BY <1>2, <2>2, CreateEffect DEF CancelledInv
  <2>3. CASE CommitReschedule(r)
    BY <1>1, <1>2, <2>3, RescheduleEffect DEF CancelledInv, Rewrites
  <2>4. CASE ClearLink(r)
    BY <1>1, <1>2, <2>4, ClearEffect DEF CancelledInv, Rewrites
  <2>5. CASE MarkCancelled(r)
    BY <1>2, <2>5, CancelEffect DEF CancelledInv, Rewrites
  <2>6. QED
    BY <2>1, <2>2, <2>3, <2>4, <2>5
<1>6. QED
  BY <1>3, <1>4, <1>5, StepKinds, StartEffect DEF Idles

-------------------------------------------------------------------------------
(* The present state of a booking is announced *)

\* A request that is at the same step, about a row with the same status, owes
\* what it owed.
LEMMA OwesKept ==
  ASSUME NEW s \in Requests, NEW b \in Requests, Owes(s, b),
         pc'[s] = pc[s], claim'[s] = claim[s], call'[s].op = call[s].op,
         bookings'[b].status = bookings[b].status
  PROVE  Owes(s, b)'
BY DEF Owes

\* The row says nothing new to the readers of mails of this kind.
SaysTheSame(b, kind) ==
    /\ bookings'[b].status = bookings[b].status
    /\ bookings'[b].cancelledBy = bookings[b].cancelledBy
    /\ bookings'[b] = bookings[b] \/ kind = "cancelled"

\* A job that nobody works on differently still announces the booking.
LEMMA AnnouncesKept ==
  ASSUME NEW j \in Requests, NEW b \in Requests, Announces(j, b),
         jobs'[j] = jobs[j], mails'[j] = mails[j], SaysTheSame(b, jobs[j].kind),
         \A w \in Workers : Busy(w)' /\ worker'[w].job = j => Busy(w) /\ worker'[w] = worker[w]
  PROVE  Announces(j, b)'
<1> DEFINE kind == jobs[j].kind
<1>1. jobs[j] # NoJob /\ jobs[j].bookingId = b /\ UpToDate(j)
      /\ (kind = "cancelled" <=> bookings[b].status = "CANCELLED")
  BY DEF Announces
<1>2. \A letter : Tells(letter, kind, bookings[b]) => Tells(letter, kind, bookings'[b])
  BY DEF Tells, SaysTheSame
<1>3. \A w \in Workers : Busy(w)' /\ worker'[w].job = j /\ worker'[w].pc = "send" =>
          Tells(Letter(kind, worker'[w].booking), kind, bookings'[b])
  BY <1>1, <1>2 DEF UpToDate
<1>4. jobs[j].state = "completed" =>
          \A p \in Recipients : Tells(mails'[j][p], kind, bookings'[b])
  BY <1>1, <1>2 DEF UpToDate
<1>5. UpToDate(j)'
  BY <1>1, <1>3, <1>4 DEF UpToDate
<1>6. QED
  BY <1>1, <1>5 DEF Announces, SaysTheSame

\* What the invariant says of one booking.
Announced(b) == (\E r \in Requests : Owes(r, b)) \/ (\E j \in Requests : Announces(j, b))

\* A step of a request touches one booking at most, and no worker: for a booking
\* whose row says the same, whoever announced or owed it before still does, but
\* for the request itself.
LEMMA RequestKeepsWitness ==
  ASSUME IndInv, SentInv, NEW r \in Requests, NEW b \in Requests, Announced(b),
         StartRequest(r) \/ RequestStep(r) \/ RequestDies(r),
         \A j \in Requests : Announces(j, b) => SaysTheSame(b, jobs[j].kind),
         bookings'[b].status = bookings[b].status,
         Owes(r, b) => Announced(b)'
  PROVE  Announced(b)'
<1>1. /\ \A s \in Requests \ {r} : pc'[s] = pc[s] /\ claim'[s] = claim[s] /\ call'[s] = call[s]
      /\ UNCHANGED <<worker, mails>>
  BY StartEffect, RequestCases
<1>2. ASSUME NEW s \in Requests, Owes(s, b) PROVE Announced(b)'
  <2>1. CASE s = r
    BY <1>2, <2>1
  <2>2. CASE s # r
    BY <1>1, <1>2, <2>2, OwesKept DEF Announced
  <2>3. QED
    BY <2>1, <2>2
<1>3. \A j \in Requests : jobs[j] # NoJob => jobs'[j] = jobs[j]
  <2>1. CASE UNCHANGED jobs
    BY <2>1
  <2>2. CASE EnqueueNotification(r)
    <3>1. jobs[r] = NoJob /\ \A j \in Requests \ {r} : jobs'[j] = jobs[j]
      BY <2>2, EnqueueEffect DEF SentInv, SentInvOf
    <3>2. QED
      BY <3>1
  <2>3. UNCHANGED jobs \/ EnqueueNotification(r)
    BY StartEffect, RequestCases, RescheduleEffect, ClearEffect, CancelEffect, CreateEffect,
       DeleteEffect DEF Turns, Rewrites
  <2>4. QED
    BY <2>1, <2>2, <2>3
<1>4. ASSUME NEW j \in Requests, Announces(j, b) PROVE Announced(b)'
  <2>1. jobs[j] # NoJob
    BY <1>4 DEF Announces
  <2>2. Announces(j, b)'
    BY <1>1, <1>3, <1>4, <2>1, AnnouncesKept DEF Busy
  <2>3. QED
    BY <2>2 DEF Announced
<1>5. QED
  BY <1>2, <1>4 DEF Announced

\* Every step of a request keeps every booking announced or owed.
LEMMA RequestAnnounces ==
  ASSUME IndInv, HandlerInv, SentInv, AnnouncedInv, NEW r \in Requests,
         StartRequest(r) \/ RequestStep(r) \/ RequestDies(r), NEW b \in Requests, Exists(b)'
  PROVE  Announced(b)'
<1>1. Exists(b) => Announced(b)
  BY DEF AnnouncedInv, Announced
<1>2. ASSUME Exists(b), bookings'[b] = bookings[b], Owes(r, b) => Announced(b)'
      PROVE  Announced(b)'
  BY <1>1, <1>2, RequestKeepsWitness DEF SaysTheSame
<1>3. CASE StartRequest(r)
  <2>1. UNCHANGED bookings /\ pc[r] = "idle"
    BY <1>3, StartEffect
  <2>2. ~ Owes(r, b)
    BY <2>1 DEF Owes
  <2>3. QED
    BY <1>2, <2>1, <2>2 DEF Exists
<1>4. ASSUME RequestStep(r) \/ RequestDies(r), bookings'[b] = bookings[b], claim[r].id # b
      PROVE  Announced(b)'
  BY <1>2, <1>4 DEF Owes, Exists
<1>5. ASSUME RequestStep(r) \/ RequestDies(r), claim[r].id = b PROVE Announced(b)'
  <2>0. pc[r] \in Running /\ claim' = claim /\ call'[r].op = call[r].op
    BY <1>5, RequestCases
  <2>a. ASSUME Owes(r, b)' PROVE Announced(b)'
    BY <2>a DEF Announced
  <2>1. CASE Turns(r)
    <3>1. CASE pc'[r] = "failed"
      BY <1>5, <2>0, <2>a, <3>1 DEF Owes
    <3>2. CASE pc[r] \in Reserving
      <4>1. ~ Owes(r, b)
        BY <3>2 DEF Owes, Reserving
      <4>2. QED
        BY <1>2, <2>1, <4>1 DEF Turns, Exists
    <3>3. QED
      BY <2>1, <3>1, <3>2 DEF Turns
  <2>2. CASE CommitCreate(r)
    <3>1. pc'[r] = "enqueue" /\ bookings'[b].status = "CONFIRMED" /\ call[r].op = "create"
      BY <1>5, <2>2, CreateEffect
    <3>2. QED
      BY <1>5, <2>0, <2>a, <3>1 DEF Owes, KindOf
  <2>3. CASE CommitReschedule(r)
    <3>1. /\ pc[r] = "commit" /\ pc'[r] \in {"deleteEvent", "enqueue"}
          /\ call[r].op = "rescheduleByClient"
          /\ bookings'[b].status = bookings[b].status
          /\ bookings'[b].cancelledBy = bookings[b].cancelledBy
          /\ bookings[b] \in Rows
      BY <1>5, <2>3, RescheduleEffect DEF Rewrites
    <3>2. CASE bookings[b].status = "CONFIRMED"
      BY <1>5, <2>0, <2>a, <3>1, <3>2 DEF Owes, KindOf
    <3>3. CASE bookings[b].status = "CANCELLED"
      <4>1. \A j \in Requests : Announces(j, b) => SaysTheSame(b, jobs[j].kind)
        BY <3>1, <3>3 DEF Announces, SaysTheSame
      <4>2. ~ Owes(r, b)
        BY <3>1 DEF Owes
      <4>3. Exists(b)
        BY <3>1, RowUpdate DEF Exists
      <4>4. QED
        BY <1>1, <1>5, <3>1, <4>1, <4>2, <4>3, RequestKeepsWitness
    <3>4. QED
      BY <3>1, <3>2, <3>3 DEF Rows
  <2>4. CASE ClearLink(r)
    <3>1. /\ pc[r] = "clearLink" /\ pc'[r] = "enqueue"
          /\ bookings'[b].status = bookings[b].status
          /\ bookings'[b].cancelledBy = bookings[b].cancelledBy
          /\ bookings[b] \in Rows
      BY <1>5, <2>4, ClearEffect DEF Rewrites
    <3>2. call[r].op = "rescheduleByClient"
      BY <3>1 DEF SentInv, SentInvOf
    <3>3. CASE bookings[b].status = "CONFIRMED"
      BY <1>5, <2>0, <2>a, <3>1, <3>2, <3>3 DEF Owes, KindOf
    <3>4. CASE bookings[b].status = "CANCELLED"
      <4>1. \A j \in Requests : Announces(j, b) => SaysTheSame(b, jobs[j].kind)
        BY <3>1, <3>4 DEF Announces, SaysTheSame
      <4>2. ~ Owes(r, b)
        BY <3>1, <3>4 DEF Owes
      <4>3. Exists(b)
        BY <3>1, RowUpdate DEF Exists
      <4>4. QED
        BY <1>1, <1>5, <3>1, <4>1, <4>2, <4>3, RequestKeepsWitness
    <3>5. QED
      BY <3>1, <3>3, <3>4 DEF Rows
  <2>5. CASE MarkCancelled(r)
    <3>1. pc[r] = "markCancelled" /\ pc'[r] = "enqueue" /\ bookings'[b].status = "CANCELLED"
      BY <1>5, <2>5, CancelEffect
    <3>2. call[r].op \in {"cancelByClient", "cancelByCoach"}
      BY <3>1 DEF SentInv, SentInvOf
    <3>3. QED
      BY <1>5, <2>0, <2>a, <3>1, <3>2 DEF Owes, KindOf
  <2>6. CASE DeleteEvent(r)
    <3>1. pc[r] = "deleteEvent" /\ pc'[r] = AfterDelete(call[r].op) /\ UNCHANGED bookings
      BY <2>6, DeleteEffect
    <3>2. ASSUME Owes(r, b) PROVE Announced(b)'
      <4>1. bookings[b].status = "CONFIRMED" /\ KindOf(call[r].op) # "cancelled"
        BY <3>1, <3>2 DEF Owes
      <4>2. call[r].op = "rescheduleByClient"
        BY <3>1, <4>1 DEF SentInv, SentInvOf, KindOf, AllOperations
      <4>3. QED
        BY <1>5, <2>0, <2>a, <3>1, <4>1, <4>2 DEF Owes, AfterDelete
    <3>3. QED
      BY <1>2, <3>1, <3>2 DEF Exists
  <2>7. CASE EnqueueNotification(r)
    <3>1. /\ pc[r] = "enqueue" /\ UNCHANGED <<bookings, worker>>
          /\ jobs'[r].state = "created" /\ jobs'[r].bookingId = b
          /\ jobs'[r].kind = KindOf(call[r].op) /\ jobs'[r] # NoJob
      BY <1>5, <2>7, EnqueueEffect, RequestCases
    <3>2. \A w \in Workers : Busy(w) => worker[w].job # r
      BY <3>1, BusyFacts DEF SentInv, SentInvOf
    <3>3. UpToDate(r)'
      BY <3>1, <3>2 DEF UpToDate, Busy
    <3>4. ASSUME Owes(r, b) PROVE Announced(b)'
      <4>1. KindOf(call[r].op) = "cancelled" <=> bookings[b].status = "CANCELLED"
        BY <3>1, <3>4 DEF Owes
      <4>2. Announces(r, b)'
        BY <3>1, <3>3, <4>1 DEF Announces
      <4>3. QED
        BY <4>2 DEF Announced
    <3>5. QED
      BY <1>2, <3>1, <3>4 DEF Exists
  <2>8. QED
    BY <1>5, <2>1, <2>2, <2>3, <2>4, <2>5, <2>6, <2>7, RequestCases
<1>6. ASSUME RequestStep(r) \/ RequestDies(r), claim[r].id # b PROVE bookings'[b] = bookings[b]
  BY <1>6, RequestCases, CreateEffect, RescheduleEffect, ClearEffect, CancelEffect,
     DeleteEffect, EnqueueEffect DEF Turns, Rewrites
<1>7. QED
  BY <1>3, <1>4, <1>5, <1>6

\* A job that the step is not about announces what it did.
LEMMA UntouchedAnnounces ==
  ASSUME IndInv, HandlerInv, NEW w \in Workers, NEW i \in Requests, NEW v, NEW job,
         Moves(w, v, i, job), MayHold(w, i), GoesOn(v, i, job),
         NEW j \in Requests \ {i}, NEW b \in Requests, Announces(j, b),
         SaysTheSame(b, jobs[j].kind)
  PROVE  Announces(j, b)'
<1>1. jobs'[j] = jobs[j] /\ mails'[j] = mails[j]
  BY DEF Moves, IndInv, TypeOK, StoreTypeOK
<1>2. ASSUME NEW u \in Workers, Busy(u)', worker'[u].job = j
      PROVE  Busy(u) /\ worker'[u] = worker[u]
  <2>1. worker'[u] = IF u = w THEN v ELSE worker[u]
    BY DEF Moves, IndInv, TypeOK, JobsTypeOK
  <2>2. u # w
    BY <1>2, <2>1 DEF GoesOn, Busy
  <2>3. QED
    BY <1>2, <2>1, <2>2 DEF Busy
<1>3. QED
  BY <1>1, <1>2, AnnouncesKept

\* The job that the step is about announces the booking afterwards, when the
\* attempt that has read the row tells what it says, and has told it if it is over.
LEMMA TouchedAnnounces ==
  ASSUME IndInv, HandlerInv, NEW w \in Workers, NEW j \in Requests, NEW v, NEW job,
         Moves(w, v, j, job), MayHold(w, j), GoesOn(v, j, job), NEW b \in Requests,
         jobs[j].bookingId = b, jobs[j].kind = "cancelled" <=> bookings'[b].status = "CANCELLED",
         v # IdleWorker /\ v.pc = "send" => Tells(Letter(job.kind, v.booking), job.kind, bookings'[b]),
         job.state = "completed" =>
            \A p \in Recipients : Tells(mails'[j][p], job.kind, bookings'[b])
  PROVE  Announces(j, b)'
<1>1. jobs'[j] = job /\ worker'[w] = v /\ job # NoJob /\ job.kind = jobs[j].kind
      /\ job.bookingId = b
  BY JobUpdate DEF Moves, IndInv, TypeOK, JobsTypeOK, StoreTypeOK
<1>2. \A u \in Workers \ {w} : worker'[u] = worker[u] /\ (Busy(u) => worker[u].job # j)
  BY MoveKeepsHandler
<1>3. \A u \in Workers : Busy(u)' /\ worker'[u].job = j => u = w
  BY <1>2 DEF Busy
<1>4. UpToDate(j)'
  BY <1>1, <1>3 DEF UpToDate, Busy
<1>5. QED
  BY <1>1, <1>4 DEF Announces

\* What the mail of a row says is true of that row.
LEMMA LetterTells ==
  ASSUME NEW kind, NEW row \in Rows, kind = "cancelled" => row.cancelledBy \in Cancellers
  PROVE  Tells(Letter(kind, row), kind, row)
BY DEF Tells, Letter, Cancellers

\* Every step of the queue keeps every booking announced or owed.
LEMMA JobsAnnounce ==
  ASSUME IndInv, HandlerInv, CancelledInv, AnnouncedInv, JobsStep, NEW b \in Requests, Exists(b)'
  PROVE  Announced(b)'
<1>1. Exists(b) /\ UNCHANGED <<claim, pc, call>> /\ bookings[b] \in Rows
  BY JobEffect DEF JobsStep, IndInv, Exists, bookingVars, TypeOK, StoreTypeOK
<1>2. /\ bookings'[b].status = bookings[b].status
      /\ bookings'[b].cancelledBy = bookings[b].cancelledBy
  BY <1>1, LinkOnly DEF Exists
<1>3. ASSUME NEW s \in Requests, Owes(s, b) PROVE Announced(b)'
  BY <1>1, <1>2, <1>3, OwesKept DEF Announced
<1>4. ASSUME NEW j \in Requests, Announces(j, b) PROVE Announced(b)'
  <2> DEFINE kind == jobs[j].kind
  <2>1. /\ jobs[j] # NoJob /\ jobs[j].bookingId = b /\ UpToDate(j)
        /\ kind = "cancelled" <=> bookings[b].status = "CANCELLED"
    BY <1>4 DEF Announces
  <2>a. ASSUME Announces(j, b)' PROVE Announced(b)'
    BY <2>a DEF Announced
  <2>2. ASSUME NEW w \in Workers, NEW i \in Requests, TakeJob(w, i) PROVE Announced(b)'
    <3> DEFINE v == worker'[w]
               job == jobs'[i]
    <3>1. /\ Moves(w, v, i, job) /\ ~ Busy(w) /\ v \in BusyWorkers /\ v.job = i
          /\ v.booking = bookings[jobs[i].bookingId] /\ job.state = "active"
          /\ v.pc # "send" => jobs[i].kind # "cancelled"
          /\ jobs[i].state \in {"created", "retry"} /\ UNCHANGED bookings
      BY <2>2, TakeEffect DEF NeedsMeetLink
    <3>2. MayHold(w, i) /\ GoesOn(v, i, job) /\ job.kind = jobs[i].kind
      BY <3>1 DEF MayHold, GoesOn, Moves
    <3>3. CASE i = j
      <4>1. kind = "cancelled" => bookings[b].cancelledBy \in Cancellers
        BY <2>1 DEF CancelledInv
      <4>2. Tells(Letter(kind, bookings[b]), kind, bookings[b])
        BY <1>1, <4>1, LetterTells
      <4>3. Announces(j, b)'
        BY <2>1, <3>1, <3>2, <3>3, <4>2, TouchedAnnounces
      <4>4. QED
        BY <2>a, <4>3
    <3>4. CASE i # j
      BY <1>4, <2>a, <3>1, <3>2, <3>4, UntouchedAnnounces DEF SaysTheSame
    <3>5. QED
      BY <3>3, <3>4
  <2>3. ASSUME NEW w \in Workers, CreateMeetEvent(w) \/ SaveMeetLink(w) PROVE Announced(b)'
    <3> DEFINE i == worker[w].job
               v == worker'[w]
    <3>1. /\ Moves(w, v, i, jobs[i]) /\ Busy(w) /\ v \in BusyWorkers /\ v.job = i
          /\ worker[w].pc # "send"
          /\ v.pc = "send" => SaveMeetLink(w)
          /\ SaveMeetLink(w) => v.pc = "send"
          /\ SaveMeetLink(w) => bookings' = [bookings EXCEPT ![jobs[i].bookingId] = v.booking]
          /\ CreateMeetEvent(w) => UNCHANGED bookings
      BY <2>3, EventEffect
    <3>2. /\ i \in Requests /\ jobs[i] \in Jobs /\ jobs[i].bookingId \in Requests
          /\ jobs[i].state = "active" /\ jobs[i].kind # "cancelled" /\ jobs[i] # NoJob
      BY <3>1, BusyFacts DEF HandlerInv
    <3>3. MayHold(w, i) /\ GoesOn(v, i, jobs[i])
      BY <3>1, <3>2 DEF MayHold, GoesOn
    <3>4. CASE jobs[i].bookingId = b /\ bookings[b].status = "CONFIRMED"
      <4>1. v.pc = "send" => bookings'[b] = v.booking
        BY <1>1, <3>1, <3>2, <3>4 DEF IndInv, TypeOK, StoreTypeOK
      <4>2. v.pc = "send" => Tells(Letter(jobs[i].kind, v.booking), jobs[i].kind, bookings'[b])
        BY <3>2, <4>1 DEF Tells
      <4>3. PICK k \in Requests : k = i
        BY <3>2
      <4>4. Announces(k, b)'
        BY <1>2, <3>1, <3>2, <3>3, <3>4, <4>2, <4>3, TouchedAnnounces
      <4>5. QED
        BY <4>4 DEF Announced
    <3>5. CASE jobs[i].bookingId = b /\ bookings[b].status = "CANCELLED"
      <4>1. kind = "cancelled" /\ j # i
        BY <2>1, <3>2, <3>5
      <4>2. SaysTheSame(b, kind)
        BY <1>2, <4>1 DEF SaysTheSame
      <4>3. QED
        BY <1>4, <2>a, <3>1, <3>2, <3>3, <4>1, <4>2, UntouchedAnnounces
    <3>6. CASE jobs[i].bookingId # b
      <4>1. j # i
        BY <2>1, <3>6
      <4>2. bookings'[b] = bookings[b]
        BY <2>3, <3>1, <3>2, <3>6 DEF IndInv, TypeOK, StoreTypeOK
      <4>3. SaysTheSame(b, kind)
        BY <4>2 DEF SaysTheSame
      <4>4. QED
        BY <1>4, <2>a, <3>1, <3>2, <3>3, <4>1, <4>3, UntouchedAnnounces
    <3>7. QED
      BY <1>1, <3>4, <3>5, <3>6 DEF Rows
  <2>4. ASSUME NEW w \in Workers,
               SendMails(w) \/ CreateMeetEventFails(w) \/ SendMailsFails(w) \/ KillWorker(w)
        PROVE  Announced(b)'
    <3> DEFINE i == worker[w].job
               job == jobs'[i]
    <3>1. Drops(w, i, job) /\ UNCHANGED bookings
      BY <2>4, DropEffect
    <3>2. /\ i \in Requests /\ jobs[i] \in Jobs /\ jobs[i].state = "active" /\ Busy(w)
          /\ Moves(w, IdleWorker, i, job) /\ job.kind = jobs[i].kind
      BY <3>1, BusyFacts DEF HandlerInv, Drops, Moves
    <3>3. MayHold(w, i) /\ GoesOn(IdleWorker, i, job)
      BY <3>1 DEF MayHold, GoesOn, Drops
    <3>4. CASE i = j
      <4>1. job.state = "completed" =>
              \A p \in Recipients : Tells(mails'[j][p], kind, bookings[b])
        <5>1. CASE SendMails(w)
          <6>1. /\ worker[w].pc = "send"
                /\ \A p \in Recipients : mails'[j][p] = Letter(kind, worker[w].booking)
            BY <3>4, <5>1, DropEffect
          <6>2. QED
            BY <2>1, <3>2, <3>4, <6>1 DEF UpToDate
        <5>2. CASE ~ SendMails(w)
          <6>1. job = FailedAttempt(jobs[i]) \/ job = jobs[i]
            BY <2>4, <5>2, DropEffect
          <6>2. job.state # "completed"
            BY <3>2, <6>1, FailEffect
          <6>3. QED
            BY <6>2
        <5>3. QED
          BY <5>1, <5>2
      <4>2. Announces(j, b)'
        BY <2>1, <3>1, <3>2, <3>3, <3>4, <4>1, TouchedAnnounces
      <4>3. QED
        BY <2>a, <4>2
    <3>5. CASE i # j
      <4>1. SaysTheSame(b, kind)
        BY <3>1 DEF SaysTheSame
      <4>2. Announces(j, b)'
        BY <1>4, <3>2, <3>3, <3>5, <4>1, UntouchedAnnounces
      <4>3. QED
        BY <2>a, <4>2
    <3>6. QED
      BY <3>4, <3>5
  <2>5. ASSUME NEW i \in Requests, ExpireJob(i) PROVE Announced(b)'
    <3>1. /\ jobs[i] \in Jobs /\ jobs' = [jobs EXCEPT ![i] = jobs'[i]]
          /\ jobs'[i] = FailedAttempt(jobs[i])
          /\ \A w \in Workers : Busy(w) => worker[w].job # i
          /\ UNCHANGED <<bookings, worker, mails>>
      BY <2>5, ExpireEffect
    <3>2. /\ jobs'[i] \in Jobs /\ jobs'[i].state # "completed"
          /\ jobs'[i].bookingId = jobs[i].bookingId /\ jobs'[i].kind = jobs[i].kind
      BY <3>1, FailEffect
    <3>3. CASE i = j
      <4>1. UpToDate(j)'
        BY <3>1, <3>2, <3>3 DEF UpToDate, Busy
      <4>2. jobs'[j] # NoJob
        BY <3>2, <3>3, JobUpdate
      <4>3. Announces(j, b)'
        BY <2>1, <3>1, <3>2, <3>3, <4>1, <4>2 DEF Announces
      <4>4. QED
        BY <2>a, <4>3
    <3>4. CASE i # j
      <4>1. jobs'[j] = jobs[j]
        BY <3>1, <3>4 DEF IndInv, TypeOK, StoreTypeOK
      <4>2. SaysTheSame(b, kind)
        BY <3>1 DEF SaysTheSame
      <4>3. Announces(j, b)'
        BY <1>4, <3>1, <4>1, <4>2, AnnouncesKept DEF Busy
      <4>4. QED
        BY <2>a, <4>3
    <3>5. QED
      BY <3>3, <3>4
  <2>6. QED
    BY <2>2, <2>3, <2>4, <2>5, JobSteps DEF JobsStep
<1>5. Announced(b)
  BY <1>1 DEF AnnouncedInv, Announced
<1>6. QED
  BY <1>3, <1>4, <1>5 DEF Announced

-------------------------------------------------------------------------------
(* The theorems about mails *)

\* MailInv is inductive on top of IndInv.
LEMMA MailInvKept ==
  ASSUME IndInv, MailInv, [Next]_vars
  PROVE  MailInv'
<1> USE DEF MailInv
<1>1. HandlerInv' /\ SentInv' /\ CancelledInv'
  BY HandlerInvKept, SentInvKept, CancelledInvKept
<1>2. CASE Idles
  <2>1. AnnouncedInv'
    BY <1>2 DEF Idles, AnnouncedInv, Owes, Announces, UpToDate, Busy, Exists
  <2>2. QED
    BY <1>1, <2>1
<1>3. ASSUME ~ Idles, NEW b \in Requests, Exists(b)' PROVE Announced(b)'
  BY <1>3, StepKinds, RequestAnnounces, JobsAnnounce
<1>4. ASSUME ~ Idles PROVE AnnouncedInv'
  BY <1>3, <1>4 DEF AnnouncedInv, Announced
<1>5. QED
  BY <1>1, <1>2, <1>4

\* It holds when nothing has been booked yet.
LEMMA MailInvInit ==
  ASSUME Init
  PROVE  MailInv
<1>1. HandlerInv
  BY DEF Init, JobsInit, HandlerInv, Busy
<1>2. SentInv
  BY DEF Init, StoreInit, BookingsInit, SentInv, SentInvOf, NoCall
<1>3. CancelledInv /\ AnnouncedInv
  BY DEF Init, StoreInit, CancelledInv, AnnouncedInv, Exists, Absent
<1>4. QED
  BY <1>1, <1>2, <1>3 DEF MailInv

\* In every reachable state one worker at most handles a job, and the present
\* state of every booking is announced by a job or is going to be.
THEOREM MailsInvariance == Spec => []MailInv
<1>1. Init => MailInv
  BY MailInvInit
<1>2. IndInv /\ MailInv /\ [Next]_vars => MailInv'
  BY MailInvKept
<1>3. QED
  BY <1>1, <1>2, Invariance, PTL DEF Spec

\* However moves, cancellations, retries, killed workers and dying requests
\* overlap: once everything begun for a CONFIRMED booking ended well, both parties
\* have been sent its present times and Meet link (process, ensureMeetLink).
THEOREM PresentStateMailed == Spec => []PresentStateIsMailed
<1>1. ASSUME IndInv, MailInv, NEW b \in Requests, Confirmed(b), Settled(b), NEW p \in Recipients
      PROVE  \E j \in JobsOf(b) : /\ jobs[j].kind # "cancelled"
                                  /\ mails[j][p] = Letter(jobs[j].kind, bookings[b])
  <2>1. Exists(b)
    BY <1>1 DEF Confirmed, Exists, Absent
  <2>2. \A r \in Requests : ~ Owes(r, b)
    BY <1>1 DEF Owes, Settled, Running
  <2>3. PICK j \in Requests : Announces(j, b)
    BY <1>1, <2>1, <2>2 DEF MailInv, AnnouncedInv
  <2>4. /\ j \in JobsOf(b) /\ jobs[j].kind # "cancelled" /\ jobs[j].bookingId = b
        /\ jobs[j].state = "completed" /\ UpToDate(j)
    BY <1>1, <2>3 DEF Announces, JobsOf, Settled, Confirmed
  <2>5. Tells(mails[j][p], jobs[j].kind, bookings[b])
    BY <1>1, <2>4 DEF UpToDate
  <2>6. QED
    BY <2>4, <2>5 DEF Tells
<1>2. IndInv /\ MailInv => PresentStateIsMailed
  BY <1>1 DEF PresentStateIsMailed
<1>3. QED
  BY <1>2, Invariance, MailsInvariance, PTL

\* However many cancellations race: once everything begun for a CANCELLED booking
\* ended well, both parties have been told of the canceller the row names
\* (applyCancellation, buildCancelled).
THEOREM CancellerMailed == Spec => []CancellerIsMailed
<1>1. ASSUME IndInv, MailInv, NEW b \in Requests, bookings[b].status = "CANCELLED", Settled(b),
             NEW p \in Recipients
      PROVE  \E j \in JobsOf(b) : /\ jobs[j].kind = "cancelled"
                                  /\ mails[j][p].cancelledBy = bookings[b].cancelledBy
  <2>1. Exists(b)
    BY <1>1 DEF Exists, Absent
  <2>2. \A r \in Requests : ~ Owes(r, b)
    BY <1>1 DEF Owes, Settled, Running
  <2>3. PICK j \in Requests : Announces(j, b)
    BY <1>1, <2>1, <2>2 DEF MailInv, AnnouncedInv
  <2>4. /\ j \in JobsOf(b) /\ jobs[j].kind = "cancelled" /\ jobs[j].bookingId = b
        /\ jobs[j].state = "completed" /\ UpToDate(j)
    BY <1>1, <2>3 DEF Announces, JobsOf, Settled
  <2>5. Tells(mails[j][p], jobs[j].kind, bookings[b])
    BY <1>1, <2>4 DEF UpToDate
  <2>6. QED
    BY <2>4, <2>5 DEF Tells
<1>2. IndInv /\ MailInv => CancellerIsMailed
  BY <1>1 DEF CancellerIsMailed
<1>3. QED
  BY <1>2, Invariance, MailsInvariance, PTL

\* A mail is not the mail that was never sent.
LEMMA LetterSent ==
  ASSUME NEW kind, NEW row
  PROVE  Letter(kind, row) # NoLetter
<1>1. Letter(kind, row).cancelledBy # "none"
  BY DEF Letter
<1>2. QED
  BY <1>1 DEF NoLetter

\* A job that was completed is not touched again.
LEMMA DeliveredKept ==
  ASSUME IndInv, MailInv, CompletedMeansDelivered, [Next]_vars
  PROVE  CompletedMeansDelivered'
<1> USE DEF MailInv
<1>1. ASSUME NEW j \in Requests, jobs'[j].state = "completed", jobs[j].state = "completed",
             mails'[j] = mails[j], NEW p \in Recipients
      PROVE  mails'[j][p] # NoLetter
  BY <1>1 DEF CompletedMeansDelivered
<1>2. ASSUME UNCHANGED mails,
             \A j \in Requests : jobs'[j].state = "completed" => jobs[j].state = "completed"
      PROVE  CompletedMeansDelivered'
  BY <1>1, <1>2 DEF CompletedMeansDelivered
<1>3. CASE Idles
  BY <1>2, <1>3 DEF Idles
<1>4. ASSUME NEW r \in Requests, StartRequest(r) PROVE CompletedMeansDelivered'
  BY <1>2, <1>4, StartEffect
<1>5. ASSUME NEW r \in Requests, RequestStep(r) \/ RequestDies(r) PROVE CompletedMeansDelivered'
  <2>1. UNCHANGED mails
    BY <1>5, RequestCases
  <2>2. UNCHANGED jobs \/ EnqueueNotification(r)
    BY <1>5, RequestCases, RescheduleEffect, ClearEffect, CancelEffect, CreateEffect,
       DeleteEffect DEF Turns, Rewrites
  <2>3. QED
    BY <1>2, <2>1, <2>2, EnqueueEffect
<1>6. CASE JobsStep
  <2>1. ASSUME NEW w \in Workers, NEW i \in Requests, TakeJob(w, i) PROVE CompletedMeansDelivered'
    <3>1. /\ Moves(w, worker'[w], i, jobs'[i]) /\ jobs'[i].state = "active" /\ UNCHANGED mails
      BY <2>1, TakeEffect
    <3>2. QED
      BY <1>2, <3>1 DEF Moves, IndInv, TypeOK, StoreTypeOK
  <2>2. ASSUME NEW w \in Workers, CreateMeetEvent(w) \/ SaveMeetLink(w)
        PROVE  CompletedMeansDelivered'
    BY <1>2, <2>2, EventEffect
  <2>3. ASSUME NEW w \in Workers,
               SendMails(w) \/ CreateMeetEventFails(w) \/ SendMailsFails(w) \/ KillWorker(w)
        PROVE  CompletedMeansDelivered'
    <3> DEFINE i == worker[w].job
    <3>1. /\ Moves(w, IdleWorker, i, jobs'[i]) /\ Busy(w) /\ i \in Requests /\ jobs[i] \in Jobs
          /\ jobs[i].state = "active"
      BY <2>3, DropEffect, BusyFacts DEF Drops, HandlerInv
    <3>2. \A j \in Requests \ {i} : jobs'[j] = jobs[j] /\ mails'[j] = mails[j]
      BY <3>1 DEF Moves, IndInv, TypeOK, StoreTypeOK
    <3>3. jobs'[i].state = "completed" => \A p \in Recipients : mails'[i][p] # NoLetter
      <4>1. CASE SendMails(w)
        BY <4>1, DropEffect, LetterSent
      <4>2. CASE ~ SendMails(w)
        <5>1. jobs'[i] = FailedAttempt(jobs[i]) \/ jobs'[i] = jobs[i]
          BY <2>3, <4>2, DropEffect
        <5>2. QED
          BY <3>1, <5>1, FailEffect
      <4>3. QED
        BY <4>1, <4>2
    <3>4. QED
      BY <1>1, <3>1, <3>2, <3>3 DEF CompletedMeansDelivered
  <2>4. ASSUME NEW i \in Requests, ExpireJob(i) PROVE CompletedMeansDelivered'
    <3>1. /\ jobs[i] \in Jobs /\ jobs' = [jobs EXCEPT ![i] = jobs'[i]]
          /\ jobs'[i] = FailedAttempt(jobs[i]) /\ UNCHANGED mails
      BY <2>4, ExpireEffect
    <3>2. jobs'[i].state # "completed"
      BY <3>1, FailEffect
    <3>3. QED
      BY <1>2, <3>1, <3>2 DEF IndInv, TypeOK, StoreTypeOK
  <2>5. QED
    BY <1>6, <2>1, <2>2, <2>3, <2>4, JobSteps DEF JobsStep
<1>7. QED
  BY <1>3, <1>4, <1>5, <1>6, StepKinds

\* pg-boss counts a job as completed only after both its mails went out, whatever
\* earlier attempts sent, failed on or were killed in (process()).
THEOREM CompletedJobsDelivered == Spec => []CompletedMeansDelivered
<1>1. Init => CompletedMeansDelivered
  BY DEF Init, StoreInit, CompletedMeansDelivered, NoJob
<1>2. IndInv /\ MailInv /\ CompletedMeansDelivered /\ [Next]_vars => CompletedMeansDelivered'
  BY DeliveredKept
<1>3. QED
  BY <1>1, <1>2, Invariance, MailsInvariance, PTL DEF Spec

-------------------------------------------------------------------------------
(* Links and events *)

\* The parts of an event id.
LEMMA EventParts ==
  ASSUME NEW e \in EventIds
  PROVE  e[1] \in Requests /\ e[2] \in Nat /\ e = <<e[1], e[2]>>
BY DEF EventIds

\* Attempts are counted from 0.
LEMMA RetryCounts ==
  ASSUME NEW job \in Jobs
  PROVE  job.retryCount \in Nat /\ job # NoJob
<1>1. job.retryCount \in 0 .. RetryLimit /\ job # NoJob
  BY JobUpdate
<1>2. QED
  BY <1>1

\* The id of the event an attempt inserts.
LEMMA EventOfParts ==
  ASSUME NEW j \in Requests, jobs[j] \in Jobs
  PROVE  EventOf(j) \in EventIds /\ EventOf(j)[1] = j /\ EventOf(j)[2] = jobs[j].retryCount
<1>1. jobs[j].retryCount \in 0 .. RetryLimit
  BY JobUpdate
<1>2. QED
  BY <1>1 DEF EventOf, EventIds

\* A step of a request leaves the jobs that were sent alone.
LEMMA RequestKeepsJobs ==
  ASSUME IndInv, SentInv, NEW r \in Requests, StartRequest(r) \/ RequestStep(r) \/ RequestDies(r)
  PROVE  UNCHANGED <<worker, mails>> /\ \A j \in Requests : jobs[j] # NoJob => jobs'[j] = jobs[j]
<1>1. UNCHANGED <<worker, mails>>
  BY StartEffect, RequestCases
<1>2. CASE UNCHANGED jobs
  BY <1>1, <1>2
<1>3. CASE EnqueueNotification(r)
  <2>1. jobs[r] = NoJob /\ \A j \in Requests \ {r} : jobs'[j] = jobs[j]
    BY <1>3, EnqueueEffect DEF SentInv, SentInvOf
  <2>2. QED
    BY <1>1, <2>1
<1>4. QED
  BY <1>2, <1>3, StartEffect, RequestCases, RescheduleEffect, ClearEffect, CancelEffect,
     CreateEffect, DeleteEffect DEF Turns, Rewrites

\* An event that is spent stays spent while its job and the job's holders do not change.
LEMMA SpentUntouched ==
  ASSUME NEW e \in EventIds, Spent(e), jobs'[e[1]] = jobs[e[1]],
         \A w \in Workers : Busy(w)' /\ worker'[w].job = e[1] => Busy(w) /\ worker'[w] = worker[w]
  PROVE  Spent(e)'
BY DEF Spent

\* The step that is about its own job keeps an event spent, too.
LEMMA SpentTouched ==
  ASSUME IndInv, HandlerInv, NEW w \in Workers, NEW j \in Requests, NEW v, NEW job,
         Moves(w, v, j, job), MayHold(w, j), GoesOn(v, j, job), jobs[j] \in Jobs,
         NEW e \in EventIds, e[1] = j, Spent(e),
         \/ job.retryCount = jobs[j].retryCount /\ e[2] < jobs[j].retryCount
         \/ job.retryCount = jobs[j].retryCount + 1
         \/ /\ job.retryCount = jobs[j].retryCount /\ v = IdleWorker
            /\ job.state \notin {"created", "retry"}
  PROVE  Spent(e)'
<1>1. jobs'[j] = job /\ worker'[w] = v /\ job # NoJob /\ job.retryCount \in Nat
  BY RetryCounts DEF Moves, IndInv, TypeOK, JobsTypeOK, StoreTypeOK
<1>2. \A u \in Workers : Busy(u)' /\ worker'[u].job = j => u = w
  BY MoveKeepsHandler DEF Busy
<1>3. jobs[j].retryCount \in Nat /\ e[2] \in Nat /\ e[2] <= jobs[j].retryCount
  <2>1. jobs[j].retryCount \in Nat /\ e[2] \in Nat
    BY RetryCounts, EventParts
  <2>2. e[2] < jobs[j].retryCount \/ e[2] = jobs[j].retryCount
    BY DEF Spent
  <2>3. QED
    BY <2>1, <2>2
<1>4. CASE e[2] < job.retryCount
  BY <1>1, <1>4 DEF Spent
<1>5. CASE /\ job.retryCount = jobs[j].retryCount /\ v = IdleWorker
           /\ job.state \notin {"created", "retry"}
  <2>1. \A u \in Workers : ~ (Busy(u)' /\ worker'[u].job = j)
    BY <1>1, <1>2, <1>5 DEF Busy
  <2>2. e[2] < job.retryCount \/ e[2] = job.retryCount
    BY <1>3, <1>5
  <2>3. QED
    BY <1>1, <1>5, <2>1, <2>2 DEF Spent
<1>6. job.retryCount = jobs[j].retryCount + 1 => e[2] < job.retryCount
  BY <1>3
<1>7. QED
  BY <1>4, <1>5, <1>6

\* The queue keeps a spent event spent.
LEMMA JobsKeepSpent ==
  ASSUME IndInv, HandlerInv, JobsStep, NEW e \in EventIds, Spent(e)
  PROVE  Spent(e)'
<1> DEFINE j == e[1]
<1>0. j \in Requests /\ jobs[j] # NoJob /\ jobs[j] \in Jobs /\ jobs[j].retryCount \in Nat
      /\ e[2] \in Nat
  BY EventParts, RetryCounts DEF Spent, IndInv, TypeOK, StoreTypeOK
<1>1. ASSUME NEW w \in Workers, NEW i \in Requests, NEW v, NEW job, i # j,
             Moves(w, v, i, job), GoesOn(v, i, job)
      PROVE  Spent(e)'
  <2>1. jobs'[j] = jobs[j]
    BY <1>0, <1>1 DEF Moves, IndInv, TypeOK, StoreTypeOK
  <2>2. ASSUME NEW u \in Workers, Busy(u)', worker'[u].job = j
        PROVE  Busy(u) /\ worker'[u] = worker[u]
    <3>1. worker'[u] = IF u = w THEN v ELSE worker[u]
      BY <1>1 DEF Moves, IndInv, TypeOK, JobsTypeOK
    <3>2. u # w
      BY <1>1, <2>2, <3>1 DEF GoesOn, Busy
    <3>3. QED
      BY <2>2, <3>1, <3>2 DEF Busy
  <2>3. QED
    BY <2>1, <2>2, SpentUntouched
<1>2. ASSUME NEW w \in Workers, NEW i \in Requests, TakeJob(w, i) PROVE Spent(e)'
  <2>1. /\ Moves(w, worker'[w], i, jobs'[i]) /\ ~ Busy(w) /\ worker'[w] \in BusyWorkers
        /\ worker'[w].job = i /\ jobs'[i].state = "active"
        /\ jobs'[i].retryCount = jobs[i].retryCount /\ jobs[i].state \in {"created", "retry"}
        /\ worker'[w].pc # "send" => jobs[i].kind # "cancelled"
    BY <1>2, TakeEffect DEF NeedsMeetLink
  <2>2. MayHold(w, i) /\ GoesOn(worker'[w], i, jobs'[i])
    BY <2>1 DEF MayHold, GoesOn, Moves
  <2>3. CASE i = j
    <3>1. e[2] < jobs[i].retryCount
      BY <2>1, <2>3 DEF Spent
    <3>2. QED
      BY <1>0, <2>1, <2>2, <2>3, <3>1, SpentTouched
  <2>4. QED
    BY <1>1, <2>1, <2>2, <2>3
<1>3. ASSUME NEW w \in Workers, CreateMeetEvent(w) \/ SaveMeetLink(w) PROVE Spent(e)'
  <2> DEFINE i == worker[w].job
  <2>1. /\ Moves(w, worker'[w], i, jobs[i]) /\ Busy(w) /\ worker'[w] \in BusyWorkers
        /\ worker'[w].job = i /\ worker[w].pc # "send"
    BY <1>3, EventEffect
  <2>2. i \in Requests /\ jobs[i].state = "active" /\ jobs[i].kind # "cancelled"
    BY <2>1, BusyFacts DEF HandlerInv
  <2>3. MayHold(w, i) /\ GoesOn(worker'[w], i, jobs[i])
    BY <2>1, <2>2 DEF MayHold, GoesOn
  <2>4. CASE i = j
    <3>1. e[2] < jobs[j].retryCount
      BY <2>1, <2>4 DEF Spent
    <3>2. QED
      BY <1>0, <2>1, <2>3, <2>4, <3>1, SpentTouched
  <2>5. QED
    BY <1>1, <2>1, <2>2, <2>3, <2>4
<1>4. ASSUME NEW w \in Workers,
             SendMails(w) \/ CreateMeetEventFails(w) \/ SendMailsFails(w) \/ KillWorker(w)
      PROVE  Spent(e)'
  <2> DEFINE i == worker[w].job
  <2>1. /\ Moves(w, IdleWorker, i, jobs'[i]) /\ Busy(w) /\ i \in Requests /\ jobs[i] \in Jobs
        /\ jobs[i].state = "active"
    BY <1>4, DropEffect, BusyFacts DEF Drops, HandlerInv
  <2>2. MayHold(w, i) /\ GoesOn(IdleWorker, i, jobs'[i])
    BY <2>1 DEF MayHold, GoesOn
  <2>3. \/ jobs'[i].retryCount = jobs[i].retryCount + 1
        \/ /\ jobs'[i].retryCount = jobs[i].retryCount
           /\ jobs'[i].state \notin {"created", "retry"}
    <3>1. CASE SendMails(w)
      BY <3>1, DropEffect
    <3>2. CASE ~ SendMails(w)
      <4>1. jobs'[i] = FailedAttempt(jobs[i]) \/ jobs'[i] = jobs[i]
        BY <1>4, <3>2, DropEffect
      <4>2. QED
        BY <2>1, <4>1, FailEffect
    <3>3. QED
      BY <3>1, <3>2
  <2>4. CASE i = j
    BY <1>0, <2>1, <2>2, <2>3, <2>4, SpentTouched
  <2>5. QED
    BY <1>1, <2>1, <2>2, <2>4
<1>5. ASSUME NEW i \in Requests, ExpireJob(i) PROVE Spent(e)'
  <2>1. /\ jobs[i] \in Jobs /\ jobs' = [jobs EXCEPT ![i] = jobs'[i]]
        /\ jobs'[i] = FailedAttempt(jobs[i])
        /\ \A w \in Workers : Busy(w) => worker[w].job # i
        /\ UNCHANGED worker
    BY <1>5, ExpireEffect
  <2>2. CASE i = j
    <3>1. /\ jobs'[j] # NoJob
          /\ \/ jobs'[j].retryCount = jobs[j].retryCount + 1
             \/ /\ jobs'[j].retryCount = jobs[j].retryCount /\ jobs'[j].state = "failed"
      <4>1. jobs[j] \in Jobs /\ jobs'[j] = FailedAttempt(jobs[j])
        BY <2>1, <2>2
      <4>2. jobs'[j] \in Jobs
        BY <4>1, FailEffect
      <4>3. jobs'[j] # NoJob
        BY <4>2, JobUpdate
      <4>4. QED
        BY <4>1, <4>3, FailEffect
    <3>2. e[2] < jobs[j].retryCount \/ e[2] = jobs[j].retryCount
      BY DEF Spent
    <3>3. e[2] < jobs'[j].retryCount \/ (e[2] = jobs'[j].retryCount /\ jobs'[j].state = "failed")
      BY <1>0, <3>1, <3>2
    <3>4. \A w \in Workers : ~ (Busy(w)' /\ worker'[w].job = j)
      BY <2>1, <2>2 DEF Busy
    <3>5. QED
      BY <3>1, <3>3, <3>4 DEF Spent
  <2>3. CASE i # j
    <3>1. jobs'[j] = jobs[j]
      BY <1>0, <2>1, <2>3 DEF IndInv, TypeOK, StoreTypeOK
    <3>2. QED
      BY <2>1, <3>1, SpentUntouched DEF Busy
  <2>4. QED
    BY <2>2, <2>3
<1>6. QED
  BY <1>2, <1>3, <1>4, <1>5, JobSteps DEF JobsStep

\* An event that was saved for a booking stays so.
LEMMA SavedKept ==
  ASSUME IndInv, MailInv, [Next]_vars, NEW e \in EventIds, NEW b, SavedFor(e, b)
  PROVE  Spent(e)' /\ jobs'[e[1]].bookingId = b
<1> USE DEF MailInv
<1>1. Spent(e) /\ jobs[e[1]] # NoJob /\ jobs[e[1]].bookingId = b /\ e[1] \in Requests
  BY EventParts DEF SavedFor, Spent
<1>2. ASSUME jobs'[e[1]] = jobs[e[1]], UNCHANGED worker
      PROVE  Spent(e)' /\ jobs'[e[1]].bookingId = b
  BY <1>1, <1>2, SpentUntouched DEF Busy
<1>3. CASE Idles
  BY <1>2, <1>3 DEF Idles
<1>4. ASSUME NEW r \in Requests, StartRequest(r) \/ RequestStep(r) \/ RequestDies(r)
      PROVE  Spent(e)' /\ jobs'[e[1]].bookingId = b
  BY <1>1, <1>2, <1>4, RequestKeepsJobs
<1>5. CASE JobsStep
  BY <1>1, <1>5, JobsKeepSpent, JobsKeepSubject
<1>6. QED
  BY <1>3, <1>4, <1>5, StepKinds

\* Requests write no link: one they leave on a row was there before.
LEMMA LinkHistory ==
  ASSUME IndInv, NEW r \in Requests, StartRequest(r) \/ RequestStep(r) \/ RequestDies(r),
         NEW b \in Requests, Exists(b)', bookings'[b].googleEventId # NoEvent
  PROVE  /\ Exists(b) /\ bookings'[b].googleEventId = bookings[b].googleEventId
         /\ Confirmed(b)' => Confirmed(b)
<1>1. ASSUME bookings'[b] = bookings[b] PROVE
         /\ Exists(b) /\ bookings'[b].googleEventId = bookings[b].googleEventId
         /\ Confirmed(b)' => Confirmed(b)
  BY <1>1 DEF Exists, Confirmed
<1>2. CASE UNCHANGED bookings
  BY <1>1, <1>2
<1>3. CASE CommitCreate(r)
  BY <1>1, <1>3, CreateEffect
<1>4. CASE CommitReschedule(r)
  BY <1>1, <1>4, RescheduleEffect, RowUpdate DEF Rewrites, Exists, Confirmed
<1>5. CASE ClearLink(r)
  BY <1>1, <1>5, ClearEffect DEF Rewrites
<1>6. CASE MarkCancelled(r)
  BY <1>1, <1>6, CancelEffect, RowUpdate DEF Rewrites, Exists, Confirmed
<1>7. QED
  BY <1>2, <1>3, <1>4, <1>5, <1>6, RequestCases, StartEffect, DeleteEffect, EnqueueEffect DEF Turns

\* The queue deletes no event; a worker that has created one finds it live.
LEMMA EventsGrow ==
  ASSUME IndInv, JobsStep
  PROVE  /\ \A e \in EventIds : events'[e] = events[e] \/ events'[e].state = "live"
         /\ \A w \in Workers : CreateMeetEvent(w) => events'[EventOf(worker[w].job)].state = "live"
<1>1. ASSUME NEW w \in Workers, Busy(w),
             InsertEvent(EventOf(worker[w].job), worker[w].booking)
      PROVE  /\ \A e \in EventIds : events'[e] = events[e] \/ events'[e].state = "live"
             /\ events'[EventOf(worker[w].job)].state = "live"
  <2>1. EventOf(worker[w].job) \in EventIds
    BY <1>1, BusyFacts, EventOfParts
  <2>2. events \in [EventIds -> Events]
    BY DEF IndInv, TypeOK, StoreTypeOK
  <2>3. QED
    BY <1>1, <2>1, <2>2 DEF InsertEvent
<1>2. ASSUME NEW w \in Workers, CreateMeetEvent(w) \/ CreateMeetEventFails(w), ~ UNCHANGED events
      PROVE  Busy(w) /\ InsertEvent(EventOf(worker[w].job), worker[w].booking)
  BY <1>2, StepIsBusy DEF WorkerStep, CreateMeetEvent, CreateMeetEventFails
<1>3. ASSUME NEW w \in Workers, CreateMeetEvent(w)
      PROVE  Busy(w) /\ InsertEvent(EventOf(worker[w].job), worker[w].booking)
  BY <1>3, StepIsBusy DEF WorkerStep, CreateMeetEvent
<1>4. \/ UNCHANGED events
      \/ \E w \in Workers : CreateMeetEvent(w) \/ CreateMeetEventFails(w)
  BY JobSteps, TakeEffect, EventEffect, ExpireEffect
     DEF JobsStep, SendMails, SendMailsFails, KillWorker
<1>5. QED
  BY <1>1, <1>2, <1>3, <1>4

\* Saving a link: the event it names is spent, and the booking's own.
LEMMA SaveSpends ==
  ASSUME IndInv, HandlerInv, NEW w \in Workers, SaveMeetLink(w)
  PROVE  \E e \in EventIds, b \in Requests :
            /\ e = EventOf(worker[w].job) /\ b = jobs[worker[w].job].bookingId
            /\ Spent(e)' /\ jobs'[e[1]].bookingId = b
            /\ bookings'[b].googleEventId = e
            /\ UNCHANGED events /\ At(w, "saveLink")
<1> DEFINE j == worker[w].job
           e == EventOf(j)
           b == jobs[j].bookingId
<1>1. /\ Moves(w, worker'[w], j, jobs[j]) /\ Busy(w) /\ worker'[w] \in BusyWorkers
      /\ worker'[w].job = j /\ worker'[w].pc = "send" /\ worker[w].pc = "saveLink"
      /\ bookings' = [bookings EXCEPT ![b] = [bookings[b] EXCEPT !.googleEventId = e]]
      /\ UNCHANGED <<jobs, events>>
  BY EventEffect
<1>2. /\ j \in Requests /\ jobs[j] \in Jobs /\ b \in Requests /\ bookings[b] \in Rows
      /\ jobs[j].state = "active" /\ jobs[j] # NoJob
  BY <1>1, BusyFacts DEF HandlerInv
<1>3. e \in EventIds /\ e[1] = j /\ e[2] = jobs[j].retryCount
  BY <1>2, EventOfParts
<1>4. MayHold(w, j)
  BY <1>1 DEF MayHold
<1>5. \A u \in Workers \ {w} : Busy(u) => worker[u].job # j
  BY <1>2, <1>4, OneHolder
<1>6. \A u \in Workers \ {w} : worker'[u] = worker[u]
  BY <1>1 DEF Moves, IndInv, TypeOK, JobsTypeOK
<1>7. \A u \in Workers : Busy(u)' /\ worker'[u].job = j => worker'[u].pc = "send"
  BY <1>1, <1>5, <1>6 DEF Busy
<1>8. PICK f \in EventIds : f = e
  BY <1>3
<1>9. Spent(f)'
  BY <1>1, <1>2, <1>3, <1>7, <1>8 DEF Spent
<1>10. bookings'[b].googleEventId = e
  <2>1. bookings'[b] = [bookings[b] EXCEPT !.googleEventId = e]
    BY <1>1, <1>2 DEF IndInv, TypeOK, StoreTypeOK
  <2>2. QED
    BY <1>2, <2>1 DEF Rows
<1>11. At(w, "saveLink") /\ jobs'[f[1]].bookingId = b
  BY <1>1, <1>3, <1>8 DEF At
<1>12. QED
  BY <1>1, <1>2, <1>8, <1>9, <1>10, <1>11

\* A row that exists and links an event links one of the events there can be.
LEMMA LinkType ==
  ASSUME IndInv, NEW b \in Requests, Exists(b), bookings[b].googleEventId # NoEvent
  PROVE  bookings[b] \in Rows /\ bookings[b].googleEventId \in EventIds
<1>1. bookings[b] \in Rows
  BY DEF Exists, IndInv, TypeOK, StoreTypeOK
<1>2. QED
  BY <1>1, RowUpdate

\* NamedInv is kept by every step.
LEMMA NamedInvKept ==
  ASSUME IndInv, MailInv, NamedInv, [Next]_vars
  PROVE  NamedInv'
<1> USE DEF MailInv
<1>1. ASSUME NEW b \in Requests, NEW e \in EventIds, Exists(b), bookings[b].googleEventId = e
      PROVE  SavedFor(e, b)'
  <2>1. SavedFor(e, b)
    BY <1>1, NoEventAssumption DEF NamedInv
  <2>2. QED
    BY <2>1, SavedKept DEF SavedFor
<1>2. ASSUME NEW r \in Requests, NEW e \in EventIds, pc[r] \in Unlinking,
             call[r].googleEventId = e, NEW b, claim[r].id = b
      PROVE  Spent(e)' /\ jobs'[e[1]].bookingId = b
  <2>1. SavedFor(e, b)
    BY <1>2, NoEventAssumption DEF NamedInv
  <2>2. QED
    BY <2>1, SavedKept
<1>3. ASSUME NEW b \in Requests, Exists(b)', bookings'[b].googleEventId # NoEvent
      PROVE  \E e \in EventIds : e = bookings'[b].googleEventId /\ SavedFor(e, b)'
  <2>1. CASE Exists(b) /\ bookings'[b].googleEventId = bookings[b].googleEventId
    BY <1>1, <1>3, <2>1, LinkType
  <2>2. CASE Idles
    BY <1>3, <2>1, <2>2 DEF Idles, Exists
  <2>3. ASSUME NEW r \in Requests, StartRequest(r) \/ RequestStep(r) \/ RequestDies(r)
        PROVE  Exists(b) /\ bookings'[b].googleEventId = bookings[b].googleEventId
    BY <1>3, <2>3, LinkHistory
  <2>4. CASE JobsStep
    <3>1. Exists(b)
      BY <1>3, <2>4, JobEffect DEF JobsStep, IndInv, Exists
    <3>2. CASE bookings'[b] = bookings[b]
      BY <2>1, <3>1, <3>2
    <3>3. ASSUME NEW w \in Workers, SaveMeetLink(w), jobs[worker[w].job].bookingId = b
          PROVE  \E e \in EventIds : e = bookings'[b].googleEventId /\ SavedFor(e, b)'
      BY <3>3, SaveSpends DEF SavedFor
    <3>4. QED
      BY <2>4, <3>1, <3>2, <3>3, LinkOnly DEF Exists
  <2>5. QED
    BY <2>1, <2>2, <2>3, <2>4, StepKinds
<1>4. ASSUME NEW s \in Requests, pc'[s] \in Unlinking, call'[s].googleEventId # NoEvent
      PROVE  SavedFor(call[s].googleEventId, claim[s].id)'
  <2>0. call \in [Requests -> Calls]
    BY DEF IndInv, TypeOK, BookingsTypeOK
  <2>1. CASE pc[s] \in Unlinking /\ claim'[s] = claim[s] /\ call'[s] = call[s]
    <3>1. call[s].googleEventId \in EventIds
      BY <1>4, <2>0, <2>1 DEF Calls
    <3>2. Spent(call[s].googleEventId)' /\ jobs'[call'[s].googleEventId[1]].bookingId = claim[s].id
      <4>1. PICK e \in EventIds : e = call[s].googleEventId
        BY <3>1
      <4>2. Spent(e)' /\ jobs'[e[1]].bookingId = claim[s].id
        BY <1>2, <2>1, <4>1
      <4>3. call'[s].googleEventId = e
        BY <2>1, <4>1
      <4>4. QED
        BY <4>2, <4>3 DEF Spent
    <3>3. QED
      BY <2>1, <3>2 DEF SavedFor
  <2>2. CASE Idles \/ JobsStep
    BY <1>4, <2>1, <2>2, JobsKeepSubject DEF Idles
  <2>3. ASSUME NEW b \in Requests, Exists(b), claim'[s].id = b,
               call'[s].googleEventId = bookings[b].googleEventId
        PROVE  SavedFor(call[s].googleEventId, claim[s].id)'
    <3>1. PICK e \in EventIds : e = bookings[b].googleEventId
      BY <1>4, <2>3, LinkType
    <3>2. Spent(e)' /\ jobs'[e[1]].bookingId = b
      BY <1>1, <2>3, <3>1 DEF SavedFor
    <3>3. call'[s].googleEventId = e
      BY <2>3, <3>1
    <3>4. QED
      BY <2>3, <3>2, <3>3 DEF SavedFor, Spent
  <2>4. ASSUME NEW r \in Requests, StartRequest(r)
        PROVE  SavedFor(call[s].googleEventId, claim[s].id)'
    <3>1. CASE s # r
      BY <1>4, <2>1, <2>4, <3>1, StartEffect
    <3>2. CASE s = r
      <4>1. /\ claim'[s].id \in Requests /\ bookings[claim'[s].id] \in Rows
            /\ call'[s].googleEventId = bookings[claim'[s].id].googleEventId
        BY <1>4, <2>4, <3>2, StartEffect DEF Unlinking
      <4>2. Exists(claim'[s].id)
        BY <4>1, RowUpdate DEF Exists
      <4>3. QED
        BY <2>3, <4>1, <4>2
    <3>3. QED
      BY <3>1, <3>2
  <2>5. ASSUME NEW r \in Requests, RequestStep(r) \/ RequestDies(r)
        PROVE  SavedFor(call[s].googleEventId, claim[s].id)'
    <3>0. UNCHANGED claim
      BY <2>5, RequestCases
    <3>1. CASE s # r
      BY <1>4, <2>1, <2>5, <3>1, RequestCases
    <3>2. CASE s = r /\ DeleteEvent(r)
      BY <2>1, <3>0, <3>2, DeleteEffect DEF Unlinking
    <3>3. CASE s = r /\ CommitReschedule(r)
      <4>1. /\ call'[s].googleEventId = bookings[claim[s].id].googleEventId
            /\ claim[s].id \in Requests /\ bookings[claim[s].id] \in Rows
        BY <3>3, RescheduleEffect DEF Rewrites
      <4>2. Exists(claim[s].id)
        BY <4>1, RowUpdate DEF Exists
      <4>3. QED
        BY <2>3, <3>0, <4>1, <4>2
    <3>4. ASSUME s = r, ~ DeleteEvent(r), ~ CommitReschedule(r) PROVE FALSE
      BY <1>4, <2>5, <3>4, RequestCases, CreateEffect, ClearEffect, CancelEffect, EnqueueEffect
         DEF Turns, Reserving, Unlinking
    <3>5. QED
      BY <3>1, <3>2, <3>3, <3>4
  <2>6. QED
    BY <2>2, <2>4, <2>5, StepKinds
<1>5. ASSUME NEW b \in Requests, Exists(b)', bookings'[b].googleEventId # NoEvent
      PROVE  SavedFor(bookings[b].googleEventId, b)'
  <2>1. PICK e \in EventIds : e = bookings'[b].googleEventId /\ SavedFor(e, b)'
    BY <1>3, <1>5
  <2>2. QED
    BY <2>1 DEF SavedFor, Spent
<1>6. QED
  BY <1>4, <1>5 DEF NamedInv

\* The event of an attempt that has not saved its link yet is not spent.
LEMMA SavingNotSpent ==
  ASSUME IndInv, NEW w \in Workers, At(w, "saveLink")
  PROVE  /\ Busy(w) /\ worker[w].job \in Requests /\ jobs[worker[w].job] \in Jobs
         /\ EventOf(worker[w].job) \in EventIds
         /\ ~ Spent(EventOf(worker[w].job))
<1> DEFINE j == worker[w].job
           e == EventOf(j)
<1>1. Busy(w)
  BY DEF At, Busy, IdleWorker
<1>2. j \in Requests /\ jobs[j] \in Jobs
  BY <1>1, BusyFacts
<1>3. e \in EventIds /\ e[1] = j /\ e[2] = jobs[j].retryCount /\ jobs[j].retryCount \in Nat
  BY <1>2, EventOfParts, RetryCounts
<1>4. ~ (e[2] < jobs[j].retryCount)
  BY <1>3
<1>5. ~ Spent(e)
  BY <1>1, <1>3, <1>4 DEF Spent, At
<1>6. QED
  BY <1>1, <1>2, <1>3, <1>5

\* What a request deletes is spent, so it is not about to be linked.
LEMMA SavingInvKept ==
  ASSUME IndInv, MailInv, NamedInv, SavingInv, [Next]_vars
  PROVE  SavingInv'
<1> USE DEF MailInv
<1>1. ASSUME NEW w \in Workers, At(w, "saveLink"), worker'[w] = worker[w],
             jobs'[worker[w].job] = jobs[worker[w].job],
             LET e == EventOf(worker[w].job)
             IN events'[e] = events[e] \/ events'[e].state = "live"
      PROVE  events'[EventOf(worker[w].job)'].state = "live"
  <2>1. events[EventOf(worker[w].job)].state = "live"
    BY <1>1 DEF SavingInv
  <2>2. EventOf(worker[w].job)' = EventOf(worker[w].job)
    BY <1>1 DEF EventOf
  <2>3. QED
    BY <1>1, <2>1, <2>2
<1>2. CASE Idles
  BY <1>1, <1>2 DEF Idles, SavingInv, At
<1>3. ASSUME NEW r \in Requests, StartRequest(r) \/ RequestStep(r) \/ RequestDies(r)
      PROVE  SavingInv'
  <2>1. ASSUME NEW w \in Workers, At(w, "saveLink")
        PROVE  LET e == EventOf(worker[w].job) IN events'[e] = events[e]
    <3>1. CASE UNCHANGED events
      BY <3>1
    <3>2. CASE DeleteEvent(r)
      <4>1. /\ pc[r] \in Unlinking /\ call[r].googleEventId \in EventIds
            /\ \A f \in EventIds \ {call[r].googleEventId} : events'[f] = events[f]
        BY <3>2, DeleteEffect DEF Unlinking
      <4>2. Spent(call[r].googleEventId)
        BY <4>1, NoEventAssumption DEF NamedInv, SavedFor
      <4>3. QED
        BY <2>1, <4>1, <4>2, SavingNotSpent
    <3>3. QED
      BY <1>3, <3>1, <3>2, StartEffect, RequestCases, CreateEffect, RescheduleEffect, ClearEffect,
         CancelEffect, EnqueueEffect DEF Turns, Rewrites
  <2>2. ASSUME NEW w \in Workers, At(w, "saveLink")
        PROVE  jobs'[worker[w].job] = jobs[worker[w].job]
    BY <1>3, <2>2, SavingNotSpent, RetryCounts, RequestKeepsJobs
  <2>3. UNCHANGED worker
    BY <1>3, RequestKeepsJobs
  <2>4. ASSUME NEW w \in Workers, At(w, "saveLink")'
        PROVE  events'[EventOf(worker[w].job)'].state = "live"
    <3>1. At(w, "saveLink")
      BY <2>3, <2>4 DEF At
    <3>2. QED
      BY <1>1, <2>1, <2>2, <2>3, <3>1
  <2>5. QED
    BY <2>4 DEF SavingInv
<1>4. CASE JobsStep
  <2>1. ASSUME NEW w \in Workers, NEW j \in Requests, NEW v, NEW job, Moves(w, v, j, job),
               MayHold(w, j), GoesOn(v, j, job), NEW u \in Workers \ {w}, At(u, "saveLink")'
        PROVE  events'[EventOf(worker[u].job)'].state = "live"
    <3>1. worker'[u] = worker[u] /\ (Busy(u) => worker[u].job # j)
      BY <2>1, MoveKeepsHandler
    <3>2. At(u, "saveLink")
      BY <2>1, <3>1 DEF At
    <3>3. /\ worker[u].job \in Requests \ {j} /\ EventOf(worker[u].job) \in EventIds
      BY <3>1, <3>2, SavingNotSpent
    <3>4. jobs'[worker[u].job] = jobs[worker[u].job]
      BY <2>1, <3>3 DEF Moves, IndInv, TypeOK, StoreTypeOK
    <3>5. QED
      BY <1>1, <1>4, <3>1, <3>2, <3>3, <3>4, EventsGrow
  <2>2. ASSUME NEW w \in Workers, NEW j \in Requests, TakeJob(w, j) PROVE ~ At(w, "saveLink")'
    BY <2>2, TakeEffect DEF At
  <2>3. ASSUME NEW w \in Workers, CreateMeetEvent(w)
        PROVE  events'[EventOf(worker[w].job)'].state = "live"
    <3>1. /\ events'[EventOf(worker[w].job)].state = "live"
          /\ worker'[w].job = worker[w].job /\ UNCHANGED jobs
      BY <1>4, <2>3, EventsGrow, EventEffect
    <3>2. EventOf(worker[w].job)' = EventOf(worker[w].job)
      BY <3>1 DEF EventOf
    <3>3. QED
      BY <3>1, <3>2
  <2>4. ASSUME NEW w \in Workers, SaveMeetLink(w) PROVE ~ At(w, "saveLink")'
    BY <2>4, EventEffect DEF At
  <2>5. ASSUME NEW w \in Workers,
               SendMails(w) \/ CreateMeetEventFails(w) \/ SendMailsFails(w) \/ KillWorker(w)
        PROVE  ~ At(w, "saveLink")'
    <3>1. worker' = [worker EXCEPT ![w] = IdleWorker]
      BY <2>5, DropEffect DEF Drops, Moves
    <3>2. QED
      BY <3>1 DEF At, IdleWorker, IndInv, TypeOK, JobsTypeOK
  <2>6. ASSUME NEW w \in Workers, StepsOf(w)
        PROVE  /\ At(w, "saveLink")' => events'[EventOf(worker[w].job)'].state = "live"
               /\ \E j \in Requests : \E v, job : Moves(w, v, j, job) /\ MayHold(w, j)
                                                    /\ GoesOn(v, j, job)
    <3>1. At(w, "saveLink")' => events'[EventOf(worker[w].job)'].state = "live"
      BY <2>2, <2>3, <2>4, <2>5, <2>6 DEF StepsOf
    <3>2. QED
      BY <2>6, <3>1, WorkerMoves
  <2>7. ASSUME NEW j \in Requests, ExpireJob(j), NEW u \in Workers, At(u, "saveLink")'
        PROVE  events'[EventOf(worker[u].job)'].state = "live"
    <3>1. /\ jobs' = [jobs EXCEPT ![j] = jobs'[j]] /\ UNCHANGED <<worker, events>>
          /\ \A w \in Workers : Busy(w) => worker[w].job # j
      BY <2>7, ExpireEffect
    <3>2. At(u, "saveLink")
      BY <2>7, <3>1 DEF At
    <3>3. worker[u].job \in Requests \ {j}
      BY <3>1, <3>2, SavingNotSpent
    <3>4. jobs'[worker[u].job] = jobs[worker[u].job]
      BY <3>1, <3>3 DEF IndInv, TypeOK, StoreTypeOK
    <3>5. QED
      BY <1>1, <3>1, <3>2, <3>4
  <2>8. ASSUME NEW u \in Workers, At(u, "saveLink")'
        PROVE  events'[EventOf(worker[u].job)'].state = "live"
    <3>1. (\E w \in Workers : StepsOf(w)) \/ \E j \in Requests : ExpireJob(j)
      BY <1>4, JobSteps DEF StepsOf, JobsStep
    <3>2. ASSUME NEW w \in Workers, StepsOf(w)
          PROVE  events'[EventOf(worker[u].job)'].state = "live"
      <4>1. CASE u = w
        BY <2>6, <2>8, <3>2, <4>1
      <4>2. CASE u # w
        BY <2>1, <2>6, <2>8, <3>2, <4>2
      <4>3. QED
        BY <4>1, <4>2
    <3>3. QED
      BY <2>7, <2>8, <3>1, <3>2
  <2>9. QED
    BY <2>8 DEF SavingInv
<1>5. QED
  BY <1>2, <1>3, <1>4, StepKinds

\* The request that unlinks the event e of booking b it has deleted.
Unlinks(r, b, e) ==
    pc[r] \in {"clearLink", "markCancelled"} /\ claim[r].id = b /\ call[r].googleEventId = e

\* A request deletes no event but the one it is going to unlink, and no request
\* dies in between.
LEMMA LinkedKept ==
  ASSUME IndInv, MailInv, LinkInv, FaultyRequests = {}, [Next]_vars
  PROVE  LinkedEventIsLive'
<1> USE DEF MailInv, LinkInv
<1> DEFINE Fine(b, e) == \/ events[e].state = "live"
                         \/ \E r \in Requests : Unlinks(r, b, e)
           FineNext(b, e) == \/ events'[e].state = "live"
                             \/ \E r \in Requests : Unlinks(r, b, e)'
<1>0. ASSUME NEW b \in Requests, NEW e \in EventIds, Confirmed(b), bookings[b].googleEventId = e
      PROVE  Fine(b, e) /\ SavedFor(e, b)
  <2>1. Exists(b)
    BY <1>0 DEF Confirmed, Exists, Absent
  <2>2. QED
    BY <1>0, <2>1, NoEventAssumption DEF LinkedEventIsLive, NamedInv, Unlinks
<1>1. ASSUME NEW b \in Requests, NEW e \in EventIds, Confirmed(b)', bookings'[b].googleEventId = e
      PROVE  FineNext(b, e)
  <2>0. Exists(b)' /\ e # NoEvent
    BY <1>1, NoEventAssumption DEF Confirmed, Exists, Absent
  <2>1. CASE Idles
    <3>1. Confirmed(b) /\ bookings[b].googleEventId = e
      BY <1>1, <2>1 DEF Idles, Confirmed
    <3>2. QED
      BY <1>0, <2>1, <3>1 DEF Idles, Unlinks
  <2>2. CASE JobsStep
    <3>1. Exists(b) /\ UNCHANGED <<claim, pc, call>>
      BY <2>0, <2>2, JobEffect DEF JobsStep, IndInv, Exists, bookingVars
    <3>2. CASE bookings'[b] = bookings[b]
      <4>1. Confirmed(b) /\ bookings[b].googleEventId = e
        BY <1>1, <3>2 DEF Confirmed
      <4>2. QED
        BY <1>0, <2>2, <3>1, <4>1, EventsGrow DEF Unlinks
    <3>3. ASSUME NEW w \in Workers, SaveMeetLink(w), jobs[worker[w].job].bookingId = b
          PROVE  FineNext(b, e)
      <4>1. e = EventOf(worker[w].job) /\ UNCHANGED events /\ At(w, "saveLink")
        BY <1>1, <3>3, SaveSpends
      <4>2. QED
        BY <4>1 DEF SavingInv
    <3>4. QED
      BY <2>2, <3>1, <3>2, <3>3, LinkOnly DEF Exists
  <2>3. ASSUME NEW r \in Requests, StartRequest(r) \/ RequestStep(r) \/ RequestDies(r)
        PROVE  FineNext(b, e)
    <3>1. Confirmed(b) /\ bookings[b].googleEventId = e
      BY <1>1, <2>0, <2>3, LinkHistory
    <3>2. Fine(b, e) /\ SavedFor(e, b)
      BY <1>0, <3>1
    <3>3. CASE DeleteEvent(r) /\ call[r].googleEventId = e
      <4>1. pc[r] = "deleteEvent" /\ pc'[r] = AfterDelete(call[r].op) /\ call' = call
        BY <3>3, DeleteEffect
      <4>2. claim' = claim /\ claim[r].id = b
        <5>1. SavedFor(e, claim[r].id)
          BY <2>0, <3>3, <4>1 DEF NamedInv, Unlinking
        <5>2. QED
          BY <3>2, <3>3, <5>1, RequestCases DEF SavedFor, RequestStep
      <4>3. Unlinks(r, b, e)'
        BY <3>3, <4>1, <4>2 DEF Unlinks, AfterDelete
      <4>4. QED
        BY <4>3
    <3>4. ASSUME ~ (DeleteEvent(r) /\ call[r].googleEventId = e) PROVE events'[e] = events[e]
      BY <2>3, <3>4, StartEffect, RequestCases, CreateEffect, RescheduleEffect, ClearEffect,
         CancelEffect, EnqueueEffect, DeleteEffect DEF Turns, Rewrites
    <3>5. ASSUME NEW s \in Requests, Unlinks(s, b, e) PROVE Unlinks(s, b, e)'
      <4>1. CASE s # r
        BY <2>3, <3>5, <4>1, StartEffect, RequestCases DEF Unlinks
      <4>2. ASSUME s = r PROVE FALSE
        <5>1. pc[r] \in {"clearLink", "markCancelled"} /\ claim[r].id = b
          BY <3>5, <4>2 DEF Unlinks
        <5>2. ClearLink(r) \/ MarkCancelled(r)
          BY <2>3, <5>1, StartEffect, RequestCases, CreateEffect, RescheduleEffect, EnqueueEffect,
             DeleteEffect DEF Turns, Reserving, CommitCreate
        <5>3. bookings'[b].googleEventId = NoEvent \/ bookings'[b].status = "CANCELLED"
          BY <5>1, <5>2, ClearEffect, CancelEffect
        <5>4. QED
          BY <1>1, <2>0, <5>3 DEF Confirmed
      <4>3. QED
        BY <4>1, <4>2
    <3>6. QED
      BY <3>2, <3>3, <3>4, <3>5
  <2>4. QED
    BY <2>1, <2>2, <2>3, StepKinds
<1>2. ASSUME NEW b \in Requests, Confirmed(b)', bookings'[b].googleEventId # NoEvent
      PROVE  bookings'[b].googleEventId \in EventIds
  <2>1. TypeOK'
    BY NextInv DEF IndInv
  <2>2. bookings'[b] \in Rows
    BY <1>2, <2>1 DEF TypeOK, StoreTypeOK, Confirmed, Absent
  <2>3. QED
    BY <1>2, <2>2 DEF Rows
<1>3. QED
  BY <1>1, <1>2 DEF LinkedEventIsLive, Unlinks

\* The events that rows and requests name are spent and their own, and the one a
\* worker is about to link is live: what a linked event's life rests on.
LEMMA LinkInvKept ==
  ASSUME IndInv, MailInv, LinkInv, FaultyRequests = {}, [Next]_vars
  PROVE  LinkInv'
BY NamedInvKept, SavingInvKept, LinkedKept DEF LinkInv

\* While no request dies half-way, whatever Google and the workers do: the event
\* that a CONFIRMED booking links to exists, except while the request that deleted
\* it is about to unlink or cancel the booking (rescheduleByClient,
\* applyCancellation).
THEOREM LinksAreLive ==
  ASSUME FaultyRequests = {}
  PROVE  Spec => []LinkedEventIsLive
<1>1. ASSUME Init PROVE LinkInv
  BY <1>1 DEF Init, StoreInit, JobsInit, BookingsInit, LinkInv, NamedInv, SavingInv, At,
              IdleWorker, LinkedEventIsLive, Exists, Confirmed, Absent, Unlinking
<1>2. IndInv /\ MailInv /\ LinkInv /\ [Next]_vars => LinkInv'
  BY LinkInvKept
<1>3. LinkInv => LinkedEventIsLive
  BY DEF LinkInv
<1>4. QED
  BY <1>1, <1>2, <1>3, Invariance, MailsInvariance, PTL DEF Spec

-------------------------------------------------------------------------------
(* One Meet room per booking *)

\* A booking that nobody moves has one job that announces it: its own.
LEMMA OwnJob ==
  ASSUME SentInv, NEW b \in Requests, ~ Moved(b), NEW j \in Requests, jobs[j] # NoJob,
         jobs[j].bookingId = b, jobs[j].kind # "cancelled"
  PROVE  j = b
BY DEF SentInv, SentInvOf, Moved, KindOf

\* Requests leave the link of a booking that nobody moves alone.
LEMMA UnmovedLink ==
  ASSUME IndInv, SentInv, NEW r \in Requests, StartRequest(r) \/ RequestStep(r) \/ RequestDies(r),
         NEW b \in Requests, Exists(b), ~ Moved(b)
  PROVE  bookings'[b].googleEventId = bookings[b].googleEventId
<1>1. CASE CommitCreate(r)
  BY <1>1, CreateEffect DEF Exists
<1>2. CASE CommitReschedule(r)
  BY <1>2, RescheduleEffect DEF Rewrites
<1>3. CASE ClearLink(r)
  <2>1. pc[r] = "clearLink" /\ \A a \in Requests \ {claim[r].id} : bookings'[a] = bookings[a]
    BY <1>3, ClearEffect DEF Rewrites
  <2>2. call[r].op = "rescheduleByClient"
    BY <2>1 DEF SentInv, SentInvOf
  <2>3. claim[r].id # b
    BY <2>2 DEF Moved
  <2>4. QED
    BY <2>1, <2>3
<1>4. CASE MarkCancelled(r)
  BY <1>4, CancelEffect DEF Rewrites
<1>5. QED
  BY <1>1, <1>2, <1>3, <1>4, StartEffect, RequestCases, DeleteEffect, EnqueueEffect DEF Turns

\* A worker at one of the steps of ensureMeetLink holds a job that announces.
LEMMA LinkingFacts ==
  ASSUME IndInv, HandlerInv, NEW w \in Workers, At(w, "createEvent") \/ At(w, "saveLink")
  PROVE  /\ Busy(w) /\ worker[w].job \in Requests /\ jobs[worker[w].job] \in Jobs
         /\ jobs[worker[w].job] # NoJob /\ jobs[worker[w].job].kind # "cancelled"
         /\ Exists(jobs[worker[w].job].bookingId)
         /\ EventOf(worker[w].job) \in EventIds /\ EventOf(worker[w].job)[1] = worker[w].job
<1>1. Busy(w) /\ worker[w].pc # "send"
  BY DEF At, Busy, IdleWorker
<1>2. /\ worker[w].job \in Requests /\ jobs[worker[w].job] \in Jobs
      /\ jobs[worker[w].job] # NoJob /\ bookings[jobs[worker[w].job].bookingId] \in Rows
  BY <1>1, BusyFacts
<1>3. QED
  BY <1>1, <1>2, EventOfParts, RowUpdate DEF HandlerInv, Exists

\* While Google answers, an event is inserted by a worker that goes on to save it.
LEMMA EventsInserted ==
  ASSUME IndInv, HandlerInv, JobsStep, GoogleFaults = FALSE, NEW e \in EventIds,
         events'[e] # events[e]
  PROVE  \E w \in Workers : CreateMeetEvent(w) /\ e = EventOf(worker[w].job)
<1>1. ASSUME NEW w \in Workers, CreateMeetEvent(w) PROVE e = EventOf(worker[w].job)
  <2>1. EventOf(worker[w].job) \in EventIds
    BY <1>1, LinkingFacts DEF CreateMeetEvent
  <2>2. QED
    BY <1>1, <2>1 DEF CreateMeetEvent, InsertEvent, IndInv, TypeOK, StoreTypeOK
<1>2. \/ UNCHANGED events
      \/ \E w \in Workers : CreateMeetEvent(w)
  BY JobSteps, TakeEffect, EventEffect, ExpireEffect
     DEF JobsStep, SendMails, SendMailsFails, KillWorker, CreateMeetEventFails
<1>3. QED
  BY <1>1, <1>2

\* A worker that is between an event and its link stays there, unless it is the
\* one that saves the link: no worker is killed.
LEMMA SavingStays ==
  ASSUME IndInv, HandlerInv, JobsStep, FaultyWorkers = {}, NEW u \in Workers,
         At(u, "saveLink"), ~ SaveMeetLink(u)
  PROVE  worker'[u] = worker[u] /\ jobs'[worker[u].job] = jobs[worker[u].job]
<1>1. Busy(u) /\ worker[u].job \in Requests
  BY LinkingFacts
<1>2. ASSUME NEW w \in Workers, StepsOf(w)
      PROVE  worker'[u] = worker[u] /\ jobs'[worker[u].job] = jobs[worker[u].job]
  <2>1. u # w
    BY <1>2 DEF StepsOf, TakeJob, CreateMeetEvent, SendMails, CreateMeetEventFails,
                SendMailsFails, KillWorker, At
  <2>2. PICK j \in Requests : \E v, job : Moves(w, v, j, job) /\ MayHold(w, j) /\ GoesOn(v, j, job)
    BY <1>2, WorkerMoves
  <2>3. worker'[u] = worker[u] /\ worker[u].job # j
    BY <1>1, <2>1, <2>2, MoveKeepsHandler
  <2>4. jobs'[worker[u].job] = jobs[worker[u].job]
    BY <1>1, <2>2, <2>3 DEF Moves, IndInv, TypeOK, StoreTypeOK
  <2>5. QED
    BY <2>3, <2>4
<1>3. ASSUME NEW j \in Requests, ExpireJob(j)
      PROVE  worker'[u] = worker[u] /\ jobs'[worker[u].job] = jobs[worker[u].job]
  BY <1>1, <1>3, ExpireEffect DEF IndInv, TypeOK, StoreTypeOK
<1>4. QED
  BY <1>2, <1>3, JobSteps DEF StepsOf, JobsStep

\* Requests create no event for a booking that nobody moves.
LEMMA RequestKeepsLinkMissing ==
  ASSUME IndInv, MailInv, NEW r \in Requests,
         StartRequest(r) \/ RequestStep(r) \/ RequestDies(r),
         NEW b \in Requests, ~ Moved(b), LinkMissing(b)
  PROVE  LinkMissing(b)'
<1> USE DEF MailInv
<1>1. UNCHANGED worker /\ \A j \in Requests : jobs[j] # NoJob => jobs'[j] = jobs[j]
  BY RequestKeepsJobs
<1>2. Exists(b) => bookings'[b].googleEventId = bookings[b].googleEventId
  BY UnmovedLink
<1>3. ASSUME NEW w \in Workers, At(w, "createEvent") \/ At(w, "saveLink")
      PROVE  jobs'[worker[w].job] = jobs[worker[w].job] /\ Exists(jobs[worker[w].job].bookingId)
  BY <1>1, <1>3, LinkingFacts
<1>4. ASSUME NEW w \in Workers, At(w, "createEvent")' \/ At(w, "saveLink")',
             jobs'[worker'[w].job].bookingId = b
      PROVE  bookings'[b].googleEventId = NoEvent
  <2>1. At(w, "createEvent") \/ At(w, "saveLink")
    BY <1>1, <1>4 DEF At
  <2>2. jobs[worker[w].job].bookingId = b /\ Exists(b)
    BY <1>1, <1>3, <1>4, <2>1
  <2>3. QED
    BY <1>2, <2>1, <2>2 DEF LinkMissing
<1>5. QED
  BY <1>4 DEF LinkMissing

\* Nor do they take it its link or its room.
LEMMA RequestKeepsRooms ==
  ASSUME IndInv, MailInv, RoomInv, NEW r \in Requests,
         StartRequest(r) \/ RequestStep(r) \/ RequestDies(r), NEW b \in Requests, ~ Moved(b)
  PROVE  RoomsKnown(b)'
<1> USE DEF MailInv
<1>0. RoomsKnown(b)
  BY DEF RoomInv
<1>1. UNCHANGED worker /\ \A j \in Requests : jobs[j] # NoJob => jobs'[j] = jobs[j]
  BY RequestKeepsJobs
<1>2. Exists(b) => bookings'[b].googleEventId = bookings[b].googleEventId
  BY UnmovedLink
<1>3. ASSUME NEW w \in Workers, At(w, "createEvent") \/ At(w, "saveLink")
      PROVE  jobs'[worker[w].job] = jobs[worker[w].job] /\ Exists(jobs[worker[w].job].bookingId)
  BY <1>1, <1>3, LinkingFacts
<1>4. ASSUME NEW e \in EventIds, events'[e].state = "live", jobs'[e[1]].bookingId = b
      PROVE  \/ bookings'[b].googleEventId = e
             \/ \E w \in Workers : At(w, "saveLink")' /\ EventOf(worker[w].job)' = e
  <2>1. events[e].state = "live"
    <3>1. CASE UNCHANGED events
      BY <1>4, <3>1
    <3>2. CASE DeleteEvent(r)
      BY <1>4, <3>2, DeleteEffect
    <3>3. QED
      BY <3>1, <3>2, StartEffect, RequestCases, CreateEffect, RescheduleEffect, ClearEffect,
         CancelEffect, EnqueueEffect DEF Turns, Rewrites
  <2>2. jobs[e[1]] # NoJob /\ e[1] \in Requests
    BY <2>1, EventParts DEF RoomInv
  <2>3. jobs[e[1]].bookingId = b /\ Exists(b)
    BY <1>1, <1>4, <2>2 DEF IndInv, JobInv
  <2>4. CASE bookings[b].googleEventId = e
    BY <1>2, <2>3, <2>4
  <2>5. ASSUME NEW w \in Workers, At(w, "saveLink"), EventOf(worker[w].job) = e
        PROVE  At(w, "saveLink")' /\ EventOf(worker[w].job)' = e
    BY <1>1, <1>3, <2>5 DEF At, EventOf
  <2>6. QED
    BY <1>0, <2>1, <2>3, <2>4, <2>5 DEF RoomsKnown
<1>5. QED
  BY <1>4 DEF RoomsKnown

\* A save for booking b that nobody moves is its own job's, and sets its first link.
LEMMA FirstSave ==
  ASSUME IndInv, MailInv, NEW b \in Requests, ~ Moved(b), LinkMissing(b),
         NEW w \in Workers, SaveMeetLink(w), jobs[worker[w].job].bookingId = b
  PROVE  /\ At(w, "saveLink") /\ worker[w].job = b /\ bookings[b].googleEventId = NoEvent
         /\ bookings'[b].googleEventId = EventOf(worker[w].job)
<1> USE DEF MailInv
<1>1. At(w, "saveLink") /\ bookings'[b].googleEventId = EventOf(worker[w].job)
  BY SaveSpends
<1>2. worker[w].job = b
  BY <1>1, LinkingFacts, OwnJob
<1>3. QED
  BY <1>1, <1>2 DEF LinkMissing

\* Nor does the queue: an attempt creates an event only if the row it reads has
\* none, and only the attempt itself can link one meanwhile.
LEMMA JobsKeepLinkMissing ==
  ASSUME IndInv, MailInv, JobsStep, NEW b \in Requests, ~ Moved(b), LinkMissing(b)
  PROVE  LinkMissing(b)'
<1> USE DEF MailInv
<1>1. \A i \in Requests : /\ jobs'[i] = NoJob <=> jobs[i] = NoJob
                          /\ jobs'[i].bookingId = jobs[i].bookingId
                          /\ jobs'[i].kind = jobs[i].kind
  BY JobsKeepSubject
<1>2. ASSUME NEW w \in Workers, SaveMeetLink(w), jobs[worker[w].job].bookingId = b
      PROVE  /\ At(w, "saveLink") /\ worker[w].job = b /\ bookings[b].googleEventId = NoEvent
             /\ bookings'[b].googleEventId = EventOf(worker[w].job)
  BY <1>2, FirstSave
<1>3. ASSUME Exists(b), bookings'[b].googleEventId # bookings[b].googleEventId
      PROVE  \E w \in Workers : SaveMeetLink(w) /\ jobs[worker[w].job].bookingId = b
  BY <1>3, LinkOnly DEF Exists
<1>4. ASSUME NEW u \in Workers, At(u, "createEvent")' \/ At(u, "saveLink")',
             jobs'[worker'[u].job].bookingId = b
      PROVE  bookings'[b].googleEventId = NoEvent
  <2>0. IndInv' /\ HandlerInv'
    BY NextInv, HandlerInvKept DEF JobsStep, Next
  <2>1. worker'[u].job \in Requests
    BY <1>4, <2>0 DEF At, IdleWorker, BusyWorkers, IndInv, TypeOK, JobsTypeOK
  <2>2. jobs[worker'[u].job].bookingId = b
    BY <1>1, <1>4, <2>1
  <2>3. ASSUME At(u, "createEvent") \/ At(u, "saveLink"), worker'[u].job = worker[u].job
        PROVE  bookings'[b].googleEventId = NoEvent
    <3>1. bookings[b].googleEventId = NoEvent
      BY <2>2, <2>3 DEF LinkMissing
    <3>2. Exists(b) /\ Busy(u) /\ worker[u].job = b
      BY <2>2, <2>3, LinkingFacts, OwnJob
    <3>3. ASSUME NEW w \in Workers, SaveMeetLink(w), jobs[worker[w].job].bookingId = b
          PROVE  FALSE
      <4>1. At(w, "saveLink") /\ worker[w].job = b
        BY <1>2, <3>3
      <4>2. Busy(w)
        BY <4>1, LinkingFacts
      <4>3. w = u
        BY <3>2, <4>1, <4>2 DEF HandlerInv
      <4>4. worker'[u].pc = "send"
        BY <3>3, <4>3, EventEffect
      <4>5. QED
        BY <1>4, <4>4 DEF At
    <3>4. QED
      BY <1>3, <3>1, <3>2, <3>3
  <2>4. ASSUME NEW j \in Requests, TakeJob(u, j) PROVE bookings'[b].googleEventId = NoEvent
    <3>1. /\ worker'[u].job = j /\ UNCHANGED bookings
          /\ worker'[u].pc # "send" => NeedsMeetLink(jobs[j].kind, bookings[jobs[j].bookingId])
      BY <2>4, TakeEffect
    <3>2. NeedsMeetLink(jobs[j].kind, bookings[b])
      BY <1>4, <2>2, <3>1 DEF At
    <3>3. QED
      BY <3>1, <3>2 DEF NeedsMeetLink
  <2>5. ASSUME CreateMeetEvent(u) PROVE bookings'[b].googleEventId = NoEvent
    BY <2>3, <2>5, EventEffect DEF At
  <2>6. ASSUME \/ SaveMeetLink(u) \/ SendMails(u) \/ CreateMeetEventFails(u)
               \/ SendMailsFails(u) \/ KillWorker(u)
        PROVE  FALSE
    <3>1. worker'[u].pc \in {"send", "idle"}
      <4>1. CASE SaveMeetLink(u)
        BY <4>1, EventEffect
      <4>2. CASE ~ SaveMeetLink(u)
        <5>1. worker' = [worker EXCEPT ![u] = IdleWorker]
          BY <2>6, <4>2, DropEffect DEF Drops, Moves
        <5>2. worker'[u] = IdleWorker
          BY <5>1 DEF IndInv, TypeOK, JobsTypeOK
        <5>3. QED
          BY <5>2 DEF IdleWorker
      <4>3. QED
        BY <4>1, <4>2
    <3>2. QED
      BY <1>4, <3>1 DEF At
  <2>7. ASSUME worker'[u] = worker[u] PROVE bookings'[b].googleEventId = NoEvent
    BY <1>4, <2>3, <2>7 DEF At
  <2>8. ASSUME ~ StepsOf(u) PROVE worker'[u] = worker[u]
    <3>1. \/ \E w \in Workers \ {u} : StepsOf(w)
          \/ \E j \in Requests : ExpireJob(j)
      BY <2>8, JobSteps DEF StepsOf, JobsStep
    <3>2. ASSUME NEW w \in Workers \ {u}, StepsOf(w) PROVE worker'[u] = worker[u]
      BY <3>2, WorkerMoves DEF Moves, IndInv, TypeOK, JobsTypeOK
    <3>3. QED
      BY <3>1, <3>2, ExpireEffect
  <2>9. QED
    BY <2>4, <2>5, <2>6, <2>7, <2>8 DEF StepsOf
<1>5. QED
  BY <1>4 DEF LinkMissing

\* While Google answers and no worker is killed, the queue leaves no other room.
LEMMA JobsKeepRooms ==
  ASSUME IndInv, MailInv, AttemptInv, RoomInv, JobsStep, GoogleFaults = FALSE, FaultyWorkers = {},
         NEW b \in Requests, ~ Moved(b)
  PROVE  RoomsKnown(b)'
<1> USE DEF MailInv
<1>0. RoomsKnown(b) /\ LinkMissing(b)
  BY DEF RoomInv, AttemptInv
<1>1. \A i \in Requests : /\ jobs'[i] = NoJob <=> jobs[i] = NoJob
                          /\ jobs'[i].bookingId = jobs[i].bookingId
                          /\ jobs'[i].kind = jobs[i].kind
  BY JobsKeepSubject
<1>2. ASSUME NEW w \in Workers, SaveMeetLink(w), jobs[worker[w].job].bookingId = b
      PROVE  /\ At(w, "saveLink") /\ worker[w].job = b /\ bookings[b].googleEventId = NoEvent
             /\ bookings'[b].googleEventId = EventOf(worker[w].job)
  BY <1>0, <1>2, FirstSave
<1>3. ASSUME Exists(b), bookings'[b].googleEventId # bookings[b].googleEventId
      PROVE  \E w \in Workers : SaveMeetLink(w) /\ jobs[worker[w].job].bookingId = b
  BY <1>3, LinkOnly DEF Exists
<1>4. ASSUME NEW e \in EventIds, events'[e].state = "live", jobs'[e[1]].bookingId = b
      PROVE  \/ bookings'[b].googleEventId = e
             \/ \E w \in Workers : At(w, "saveLink")' /\ EventOf(worker[w].job)' = e
  <2>1. CASE events'[e] # events[e]
    <3>1. PICK w \in Workers : CreateMeetEvent(w) /\ e = EventOf(worker[w].job)
      BY <2>1, EventsInserted
    <3>2. worker'[w].pc = "saveLink" /\ worker'[w].job = worker[w].job /\ UNCHANGED jobs
      BY <3>1, EventEffect
    <3>3. QED
      BY <3>1, <3>2 DEF At, EventOf
  <2>2. CASE events'[e] = events[e]
    <3>1. events[e].state = "live" /\ e[1] \in Requests
      BY <1>4, <2>2, EventParts
    <3>2. jobs[e[1]] # NoJob /\ jobs[e[1]].bookingId = b
      BY <1>1, <1>4, <3>1 DEF RoomInv
    <3>3. Exists(b)
      BY <3>1, <3>2 DEF IndInv, JobInv
    <3>4. CASE bookings[b].googleEventId = e
      <4>1. bookings[b].googleEventId # NoEvent
        BY <3>4, NoEventAssumption
      <4>2. QED
        BY <1>2, <1>3, <3>3, <3>4, <4>1
    <3>5. ASSUME NEW u \in Workers, At(u, "saveLink"), EventOf(worker[u].job) = e
          PROVE  \/ bookings'[b].googleEventId = e
                 \/ At(u, "saveLink")' /\ EventOf(worker[u].job)' = e
      <4>1. CASE SaveMeetLink(u)
        <5>1. e[1] = worker[u].job
          BY <3>5, LinkingFacts
        <5>2. QED
          BY <1>2, <3>2, <3>5, <4>1, <5>1
      <4>2. CASE ~ SaveMeetLink(u)
        BY <3>5, <4>2, SavingStays DEF At, EventOf
      <4>3. QED
        BY <4>1, <4>2
    <3>6. QED
      BY <1>0, <3>1, <3>2, <3>4, <3>5 DEF RoomsKnown
  <2>3. QED
    BY <2>1, <2>2
<1>5. QED
  BY <1>4 DEF RoomsKnown

\* Who was moved stays moved, and a request that has not begun names no booking.
LEMMA RequestKeepsMoved ==
  ASSUME IndInv, MailInv, AttemptInv, NEW r \in Requests,
         StartRequest(r) \/ RequestStep(r) \/ RequestDies(r)
  PROVE  /\ \A s \in Requests : pc'[s] = "idle" => call'[s].op = "none"
         /\ \A b \in Requests : Moved(b) => Moved(b)'
<1>1. \A s \in Requests : pc'[s] = "idle" => pc[s] = "idle" /\ call'[s] = call[s]
  <2>1. \A s \in Requests \ {r} : pc'[s] = pc[s] /\ call'[s] = call[s]
    BY StartEffect, RequestCases
  <2>2. pc'[r] # "idle"
    BY StartEffect, RequestCases, CreateEffect, RescheduleEffect, ClearEffect,
       CancelEffect, EnqueueEffect, DeleteEffect DEF Turns, Reserving, AfterDelete
  <2>3. QED
    BY <2>1, <2>2
<1>2. ASSUME NEW b \in Requests, NEW s \in Requests,
             call[s].op = "rescheduleByClient", claim[s].id = b
      PROVE  call'[s].op = "rescheduleByClient" /\ claim'[s].id = b
  <2>1. CASE StartRequest(r)
    <3>1. s # r
      BY <1>2, <2>1, StartEffect DEF AttemptInv
    <3>2. QED
      BY <1>2, <2>1, <3>1, StartEffect
  <2>2. CASE RequestStep(r) \/ RequestDies(r)
    BY <1>2, <2>2, RequestCases
  <2>3. QED
    BY <2>1, <2>2
<1>3. \A b \in Requests : Moved(b) => Moved(b)'
  BY <1>2 DEF Moved
<1>4. QED
  BY <1>1, <1>3 DEF AttemptInv

\* AttemptInv is inductive on top of IndInv and MailInv.
LEMMA AttemptInvKept ==
  ASSUME IndInv, MailInv, AttemptInv, [Next]_vars
  PROVE  AttemptInv'
<1>1. CASE Idles
  BY <1>1 DEF Idles, AttemptInv, LinkMissing, Moved, At
<1>2. ASSUME NEW r \in Requests, StartRequest(r) \/ RequestStep(r) \/ RequestDies(r)
      PROVE  AttemptInv'
  <2>1. \A b \in Requests : Moved(b)' \/ LinkMissing(b)'
    <3>1. ASSUME NEW b \in Requests, ~ Moved(b) PROVE LinkMissing(b)'
      BY <1>2, <3>1, RequestKeepsLinkMissing DEF AttemptInv
    <3>2. QED
      BY <1>2, <3>1, RequestKeepsMoved
  <2>2. QED
    BY <1>2, <2>1, RequestKeepsMoved DEF AttemptInv
<1>3. CASE JobsStep
  <2>1. UNCHANGED <<claim, pc, call>>
    BY <1>3, JobsKeepSubject DEF MailInv
  <2>2. ASSUME NEW b \in Requests PROVE Moved(b)' \/ LinkMissing(b)'
    <3>1. Moved(b)' <=> Moved(b)
      BY <2>1 DEF Moved
    <3>2. CASE ~ Moved(b)
      BY <1>3, <3>2, JobsKeepLinkMissing DEF AttemptInv
    <3>3. QED
      BY <3>1, <3>2
  <2>3. QED
    BY <2>1, <2>2 DEF AttemptInv
<1>4. QED
  BY <1>1, <1>2, <1>3, StepKinds

\* Attempts stay idempotent, whatever fails.
LEMMA AttemptsInvariance == Spec => []AttemptInv
<1>1. ASSUME Init PROVE AttemptInv
  BY <1>1 DEF Init, StoreInit, JobsInit, BookingsInit, AttemptInv, LinkMissing, NoCall, At, IdleWorker
<1>2. IndInv /\ MailInv /\ AttemptInv /\ [Next]_vars => AttemptInv'
  BY AttemptInvKept
<1>3. QED
  BY <1>1, <1>2, Invariance, MailsInvariance, PTL DEF Spec

\* An event comes alive only when a handler is at its "createEvent" step.
LEMMA EventsComeAlive ==
  ASSUME IndInv, MailInv, [Next]_vars, NEW e \in EventIds,
         events'[e].state = "live", events[e].state # "live"
  PROVE  \E w \in Workers : At(w, "createEvent") /\ e = EventOf(worker[w].job)
<1> USE DEF MailInv
<1>1. ASSUME NEW r \in Requests, StartRequest(r) \/ RequestStep(r) \/ RequestDies(r)
      PROVE  FALSE
  <2>1. CASE UNCHANGED events
    BY <2>1
  <2>2. CASE DeleteEvent(r)
    BY <2>2, DeleteEffect
  <2>3. QED
    BY <1>1, <2>1, <2>2, StartEffect, RequestCases, CreateEffect, RescheduleEffect,
       ClearEffect, CancelEffect, EnqueueEffect DEF Turns, Rewrites
<1>2. ASSUME JobsStep PROVE \E w \in Workers : At(w, "createEvent") /\ e = EventOf(worker[w].job)
  <2>1. PICK w \in Workers : CreateMeetEvent(w) \/ CreateMeetEventFails(w)
    BY <1>2, JobSteps, TakeEffect, EventEffect, ExpireEffect
       DEF JobsStep, SendMails, SendMailsFails, KillWorker
  <2>2. At(w, "createEvent")
    BY <2>1 DEF CreateMeetEvent, CreateMeetEventFails
  <2>3. InsertEvent(EventOf(worker[w].job), worker[w].booking)
    BY <2>1 DEF CreateMeetEvent, CreateMeetEventFails
  <2>4. e = EventOf(worker[w].job)
    BY <2>3 DEF InsertEvent, IndInv, TypeOK, StoreTypeOK
  <2>5. QED
    BY <2>2, <2>4
<1>3. CASE Idles
  BY <1>3 DEF Idles
<1>4. QED
  BY <1>1, <1>2, <1>3, StepKinds

\* However workers are killed, jobs expire and Google fails half-way: once a
\* booking that is not rescheduled is linked to its event, no later attempt of any
\* of its jobs creates another one (ensureMeetLink's early return).
THEOREM LinkedRoomStaysLast == Spec => LinkedRoomIsLast
<1>1. ASSUME IndInv, MailInv, AttemptInv, [Next]_vars,
             NEW b \in Requests, NEW e \in EventIds,
             Exists(b), bookings[b].googleEventId # NoEvent, ~ Moved(b),
             jobs[e[1]] # NoJob, jobs[e[1]].bookingId = b, events'[e].state = "live"
      PROVE  events[e].state = "live"
  <2>1. SUFFICES ASSUME events[e].state # "live" PROVE FALSE
    OBVIOUS
  <2>2. PICK w \in Workers : At(w, "createEvent") /\ e = EventOf(worker[w].job)
    BY <1>1, <2>1, EventsComeAlive
  <2>3. e[1] = worker[w].job
    BY <1>1, <2>2, LinkingFacts DEF MailInv
  <2>4. LinkMissing(b)
    BY <1>1 DEF AttemptInv
  <2>5. QED
    BY <1>1, <2>2, <2>3, <2>4 DEF LinkMissing
<1>2. IndInv /\ MailInv /\ AttemptInv /\ [Next]_vars
      => [\A b \in Requests, e \in EventIds :
            /\ Exists(b) /\ bookings[b].googleEventId # NoEvent
            /\ ~ Moved(b)
            /\ jobs[e[1]] # NoJob /\ jobs[e[1]].bookingId = b
            /\ events'[e].state = "live"
            => events[e].state = "live"]_vars
  BY <1>1
<1>3. QED
  BY <1>2, Invariance, MailsInvariance, AttemptsInvariance, PTL DEF Spec, LinkedRoomIsLast

\* RoomInv is inductive on top of IndInv, MailInv and AttemptInv.
LEMMA RoomInvKept ==
  ASSUME IndInv, MailInv, AttemptInv, RoomInv, [Next]_vars, GoogleFaults = FALSE, FaultyWorkers = {}
  PROVE  RoomInv'
<1> USE DEF MailInv
<1>1. CASE Idles
  BY <1>1 DEF Idles, RoomInv, RoomsKnown, Moved, At, EventOf
<1>2. ASSUME NEW r \in Requests, StartRequest(r) \/ RequestStep(r) \/ RequestDies(r)
      PROVE  RoomInv'
  <2>1. ASSUME NEW e \in EventIds, events'[e].state = "live" PROVE jobs'[e[1]] # NoJob
    <3>1. events[e].state = "live"
      <4>1. CASE UNCHANGED events
        BY <2>1, <4>1
      <4>2. CASE DeleteEvent(r)
        BY <2>1, <4>2, DeleteEffect
      <4>3. QED
        BY <1>2, <4>1, <4>2, StartEffect, RequestCases, CreateEffect, RescheduleEffect,
           ClearEffect, CancelEffect, EnqueueEffect DEF Turns, Rewrites
    <3>2. jobs[e[1]] # NoJob /\ e[1] \in Requests
      BY <3>1, EventParts DEF RoomInv
    <3>3. QED
      BY <1>2, <3>2, RequestKeepsJobs
  <2>2. \A b \in Requests : Moved(b)' \/ RoomsKnown(b)'
    BY <1>2, RequestKeepsMoved, RequestKeepsRooms
  <2>3. QED
    BY <2>1, <2>2 DEF RoomInv
<1>3. CASE JobsStep
  <2>1. UNCHANGED <<claim, pc, call>> /\ \A i \in Requests : jobs'[i] = NoJob <=> jobs[i] = NoJob
    BY <1>3, JobsKeepSubject
  <2>2. ASSUME NEW e \in EventIds, events'[e].state = "live" PROVE jobs'[e[1]] # NoJob
    <3>1. CASE events'[e] = events[e]
      BY <2>1, <2>2, <3>1, EventParts DEF RoomInv
    <3>2. CASE events'[e] # events[e]
      <4>1. PICK w \in Workers : CreateMeetEvent(w) /\ e = EventOf(worker[w].job)
        BY <1>3, <3>2, EventsInserted
      <4>2. e[1] \in Requests /\ jobs[e[1]] # NoJob
        BY <4>1, LinkingFacts DEF CreateMeetEvent
      <4>3. QED
        BY <2>1, <4>2
    <3>3. QED
      BY <3>1, <3>2
  <2>3. ASSUME NEW b \in Requests, ~ Moved(b)' PROVE RoomsKnown(b)'
    <3>1. ~ Moved(b)
      BY <2>1, <2>3 DEF Moved
    <3>2. QED
      BY <1>3, <3>1, JobsKeepRooms
  <2>4. QED
    BY <2>2, <2>3 DEF RoomInv
<1>4. QED
  BY <1>1, <1>2, <1>3, StepKinds

\* A live event of a booking nobody moves is the linked one or the one about to
\* be, and while one is about to be linked none is.
LEMMA OneRoom ==
  ASSUME IndInv, MailInv, AttemptInv, RoomInv
  PROVE  OneMeetRoom
<1> USE DEF MailInv
<1>1. SUFFICES ASSUME NEW b \in Requests, ~ Moved(b), NEW e \in EventIds, NEW f \in EventIds,
                      events[e].state = "live", jobs[e[1]].bookingId = b,
                      events[f].state = "live", jobs[f[1]].bookingId = b
               PROVE  e = f
  BY DEF OneMeetRoom
<1>2. ASSUME NEW g \in EventIds, events[g].state = "live", jobs[g[1]].bookingId = b
      PROVE  bookings[b].googleEventId = g \/ (bookings[b].googleEventId = NoEvent /\ g = EventOf(b))
  <2>1. CASE bookings[b].googleEventId = g
    BY <2>1
  <2>2. ASSUME NEW w \in Workers, At(w, "saveLink"), EventOf(worker[w].job) = g
        PROVE  bookings[b].googleEventId = NoEvent /\ g = EventOf(b)
    <3>1. /\ worker[w].job \in Requests /\ jobs[worker[w].job] # NoJob
          /\ jobs[worker[w].job].kind # "cancelled" /\ g[1] = worker[w].job
      BY <2>2, LinkingFacts
    <3>2. worker[w].job = b
      BY <1>1, <1>2, <3>1, OwnJob
    <3>3. QED
      BY <1>1, <1>2, <2>2, <3>1, <3>2 DEF AttemptInv, LinkMissing
  <2>3. QED
    BY <1>1, <1>2, <2>1, <2>2 DEF RoomInv, RoomsKnown
<1>3. QED
  BY <1>1, <1>2, NoEventAssumption

\* While Google answers and no worker is killed, however often requests die and
\* the mails of a job fail and are retried, a booking that is not rescheduled has
\* at most one Meet room (ensureMeetLink is idempotent under retries).
THEOREM OneRoomPerBooking ==
  ASSUME GoogleFaults = FALSE, FaultyWorkers = {}
  PROVE  Spec => []OneMeetRoom
<1>1. ASSUME Init PROVE RoomInv
  BY <1>1 DEF Init, StoreInit, JobsInit, RoomInv, RoomsKnown
<1>2. IndInv /\ MailInv /\ AttemptInv /\ RoomInv /\ [Next]_vars => RoomInv'
  BY RoomInvKept
<1>3. IndInv /\ MailInv /\ AttemptInv /\ RoomInv => OneMeetRoom
  BY OneRoom
<1>4. QED
  BY <1>1, <1>2, <1>3, Invariance, MailsInvariance, AttemptsInvariance, PTL DEF Spec

===============================================================================
