\* Two requests for the same time, transactions retried, jobs retried, killed workers
\* and a failing Google API, with fairness.
CONSTANTS
  r1 = r1
  r2 = r2
  r3 = r3
  anna = anna
  bela = bela
  w1 = w1
  w2 = w2
  NoEvent = NoEvent
  Coaches = {anna, bela}
  Requests = {r1, r2}
  RetryLimit = 1
  Workers = {w1}
  FaultyWorkers = {w1}
  GoogleFaults = TRUE
  Operations = {"create", "rescheduleByClient", "cancelByClient", "cancelByCoach"}
  EventTypeRows <- MeetOnly
  StartTimes = {1}
  Schedules <- OpenDay
  DayLength = 6
  Notice = 0
  MaxNow = 0
  MaxAttempts = 2
  FaultyRequests = {}
SPECIFICATION FairSpec
INVARIANT TypeOK
INVARIANT CompletedMeansDelivered
PROPERTY LinkedRoomIsLast
PROPERTY RequestsAreAnswered
PROPERTY JobsFinish
PROPERTY BookingIsAnnounced
PROPERTY MeetLinkEventually
CHECK_DEADLOCK FALSE
