\* Three requests on Meet bookings, two attempts per job.
CONSTANTS
  r1 = r1
  r2 = r2
  r3 = r3
  anna = anna
  bela = bela
  w1 = w1
  w2 = w2
  NoEvent = NoEvent
  Coaches = {anna}
  Requests = {r1, r2, r3}
  RetryLimit = 1
  Workers = {w1}
  FaultyWorkers = {}
  GoogleFaults = FALSE
  Operations = {"create", "rescheduleByClient", "cancelByClient", "cancelByCoach"}
  EventTypeRows <- MeetOnly
  StartTimes = {1, 2}
  Schedules <- OpenDay
  DayLength = 6
  Notice = 0
  MaxNow = 0
  MaxAttempts = 1
  FaultyRequests = {}
SYMMETRY Symmetry
SPECIFICATION Spec
INVARIANT LinkedEventIsLive
INVARIANT OneMeetRoom
INVARIANT PresentStateIsMailed
INVARIANT CancellerIsMailed
CHECK_DEADLOCK FALSE
