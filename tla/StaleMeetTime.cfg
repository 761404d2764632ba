\* rescheduleByClient: the job creates the replacement event.
CONSTANTS
  r1 = r1
  r2 = r2
  r3 = r3
  anna = anna
  bela = bela
  w1 = w1
  w2 = w2
  NoEvent = NoEvent
  Coaches = {anna}
  Requests = {r1, r2}
  RetryLimit = 0
  Workers = {w1}
  FaultyWorkers = {}
  GoogleFaults = FALSE
  Operations = {"create", "rescheduleByClient"}
  EventTypeRows <- MeetOnly
  StartTimes = {1, 2}
  Schedules <- OpenDay
  DayLength = 6
  Notice = 0
  MaxNow = 0
  MaxAttempts = 1
  FaultyRequests = {}
SPECIFICATION Spec
INVARIANT LinkedEventAtBookedTime
CHECK_DEADLOCK FALSE
