\* Three requests race on one coach's day; any of them may die; no workers.
CONSTANTS
  r1 = r1
  r2 = r2
  r3 = r3
  anna = anna
  bela = bela
  w1 = w1
  w2 = w2
  NoEvent = NoEvent
  Coaches = {anna}
  Requests = {r1, r2, r3}
  RetryLimit = 0
  Workers = {}
  FaultyWorkers = {}
  GoogleFaults = FALSE
  Operations = {"create", "rescheduleByClient", "cancelByClient", "cancelByCoach"}
  EventTypeRows <- ShortAndLong
  StartTimes = {1, 2, 3}
  Schedules <- OpenOrBlocked
  DayLength = 6
  Notice = 1
  MaxNow = 1
  MaxAttempts = 2
  FaultyRequests = {r1, r2, r3}
SYMMETRY Symmetry
SPECIFICATION Spec
INVARIANT NoDoubleBooking
PROPERTY ImplementsCalendar
CHECK_DEADLOCK FALSE
