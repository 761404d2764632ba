\* README: the availability check is part of the transaction.
CONSTANTS
  r1 = r1
  r2 = r2
  r3 = r3
  anna = anna
  bela = bela
  w1 = w1
  w2 = w2
  NoEvent = NoEvent
  Coaches = {anna}
  Requests = {r1, r2}
  RetryLimit = 0
  Workers = {}
  FaultyWorkers = {}
  GoogleFaults = FALSE
  Operations = {"create"}
  EventTypeRows <- ShortAndLong
  StartTimes = {2}
  Schedules <- OpenOrBlocked
  DayLength = 6
  Notice = 0
  MaxNow = 0
  MaxAttempts = 1
  FaultyRequests = {}
SPECIFICATION Spec
PROPERTY ScheduleHoldsAtSnapshot
CHECK_DEADLOCK FALSE
