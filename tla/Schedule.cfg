\* Updates of the hours overlap while slots are offered and booked; the timezone and the notice change.
CONSTANTS
  m1 = m1
  m2 = m2
  d1 = d1
  e1 = e1
  e2 = e2
  Null = Null
  WeeklyIds = {m1, m2}
  OverrideIds = {d1}
  Editors = {e1, e2}
  WeeklyDtos <- WeekHours
  OverrideDtos <- SpecialHours
  WeeklyPatches <- WeekPatches
  OverridePatches <- SpecialPatches
  MinutesPerDay = 3
  LocalTime <- Clocks
  Patchers = {e1, e2}
  SettingsPatches <- Bodies
  DefaultSettings <- Defaults
  NotGiven = NotGiven
  Dates = {1, 2}
  Durations = {1, 2}
  MaxRangeDays = 1
  MaxBookings = 1
  MaxNow = 1
SYMMETRY Symmetry
SPECIFICATION Spec
INVARIANT RangesStayValid
INVARIANT OfferedIsBookable
INVARIANT OpenTimesAreOffered
PROPERTY SettingsChangeByPatch
CHECK_DEADLOCK FALSE
