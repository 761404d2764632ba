\* Three requests, two ticks to the second.
CONSTANTS
  c1 = c1
  c2 = c2
  c3 = c3
  p1 = p1
  p2 = p2
  Calls = {c1, c2, c3}
  Passwords = {p1, p2}
  Second = 2
  AccessTtl = 3
  ResetTtl = 2
  WriteDelay = 0
  MaxNow = 5
SYMMETRY Symmetry
SPECIFICATION Spec
INVARIANT TypeOK
INVARIANT ResetSessionWorks
INVARIANT RevokedSessionsEnd
INVARIANT UsedLinkIsDead
CHECK_DEADLOCK FALSE
