\* Two coaches, three connect flows and three calls overlap.
CONSTANTS
  anna = anna
  bela = bela
  a1 = a1
  a2 = a2
  f1 = f1
  f2 = f2
  f3 = f3
  k1 = k1
  k2 = k2
  k3 = k3
  None = None
  Coaches = {anna, bela}
  Accounts = {a1, a2}
  Flows = {f1, f2, f3}
  Calls = {k1, k2, k3}
SYMMETRY Symmetry
SPECIFICATION Spec
INVARIANT RoomsInOwnCalendar
INVARIANT StatusNamesTheAccount
INVARIANT RoomsAreFound
CHECK_DEADLOCK FALSE
