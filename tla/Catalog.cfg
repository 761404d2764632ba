\* Three requests of any kind on one catalog; one connection may be lost; fairness.
CONSTANTS
  a = a
  b = b
  c = c
  d = d
  e = e
  k1 = k1
  k2 = k2
  k3 = k3
  Null = Null
  Types = {a, b, c, d, e}
  Calls = {k1, k2, k3}
  Operations = {"create", "update", "archive", "remove", "reorder", "book"}
  InitialOrder <- Catalog
  Orders <- CatalogOrders
  Positions = {5}
  FaultyCalls = {k1}
SPECIFICATION FairSpec
INVARIANT OrderIsWhole
INVARIANT BookedTypesStay
PROPERTY CallsAreAnswered
CHECK_DEADLOCK FALSE
