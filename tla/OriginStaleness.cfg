\* Two instances, one origin, two checks in flight.
CONSTANTS
  i1 = i1
  i2 = i2
  o1 = o1
  o2 = o2
  c1 = c1
  c2 = c2
  Instances = {i1, i2}
  Origins = {o1}
  Checks = {c1, c2}
  Ttl = 2
  MaxLoad = 2
SYMMETRY Symmetry
SPECIFICATION Spec
INVARIANT BoundedStaleness
