SPECIFICATION Spec
CONSTANTS
  TTL = 0
  Process = {b1, b2}
  Prefix = {p1, p2, px}
  Live = {p1, p2}
  Browsed = {p1}
  Request <- CachedScoped
  Tolerance = 2
  MaxVersion = 1
SYMMETRY ProcessSymmetry
INVARIANTS StampedHasRows OkMeansIndexed Accounted
