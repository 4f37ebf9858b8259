SPECIFICATION Spec
CONSTANTS
  TTL = 1
  Process = {b1}
  Prefix = {p1}
  Live = {p1}
  Browsed = {}
  Request <- CachedBuilds
  Tolerance = 10
  MaxVersion = 2
INVARIANT StampHonest
