SPECIFICATION FairSpec
CONSTANTS
  TTL = 0
  Process = {b1, b2}
  Prefix = {p1}
  Live = {p1}
  Browsed = {}
  Request <- UncachedForced
  Tolerance = 10
  MaxVersion = 3
INVARIANT StampHonest
PROPERTIES MirrorSpec EventuallyCurrent
