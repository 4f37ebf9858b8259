SPECIFICATION FairSpec
CONSTANTS
  Process = {p1, p2}
  Key = {k1}
  Window = 1
  DayLength = 9
  MaxAge = 0
  MaxLines = 9
  MaxTime = 2
  MaxEntries = 2
  MaxAborts = 1
PROPERTIES EventuallyConsumed
