SPECIFICATION DaysSpec
CONSTANTS
  Process = {p1, p2}
  Key = {k1}
  Window = 1
  DayLength = 1
  MaxAge = 9
  MaxLines = 1
  MaxTime = 3
  MaxEntries = 3
  MaxAborts = 0
INVARIANTS TypeOK PrefixConsumed OnlyCorrections
SYMMETRY ProcessSymmetry
