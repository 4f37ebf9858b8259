SPECIFICATION Spec
CONSTANTS
  Process = {p1}
  Key = {k1, k2}
  Window = 1
  DayLength = 1
  MaxAge = 2
  MaxLines = 1
  MaxTime = 3
  MaxEntries = 3
  MaxAborts = 1
INVARIANTS CorrectionsCounted ReplayBounded
SYMMETRY KeySymmetry
