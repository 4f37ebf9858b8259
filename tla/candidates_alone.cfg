SPECIFICATION Spec
CONSTANTS
  Process = {p1}
  FlagAlias = {a1}
  Family = {f1, f2}
  Purging = TRUE
  MaxSteps = 2
  MaxId = 3
PROPERTIES NeverLonger PromotionKeepsPlaybook
VIEW WithoutNotes
