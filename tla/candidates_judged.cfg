SPECIFICATION Spec
CONSTANTS
  Process = {p1, p2}
  FlagAlias = {a1}
  Family = {f1}
  Purging = FALSE
  MaxSteps = 2
  MaxId = 2
INVARIANTS ConfirmedMaterialized
PROPERTIES LifecycleSpec SettledKept
SYMMETRY ProcessSymmetry
