SPECIFICATION LearningSpec
CONSTANTS
  niger = niger
  nigeria = nigeria
  win = win
  beat = beat
  Word <- SomeWords
  Part <- SomeParts
  Starts <- SomeParts
  Query <- SomeQueries
  Resource <- SomeResources
  Names <- SomeNames
  Seeds = {}
  Taught <- SomeTaught
  Patterns <- SomePatterns
  Teacher = {t1, t2}
  Syncer = {s1, s2}
  SyncedCap = 1
  Limit = 2
  Teaches = 2
  Family = {1, 2}
  Release = {"r1", "r2"}
  Embedded <- SomeEmbedded
  Starter = {a1, a2}
  Amends = 1
INVARIANTS LearningTypeOK ExactMeansSame StillFound PlaybooksKept
PROPERTIES RefreshHeals
CHECK_DEADLOCK FALSE
