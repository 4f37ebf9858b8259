SPECIFICATION CommandSpec
CONSTANTS
  TTL = 0
  Process = {b1, b2}
  Prefix = {p1, p2, px}
  Live = {p1, p2}
  Browsed = {}
  Request <- Requests
  Tolerance = 10
  MaxVersion = 1
  Command <- AllCommands
  Bootstrap = {p1, p2}
  NoCache = TRUE
  Mortal = {b1, b2}
SYMMETRY ProcessSymmetry
PROPERTY AnswersLooked
