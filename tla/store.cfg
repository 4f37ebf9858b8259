SPECIFICATION StoreSpec
CONSTANTS
  Opener = {p1, p2}
  Release = {8, 9}
  Found = {0, 1, 2, 3, 4, 9}
  Row = {r1, r2}
  Opens = 2
  Resource = {sets, icons, nosuch}
  Unknown = {nosuch}
  Flags <- SomeFlags
  Cursorless = {icons}
  Answer <- SomeAnswers
  Limit = {0, 1}
  Body <- SomeAnswers
  Exports = 2
  Workers = 2
  Runs = 2
  LastInstant = 2
  TTL = 0
  Record = {i1, i2}
  Reader = {u1, u2}
  Scope <- ListAndOne
  Envelope <- SomeShapes
  Source = {"auto", "live", "local"}
  ReadsEach = 1
  LastVersion = 1
  Profile = {n1}
  Tenant = {ta, tb}
  Credential = {ta, tb}
  TenantOf <- SameTenant
  Invoker = {v1, v2}
  Invocations = 3
INVARIANTS StoreTypeOK SchemaMatchesStamp WatermarkNotAhead ExitHonest LookedUpIsStored ServedOwnTenant AdoptionKeeps
PROPERTIES MigrationKeeps SyncEnds
CHECK_DEADLOCK FALSE
