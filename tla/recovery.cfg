SPECIFICATION FairSpec
CONSTANTS
  Requests = {r1, r2}
  Nobody = Nobody
  Modes = {"always_new", "reusable", "dedicated"}
  Impatient = {r1, r2}
  MaxBrowsers = 2
INVARIANTS
  GenerationMatchesPool
  RestartedIsRetried
PROPERTIES
  RetryOnlyAfterDeath
  RequestsEnd
