SPECIFICATION FairSpec
CONSTANTS
  Requests = {r1}
  Nobody = Nobody
  Modes = {"dedicated"}
  Impatient = {}
  MaxBrowsers = 2
PROPERTIES
  RecoveryGoesOn
CHECK_DEADLOCK FALSE
