SPECIFICATION Spec
CONSTANTS
  Requests = {r1, r2}
  Nobody = Nobody
  Modes = {"always_new"}
  Impatient = {r1, r2}
  MaxBrowsers = 1
PROPERTIES
  LivingBrowserKept
