SPECIFICATION FairSpec
CONSTANTS
  Contexts = {c1, c2}
  Requests = {r1}
  NoContext = NoContext
  Modes = {"always_new", "reusable", "dedicated"}
  MaxContexts = 1
  MinContexts = 1
  MaxRequests = 1
  CountLimit = 2
  Strategy = "Hybrid"
  Origins = {}
  NoOrigin = NoOrigin
  CountryCodes = {FALSE}
VIEW PoolView
PROPERTIES
  RequestsEnd
  UsedUpRetires
  SlotsReturn
  IdleSessionsEnd
